---------------------------- MODULE KTimerProofs ----------------------------
(***************************************************************************)
(* Proofs about the kernel timer, for every number of events and every     *)
(* choice of ticks.                                                        *)
(*                                                                         *)
(* The list keeps its events through the insertion into it and through the *)
(* walk of the handler; both are shown for any list with distinct events.  *)
(* The countdown needs more than ListMatchesTable says: a timer that is    *)
(* off has ktimer_time 0, so that what ktimer_event_schedule() subtracts   *)
(* from the ticks of a first event cannot make them 0.                     *)
(*                                                                         *)
(* Then the tables events and threads come from, and the console: a table  *)
(* of any size by word, or of fewer elements than a word has bits in the   *)
(* bit band, implements the pool of Pool.tla, and the console in memory,   *)
(* of every size, keeps what was printed last.                             *)
(***************************************************************************)
EXTENDS KTimer, KTable, Console, Induction

Entry == [ev : Events, delta : Word]
EventsOf(q) == {q[i].ev : i \in DOMAIN q}
Distinct(q) == \A i, j \in DOMAIN q : q[i].ev = q[j].ev => i = j

\* What holds of the list and the countdown at every call.
Counting(k) ==
  /\ k \in [queue : Seq(Entry), enabled : BOOLEAN, delta : Word, time : Nat]
  /\ k.enabled => k.delta > 0
  /\ ~k.enabled => k.time = 0

\* ktimer_event_handler() may start the timer with the head's delta.
HeadFine(k) == k.queue # <<>> => k.enabled \/ k.queue[1].delta # 0

-----------------------------------------------------------------------------
(* Words                                                                   *)

LEMMA WordFacts ==
  /\ Mod \in Nat /\ Mod > 1
  /\ \A x \in Word : x \in Int /\ x \in Nat /\ x < Mod
  BY KTimerAssumption DEF Word

LEMMA ModFacts ==
  ASSUME NEW x \in Int
  PROVE  x % Mod \in Word
  BY WordFacts DEF Word

LEMMA SignedFacts ==
  ASSUME NEW x \in Word
  PROVE  Signed(x) \in Int /\ Signed(x) < Mod
  BY WordFacts DEF Signed, Word

-----------------------------------------------------------------------------
(* Loops                                                                   *)

\* The running sum of ktimer_event_schedule()'s search.
LEMMA EtimeUnfolds ==
  ASSUME NEW q \in Seq(Entry)
  PROVE  /\ Etime(q)[0] = 0
         /\ \A i \in 1..Len(q) : Etime(q)[i] = (Etime(q)[i - 1] + q[i].delta) % Mod
  <1> DEFINE Step(g, i) == IF i = 0 THEN 0 ELSE (g[i - 1] + q[i].delta) % Mod
             S == {n \in Nat : \E g : g = [i \in 0..n |-> Step(g, i)]}
             N == Len(q)
  <1>1. N \in Nat OBVIOUS
  <1>2. 0 \in S
    <2> DEFINE g == [i \in 0..0 |-> 0]
    <2>1. g = [i \in 0..0 |-> Step(g, i)] BY SMT
    <2> QED BY <2>1
  <1>3. ASSUME NEW n \in 0..(N - 1), n \in S PROVE n + 1 \in S
    <2>1. PICK g : g = [i \in 0..n |-> Step(g, i)] BY <1>3
    <2> DEFINE h == [i \in 0..(n + 1) |-> IF i = n + 1 THEN (g[n] + q[n + 1].delta) % Mod ELSE g[i]]
    <2>2. h = [i \in 0..(n + 1) |-> Step(h, i)]
      <3> SUFFICES ASSUME NEW i \in 0..(n + 1) PROVE h[i] = Step(h, i) BY Zenon
      <3>1. CASE i = 0 BY <3>1, <2>1
      <3>2. CASE i = n + 1 BY <3>2, <2>1
      <3>3. CASE i # 0 /\ i # n + 1
        <4>1. i \in 1..n BY <3>3
        <4> QED BY <4>1, <2>1
      <3> QED BY <3>1, <3>2, <3>3
    <2>3. n + 1 \in Nat OBVIOUS
    <2> QED BY <2>2, <2>3, Zenon
  <1>4. N \in S
    <2> HIDE DEF S, N
    <2>1. \A i \in 0..N : i \in S BY <1>1, <1>2, <1>3, UpTo
    <2> QED BY <1>1, <2>1
  <1>5. Etime(q) = [i \in 0..N |-> Step(Etime(q), i)]
    BY <1>4, Zenon DEF Etime
  <1> QED BY <1>1, <1>5

LEMMA EtimeType ==
  ASSUME NEW q \in Seq(Entry)
  PROVE  \A i \in 0..Len(q) : Etime(q)[i] \in Int
  <1> DEFINE N == Len(q)
             T == {i \in 0..N : Etime(q)[i] \in Int}
  <1>1. N \in Nat OBVIOUS
  <1>2. 0 \in T BY <1>1, EtimeUnfolds
  <1>3. ASSUME NEW i \in 0..(N - 1), i \in T PROVE i + 1 \in T
    <2>1. i + 1 \in 1..N /\ (i + 1) - 1 = i BY <1>1
    <2>2. q[i + 1] \in Entry BY <2>1
    <2>3. q[i + 1].delta \in Int BY <2>2, WordFacts DEF Entry
    <2>4. Etime(q)[i + 1] = (Etime(q)[i] + q[i + 1].delta) % Mod BY <2>1, EtimeUnfolds
    <2>5. Etime(q)[i] + q[i + 1].delta \in Int BY <2>3, <1>3
    <2>6. Etime(q)[i + 1] \in Word BY <2>4, <2>5, ModFacts
    <2>7. Etime(q)[i + 1] \in Int BY <2>6, WordFacts
    <2>8. i + 1 \in 0..N BY <2>1
    <2> QED BY <2>7, <2>8
  <1> HIDE DEF T, N
  <1>4. \A i \in 0..N : i \in T BY <1>1, <1>2, <1>3, UpTo
  <1> QED BY <1>4 DEF T, N

\* The search of ktimer_event_schedule() ends inside the list.
LEMMA PlaceFacts ==
  ASSUME NEW q \in Seq(Entry), q # <<>>, NEW ticks \in Word
  PROVE  /\ Place(q, ticks) \in 0..Len(q)
         /\ ~(ticks < q[1].delta) => Place(q, ticks) # 0
  <1>1. CASE ticks < q[1].delta BY <1>1 DEF Place
  <1>2. CASE ~(ticks < q[1].delta)
    <2> DEFINE T == {i \in 1..Len(q) : i = Len(q) \/ ticks <= Etime(q)[i + 1]}
    <2>1. Len(q) \in Nat /\ Len(q) > 0 OBVIOUS
    <2>2. T \in SUBSET Nat /\ T # {}
      <3>1. Len(q) \in T BY <2>1
      <3> QED BY <3>1
    <2>3. PICK m \in T : \A n \in T : m <= n BY <2>2, LeastNumber
    <2>4. ASSUME NEW j \in 1..(m - 1) PROVE ticks > Etime(q)[j + 1]
      <3>1. j \in 1..Len(q) /\ j # Len(q) /\ j \notin T /\ j + 1 \in 0..Len(q) BY <2>3, <2>1
      <3>2. ~(ticks <= Etime(q)[j + 1]) BY <3>1
      <3>3. Etime(q)[j + 1] \in Int BY <3>1, EtimeType
      <3>4. ticks \in Int BY WordFacts
      <3> QED BY <3>2, <3>3, <3>4
    <2>5. \E i \in 1..Len(q) :
             /\ i = Len(q) \/ ticks <= Etime(q)[i + 1]
             /\ \A j \in 1..(i - 1) : ticks > Etime(q)[j + 1]
      BY <2>3, <2>4
    <2>6. Place(q, ticks) \in 1..Len(q) BY <1>2, <2>5, Zenon DEF Place
    <2> QED BY <2>6, <2>1
  <1> QED BY <1>1, <1>2

-----------------------------------------------------------------------------
(* Insertion                                                               *)

\* r is q with the entry e put behind its first p entries, whatever deltas
\* the entries behind e get.
PutBehind(r, q, e, p) ==
  /\ r \in Seq(Entry) /\ Len(r) = Len(q) + 1
  /\ \A j \in 1..p : r[j] = q[j]
  /\ r[p + 1] = e
  /\ \A j \in (p + 1)..Len(q) : r[j + 1].ev = q[j].ev

LEMMA PutBehindFacts ==
  ASSUME NEW q \in Seq(Entry), NEW r, NEW e \in Entry, NEW p \in 0..Len(q),
         PutBehind(r, q, e, p)
  PROVE  /\ EventsOf(r) = EventsOf(q) \cup {e.ev}
         /\ Distinct(q) /\ e.ev \notin EventsOf(q) => Distinct(r)
  <1> DEFINE From(j) == IF j <= p THEN j ELSE j - 1
  <1>1. Len(q) \in Nat /\ DOMAIN q = 1..Len(q) /\ DOMAIN r = 1..(Len(q) + 1)
    BY DEF PutBehind
  <1>2. p + 1 \in DOMAIN r /\ r[p + 1].ev = e.ev BY <1>1 DEF PutBehind
  <1>3. ASSUME NEW j \in DOMAIN r, j # p + 1
        PROVE  From(j) \in DOMAIN q /\ r[j].ev = q[From(j)].ev
    <2>1. CASE j <= p BY <1>1, <2>1 DEF PutBehind
    <2>2. CASE j > p + 1
      <3>1. j - 1 \in (p + 1)..Len(q) /\ (j - 1) + 1 = j BY <1>1, <2>2
      <3>2. r[j].ev = q[j - 1].ev BY <3>1 DEF PutBehind
      <3> QED BY <3>1, <3>2, <1>1, <2>2
    <2> QED BY <2>1, <2>2, <1>3, <1>1
  <1>4. ASSUME NEW i \in DOMAIN q PROVE \E j \in DOMAIN r : r[j].ev = q[i].ev
    <2>1. CASE i <= p
      <3>1. i \in DOMAIN r /\ r[i] = q[i] BY <1>1, <2>1 DEF PutBehind
      <3> QED BY <3>1
    <2>2. CASE i > p
      <3>1. i + 1 \in DOMAIN r /\ r[i + 1].ev = q[i].ev BY <1>1, <2>2 DEF PutBehind
      <3> QED BY <3>1
    <2> QED BY <2>1, <2>2, <1>1
  <1>5. EventsOf(r) \subseteq EventsOf(q) \cup {e.ev}
    <2> SUFFICES ASSUME NEW j \in DOMAIN r, j # p + 1 PROVE r[j].ev \in EventsOf(q)
      BY <1>2 DEF EventsOf
    <2> HIDE DEF From
    <2> QED BY <1>3 DEF EventsOf
  <1>6. EventsOf(q) \cup {e.ev} \subseteq EventsOf(r)
    BY <1>2, <1>4 DEF EventsOf
  <1>7. ASSUME Distinct(q), e.ev \notin EventsOf(q) PROVE Distinct(r)
    <2> SUFFICES ASSUME NEW i \in DOMAIN r, NEW j \in DOMAIN r, r[i].ev = r[j].ev
                 PROVE  i = j
      BY DEF Distinct
    <2>1. ASSUME NEW m \in DOMAIN r, m # p + 1 PROVE r[m].ev # e.ev
      <3> HIDE DEF From
      <3> QED BY <1>3, <1>7, <2>1 DEF EventsOf
    <2>2. CASE i = p + 1 \/ j = p + 1 BY <2>1, <2>2, <1>2
    <2>3. CASE i # p + 1 /\ j # p + 1
      <3>1. From(i) \in DOMAIN q /\ From(j) \in DOMAIN q /\ q[From(i)].ev = q[From(j)].ev
        <4> HIDE DEF From
        <4> QED BY <2>3, <1>3
      <3>2. From(i) = From(j)
        <4> HIDE DEF From
        <4> QED BY <3>1, <1>7 DEF Distinct
      <3> QED BY <3>2, <2>3, <1>1
    <2> QED BY <2>2, <2>3
  <1> QED BY <1>5, <1>6, <1>7

LEMMA ConcatFacts ==
  ASSUME NEW u \in Seq(Entry), NEW v \in Seq(Entry)
  PROVE  /\ u \o v \in Seq(Entry) /\ Len(u \o v) = Len(u) + Len(v)
         /\ \A j \in 1..Len(u) : (u \o v)[j] = u[j]
         /\ \A j \in 1..Len(v) : (u \o v)[Len(u) + j] = v[j]
  <1>1. u \o v \in Seq(Entry) /\ Len(u \o v) = Len(u) + Len(v) OBVIOUS
  <1>2. \A j \in 1..Len(u) : (u \o v)[j] = u[j] OBVIOUS
  <1>3. ASSUME NEW j \in 1..Len(v) PROVE (u \o v)[Len(u) + j] = v[j]
    <2>1. Len(u) \in Nat /\ Len(v) \in Nat OBVIOUS
    <2>2. Len(u) + j \in 1..(Len(u) + Len(v)) /\ Len(u) + j > Len(u) BY <2>1
    <2>3. (Len(u) + j) - Len(u) = j BY <2>1
    <2> QED BY <2>2, <2>3
  <1> QED BY <1>1, <1>2, <1>3

LEMMA InsertFacts ==
  ASSUME NEW q \in Seq(Entry), q # <<>>, NEW ticks \in Word, NEW ev \in Events
  PROVE  \E e \in Entry, p \in 0..Len(q) :
           /\ PutBehind(Insert(q, ticks, ev), q, e, p) /\ e.ev = ev
           /\ ~(ticks < q[1].delta) => p # 0
  <1> DEFINE p == Place(q, ticks)
             x == IF p = 0 THEN ticks ELSE (ticks - Etime(q)[p]) % Mod
             d == Signed(x)
             m == IF d < MinTicks THEN 0 ELSE d
             e == [ev |-> ev, delta |-> m]
             tail == SubSeq(q, p + 1, Len(q))
             rest == Recalc(tail, m)
             r == SubSeq(q, 1, p) \o <<e>> \o rest
  <1>1. p \in 0..Len(q) /\ (~(ticks < q[1].delta) => p # 0) BY PlaceFacts
  <1>2. Len(q) \in Nat OBVIOUS
  <1>3. m \in Word
    <2>1. d \in Int /\ d < Mod
      <3>1. x \in Word
        <4>1. CASE p = 0 BY <4>1
        <4>2. CASE p # 0
          <5>1. Etime(q)[p] \in Int BY <1>1, EtimeType
          <5>2. ticks - Etime(q)[p] \in Int BY <5>1, WordFacts
          <5>3. (ticks - Etime(q)[p]) % Mod \in Word BY <5>2, ModFacts
          <5> QED BY <5>3, <4>2
        <4> QED BY <4>1, <4>2
      <3> HIDE DEF x
      <3> QED BY <3>1, SignedFacts
    <2> HIDE DEF d
    <2>2. MinTicks \in Int /\ MinTicks >= 1 BY KTimerAssumption
    <2> QED BY <2>1, <2>2, WordFacts DEF Word
  <1> HIDE DEF p, m
  <1>4. e \in Entry /\ e.ev = ev BY <1>3 DEF Entry
  <1>5. /\ tail \in Seq(Entry) /\ Len(tail) = Len(q) - p
        /\ \A j \in 1..(Len(q) - p) : tail[j] = q[p + j]
    BY <1>1, <1>2
  <1> HIDE DEF tail
  <1>6. /\ rest \in Seq(Entry) /\ Len(rest) = Len(tail)
        /\ \A j \in 1..Len(tail) : rest[j].ev = tail[j].ev
    <2>1. DOMAIN tail = 1..Len(tail) /\ Len(tail) \in Nat BY <1>5
    <2>2. ASSUME NEW j \in 1..Len(tail)
          PROVE  rest[j] \in Entry /\ rest[j].ev = tail[j].ev
      <3>1. rest[j] = [tail[j] EXCEPT !.delta = (@ - m) % Mod] BY <2>1 DEF Recalc
      <3>2. tail[j] \in Entry BY <1>5, <2>1
      <3>3. tail[j].delta - m \in Int BY <3>2, <1>3, WordFacts DEF Entry
      <3>4. (tail[j].delta - m) % Mod \in Word BY <3>3, ModFacts
      <3> QED BY <3>1, <3>2, <3>4 DEF Entry
    <2>3. rest = [j \in 1..Len(tail) |-> rest[j]] BY <2>1 DEF Recalc
    <2> HIDE DEF rest
    <2>4. rest \in [1..Len(tail) -> Entry] BY <2>2, <2>3
    <2>5. rest \in Seq(Entry) /\ Len(rest) = Len(tail) BY <2>1, <2>4
    <2> QED BY <2>2, <2>5
  <1> HIDE DEF rest, e
  <1> DEFINE front == SubSeq(q, 1, p)
  <1>7. front \in Seq(Entry) /\ Len(front) = p /\ \A j \in 1..p : front[j] = q[j]
    BY <1>1, <1>2
  <1> HIDE DEF front
  <1>8. front \o <<e>> \o rest = r BY DEF front
  <1> DEFINE w == front \o <<e>> \o rest
  <1>9. /\ w \in Seq(Entry) /\ Len(w) = p + 1 + Len(rest)
        /\ \A j \in 1..p : w[j] = front[j]
        /\ w[p + 1] = e
        /\ \A j \in 1..Len(rest) : w[p + 1 + j] = rest[j]
    <2> DEFINE u == front \o <<e>>
    <2>1. /\ u \in Seq(Entry) /\ Len(u) = p + 1
          /\ \A j \in 1..p : u[j] = front[j]
          /\ u[p + 1] = e
      BY <1>1, <1>4, <1>7
    <2> HIDE DEF u
    <2> DEFINE v == u \o rest
    <2>2. /\ v \in Seq(Entry) /\ Len(v) = Len(u) + Len(rest)
          /\ \A j \in 1..Len(u) : v[j] = u[j]
          /\ \A j \in 1..Len(rest) : v[Len(u) + j] = rest[j]
      BY <1>6, <2>1, ConcatFacts
    <2>3. v = w BY DEF u
    <2> HIDE DEF v, w
    <2>4. \A j \in 1..p : w[j] = front[j] BY <2>1, <2>2, <2>3, <1>1
    <2>5. w[p + 1] = e BY <2>1, <2>2, <2>3, <1>1
    <2> QED BY <2>1, <2>2, <2>3, <2>4, <2>5
  <1> HIDE DEF w
  <1>10. ASSUME NEW j \in (p + 1)..Len(q) PROVE w[j + 1].ev = q[j].ev
    <2>1. j - p \in 1..(Len(q) - p) /\ p + 1 + (j - p) = j + 1 /\ p + (j - p) = j BY <1>1, <1>2
    <2>2. w[j + 1] = rest[j - p] BY <2>1, <1>9, <1>6, <1>5
    <2>3. rest[j - p].ev = tail[j - p].ev BY <2>1, <1>6, <1>5
    <2>4. tail[j - p] = q[j] BY <2>1, <1>5
    <2> QED BY <2>2, <2>3, <2>4
  <1>11. PutBehind(w, q, e, p)
    BY <1>1, <1>2, <1>5, <1>6, <1>7, <1>9, <1>10 DEF PutBehind
  <1>12. w = Insert(q, ticks, ev)
    BY <1>8, Zenon DEF w, Insert, front, rest, tail, e, m, p
  <1> QED BY <1>1, <1>4, <1>11, <1>12

-----------------------------------------------------------------------------
(* ktimer_event_schedule()                                                 *)

\* s is k with the event ev scheduled: the list has it once more, and the
\* timer is on, or the head is the one it was.
Scheduled(k, s, ev) ==
  /\ Counting(s)
  /\ EventsOf(s.queue) = EventsOf(k.queue) \cup {ev}
  /\ Distinct(k.queue) /\ ev \notin EventsOf(k.queue) => Distinct(s.queue)
  /\ k.enabled => s.enabled
  /\ s.enabled \/ (k.queue # <<>> /\ s.queue[1] = k.queue[1])

LEMMA EnableFacts ==
  ASSUME NEW k, Counting(k), NEW ticks \in Word, ~k.enabled => ticks # 0
  PROVE  /\ Counting(KtimerEnable(k, ticks))
         /\ KtimerEnable(k, ticks).enabled
         /\ KtimerEnable(k, ticks).queue = k.queue
  <1>1. CASE k.enabled BY <1>1 DEF KtimerEnable
  <1>2. CASE ~k.enabled
    <2> DEFINE s == [k EXCEPT !.delta = ticks, !.time = 0, !.enabled = TRUE]
    <2>1. s = KtimerEnable(k, ticks) BY <1>2 DEF KtimerEnable
    <2>2. s.enabled /\ s.queue = k.queue /\ s.delta = ticks /\ s.delta > 0
      BY <1>2, WordFacts DEF Counting
    <2>3. s \in [queue : Seq(Entry), enabled : BOOLEAN, delta : Word, time : Nat]
      BY DEF Counting
    <2> HIDE DEF s
    <2>4. Counting(s) BY <2>2, <2>3 DEF Counting
    <2> QED BY <2>1, <2>2, <2>4
  <1> QED BY <1>1, <1>2

LEMMA ScheduleFacts ==
  ASSUME NEW k, Counting(k), NEW arg \in Word, NEW ev \in Events
  PROVE  IF arg = 0 THEN EventSchedule(k, arg, ev) = k
                    ELSE Scheduled(k, EventSchedule(k, arg, ev), ev)
  <1>1. CASE arg = 0 BY <1>1 DEF EventSchedule
  <1>2. CASE arg # 0
    <2> DEFINE ticks == (arg - k.time) % Mod
               early == k.queue = <<>> \/ ticks < k.queue[1].delta
               q == IF k.queue = <<>> THEN <<[ev |-> ev, delta |-> ticks]>>
                                      ELSE Insert(k.queue, ticks, ev)
               on == IF early THEN KtimerEnable(k, ticks) ELSE k
               s == [on EXCEPT !.queue = q]
    <2>1. EventSchedule(k, arg, ev) = s BY <1>2, Zenon DEF EventSchedule
    <2>2. ticks \in Word
      <3>1. arg - k.time \in Int BY WordFacts DEF Counting
      <3> QED BY <3>1, ModFacts
    <2>3. ~k.enabled => ticks # 0
      <3> SUFFICES ASSUME ~k.enabled PROVE ticks # 0 OBVIOUS
      <3>1. k.time = 0 BY DEF Counting
      <3>2. arg - k.time = arg /\ arg \in 0..(Mod - 1) BY <3>1, WordFacts
      <3>3. arg % Mod = arg BY <3>2, WordFacts
      <3> QED BY <3>2, <3>3, <1>2
    <2> HIDE DEF ticks
    <2>4. /\ Counting(on) /\ (k.enabled => on.enabled) /\ (early => on.enabled)
      BY <2>2, <2>3, EnableFacts
    <2>5. /\ q \in Seq(Entry) /\ EventsOf(q) = EventsOf(k.queue) \cup {ev}
          /\ Distinct(k.queue) /\ ev \notin EventsOf(k.queue) => Distinct(q)
          /\ ~early => k.queue # <<>> /\ q[1] = k.queue[1]
      <3>1. CASE k.queue = <<>>
        <4> DEFINE e == [ev |-> ev, delta |-> ticks]
        <4>1. e \in Entry /\ e.ev = ev BY <2>2 DEF Entry
        <4> HIDE DEF e
        <4>2. q = <<e>> BY <3>1 DEF e
        <4> HIDE DEF q
        <4>3. q \in Seq(Entry) /\ DOMAIN q = {1} /\ q[1] = e BY <4>1, <4>2
        <4>4. EventsOf(k.queue) = {} BY <3>1 DEF EventsOf
        <4> QED BY <3>1, <4>1, <4>3, <4>4 DEF EventsOf, Distinct
      <3>2. CASE k.queue # <<>>
        <4>1. k.queue \in Seq(Entry) BY DEF Counting
        <4>2. q = Insert(k.queue, ticks, ev) BY <3>2
        <4>3. PICK e \in Entry, p \in 0..Len(k.queue) :
                /\ PutBehind(q, k.queue, e, p) /\ e.ev = ev
                /\ ~(ticks < k.queue[1].delta) => p # 0
          <5> HIDE DEF q
          <5> QED BY <4>1, <4>2, <3>2, <2>2, InsertFacts
        <4> HIDE DEF q
        <4>4. ASSUME ~early PROVE q[1] = k.queue[1]
          <5>1. p # 0 BY <4>3, <4>4
          <5>2. 1 \in 1..p BY <5>1, <4>1
          <5> QED BY <5>2, <4>3 DEF PutBehind
        <4>5. q \in Seq(Entry) BY <4>3 DEF PutBehind
        <4> QED BY <4>1, <4>3, <4>4, <4>5, <3>2, PutBehindFacts
      <3> QED BY <3>1, <3>2
    <2> HIDE DEF q, on, early
    <2>6. s.queue = q /\ s.enabled = on.enabled /\ s.delta = on.delta /\ s.time = on.time
      BY <2>4 DEF Counting
    <2>7. s \in [queue : Seq(Entry), enabled : BOOLEAN, delta : Word, time : Nat]
      BY <2>4, <2>5 DEF Counting
    <2> HIDE DEF s
    <2>8. Counting(s) BY <2>4, <2>6, <2>7 DEF Counting
    <2>9. Scheduled(k, s, ev)
      BY <2>4, <2>5, <2>6, <2>8 DEF Scheduled
    <2> QED BY <1>2, <2>1, <2>9
  <1> QED BY <1>1, <1>2

-----------------------------------------------------------------------------
(* ktimer_event_handler()                                                  *)

LEMMA ChainFacts ==
  ASSUME NEW q \in Seq(Entry), q # <<>>
  PROVE  /\ ChainLength(q) \in 1..Len(q)
         /\ ChainLength(q) = Len(q) \/ q[ChainLength(q) + 1].delta # 0
  <1> DEFINE T == {n \in 1..Len(q) : n = Len(q) \/ q[n + 1].delta # 0}
  <1>1. Len(q) \in Nat /\ Len(q) > 0 OBVIOUS
  <1>2. T \in SUBSET Nat /\ T # {}
    <2>1. Len(q) \in T BY <1>1
    <2> QED BY <2>1
  <1>3. PICK m \in T : \A n \in T : m <= n BY <1>2, LeastNumber
  <1>4. ASSUME NEW i \in 2..m PROVE q[i].delta = 0
    <2>1. i - 1 \in 1..Len(q) /\ i - 1 # Len(q) /\ (i - 1) + 1 = i BY <1>3, <1>1
    <2>2. i - 1 \notin T
      <3>1. ~(m <= i - 1) /\ m \in Nat BY <1>2
      <3> HIDE DEF T
      <3> QED BY <3>1, <1>3
    <2>3. q[(i - 1) + 1].delta = 0 BY <2>1, <2>2
    <2> QED BY <2>1, <2>3
  <1> DEFINE Good(n) == /\ \A i \in 2..n : q[i].delta = 0
                        /\ n = Len(q) \/ q[n + 1].delta # 0
  <1>5. \E n \in 1..Len(q) : Good(n)
    <2>1. m \in 1..Len(q) /\ Good(m) BY <1>3, <1>4
    <2> QED BY <2>1, Zenon
  <1>6. ChainLength(q) = CHOOSE n \in 1..Len(q) : Good(n) BY DEF ChainLength
  <1>7. ChainLength(q) \in 1..Len(q) /\ Good(ChainLength(q))
    <2> HIDE DEF Good
    <2> QED BY <1>5, <1>6, Zenon
  <1> QED BY <1>7

LEMMA WalkedUnfolds ==
  ASSUME NEW k, NEW chain \in Seq(Entry)
  PROVE  /\ Walked(k, chain)[0] = k
         /\ \A i \in 1..Len(chain) :
              Walked(k, chain)[i] = RunEvent(Walked(k, chain)[i - 1], chain[i])
  <1> DEFINE Step(g, i) == IF i = 0 THEN k ELSE RunEvent(g[i - 1], chain[i])
             S == {n \in Nat : \E g : g = [i \in 0..n |-> Step(g, i)]}
             N == Len(chain)
  <1>1. N \in Nat OBVIOUS
  <1>2. 0 \in S
    <2> DEFINE g == [i \in 0..0 |-> k]
    <2>1. g = [i \in 0..0 |-> Step(g, i)] BY SMT
    <2> QED BY <2>1
  <1>3. ASSUME NEW n \in 0..(N - 1), n \in S PROVE n + 1 \in S
    <2>1. PICK g : g = [i \in 0..n |-> Step(g, i)] BY <1>3
    <2> DEFINE h == [i \in 0..(n + 1) |-> IF i = n + 1 THEN RunEvent(g[n], chain[n + 1]) ELSE g[i]]
    <2>2. h = [i \in 0..(n + 1) |-> Step(h, i)]
      <3> SUFFICES ASSUME NEW i \in 0..(n + 1) PROVE h[i] = Step(h, i) BY Zenon
      <3>1. CASE i = 0 BY <3>1, <2>1
      <3>2. CASE i = n + 1 BY <3>2, <2>1
      <3>3. CASE i # 0 /\ i # n + 1
        <4>1. i \in 1..n BY <3>3
        <4> QED BY <4>1, <2>1
      <3> QED BY <3>1, <3>2, <3>3
    <2>3. n + 1 \in Nat OBVIOUS
    <2> QED BY <2>2, <2>3, Zenon
  <1>4. N \in S
    <2> HIDE DEF S, N
    <2>1. \A i \in 0..N : i \in S BY <1>1, <1>2, <1>3, UpTo
    <2> QED BY <1>1, <2>1
  <1>5. Walked(k, chain) = [i \in 0..N |-> Step(Walked(k, chain), i)]
    BY <1>4, Zenon DEF Walked
  <1> QED BY <1>1, <1>5

\* After i events of the chain, w is the state k with those of them on the
\* list again that are scheduled again.
WalkInv(w, k, chain, i) ==
  /\ Counting(w) /\ HeadFine(w) /\ Distinct(w.queue)
  /\ EventsOf(w.queue) = EventsOf(k.queue) \cup ({chain[j].ev : j \in 1..i} \cap {Deliver})

LEMMA WalkStep ==
  ASSUME NEW k, NEW chain \in Seq(Entry), NEW w, NEW i \in 0..(Len(chain) - 1),
         Distinct(chain), EventsOf(chain) \cap EventsOf(k.queue) = {},
         WalkInv(w, k, chain, i)
  PROVE  WalkInv(RunEvent(w, chain[i + 1]), k, chain, i + 1)
  <1> DEFINE e == chain[i + 1]
  <1>1. Len(chain) \in Nat /\ i + 1 \in 1..Len(chain) /\ DOMAIN chain = 1..Len(chain) OBVIOUS
  <1>2. {chain[j].ev : j \in 1..(i + 1)} = {chain[j].ev : j \in 1..i} \cup {e.ev}
    <2>1. 1..(i + 1) = (1..i) \cup {i + 1} BY <1>1
    <2> QED BY <2>1
  <1>3. e \in Entry BY <1>1
  <1>4. CASE e.ev # Deliver
    <2>1. RunEvent(w, e) = w BY <1>4 DEF RunEvent
    <2>2. {chain[j].ev : j \in 1..(i + 1)} \cap {Deliver} = {chain[j].ev : j \in 1..i} \cap {Deliver}
      BY <1>2, <1>4
    <2> QED BY <2>1, <2>2 DEF WalkInv
  <1>5. CASE e.ev = Deliver
    <2> DEFINE s == EventSchedule(w, Period, e.ev)
    <2>1. RunEvent(w, e) = s BY <1>5 DEF RunEvent
    <2>2. Period \in Word /\ Period # 0 BY KTimerAssumption DEF Word
    <2>3. e.ev \in Events BY <1>5 DEF Events
    <2>4. Scheduled(w, s, e.ev)
      <3>1. Counting(w) BY DEF WalkInv
      <3> HIDE DEF e
      <3> QED BY <2>2, <2>3, <3>1, ScheduleFacts
    <2> HIDE DEF s
    <2>5. e.ev \notin {chain[j].ev : j \in 1..i}
      <3> SUFFICES ASSUME NEW j \in 1..i, chain[j].ev = chain[i + 1].ev PROVE FALSE OBVIOUS
      <3>1. j \in DOMAIN chain /\ i + 1 \in DOMAIN chain /\ j # i + 1 BY <1>1
      <3> QED BY <3>1 DEF Distinct
    <2>6. e.ev \in EventsOf(chain) BY <1>1 DEF EventsOf
    <2> HIDE DEF e
    <2>7. e.ev \notin EventsOf(w.queue) BY <2>5, <2>6 DEF WalkInv
    <2>8. Counting(s) /\ Distinct(s.queue) BY <2>4, <2>7 DEF Scheduled, WalkInv
    <2>9. HeadFine(s) BY <2>4 DEF Scheduled, WalkInv, HeadFine
    <2>10. EventsOf(s.queue) = EventsOf(w.queue) \cup {e.ev} BY <2>4 DEF Scheduled
    <2>11. EventsOf(s.queue) =
             EventsOf(k.queue) \cup ({chain[j].ev : j \in 1..(i + 1)} \cap {Deliver})
      BY <2>10, <1>2, <1>5 DEF WalkInv
    <2> QED BY <2>1, <2>8, <2>9, <2>11 DEF WalkInv, e
  <1> QED BY <1>4, <1>5

LEMMA WalkFacts ==
  ASSUME NEW k, NEW chain \in Seq(Entry),
         Distinct(chain), EventsOf(chain) \cap EventsOf(k.queue) = {},
         Counting(k), HeadFine(k), Distinct(k.queue)
  PROVE  WalkInv(Walked(k, chain)[Len(chain)], k, chain, Len(chain))
  <1> DEFINE N == Len(chain)
             T == {i \in 0..N : WalkInv(Walked(k, chain)[i], k, chain, i)}
  <1>1. N \in Nat OBVIOUS
  <1>2. 0 \in T
    <2>1. WalkInv(k, k, chain, 0) BY DEF WalkInv
    <2>2. Walked(k, chain)[0] = k BY WalkedUnfolds
    <2> QED BY <1>1, <2>1, <2>2
  <1>3. ASSUME NEW i \in 0..(N - 1), i \in T PROVE i + 1 \in T
    <2>1. i + 1 \in 1..N /\ (i + 1) - 1 = i BY <1>1
    <2>2. Walked(k, chain)[i + 1] = RunEvent(Walked(k, chain)[i], chain[i + 1])
      BY <2>1, WalkedUnfolds
    <2>3. WalkInv(Walked(k, chain)[i], k, chain, i) BY <1>3
    <2>4. WalkInv(Walked(k, chain)[i + 1], k, chain, i + 1) BY <2>2, <2>3, WalkStep
    <2>5. i + 1 \in 0..N BY <2>1, <1>1
    <2> QED BY <2>4, <2>5
  <1> HIDE DEF T, N
  <1>4. \A i \in 0..N : i \in T BY <1>1, <1>2, <1>3, UpTo
  <1>5. N \in T BY <1>1, <1>4
  <1> QED BY <1>5 DEF T, N

-----------------------------------------------------------------------------
(* The steps                                                               *)

IInv ==
  /\ Counting(Now) /\ Distinct(queue)
  /\ flag \in BOOLEAN
  /\ flag \/ enabled
  /\ Deliver \in Queued /\ Queued \subseteq table /\ table \subseteq Events

\* What a step ends with: the list and the countdown are k, and the events
\* that left the list have been run.
EndsWith(k) ==
  /\ Commit(k)
  /\ Counting(k) /\ Distinct(k.queue)
  /\ flag' \in BOOLEAN /\ (flag' \/ k.enabled)
  /\ Deliver \in EventsOf(k.queue) /\ EventsOf(k.queue) \subseteq table' /\ table' \subseteq Events
  /\ Queued \ EventsOf(k.queue) \subseteq ran'
  /\ ran' # {} => flag

LEMMA CreateStep ==
  ASSUME IInv, NEW ticks \in SleepTicks, EventCreate(ticks)
  PROVE  \E k : EndsWith(k)
  <1>1. PICK e \in Sleeps \ table :
          table' = table \cup {e} /\ Commit(EventSchedule(Now, ticks, e))
    BY DEF EventCreate
  <1>2. ran' = {} /\ flag' = flag BY DEF EventCreate
  <1> DEFINE k == EventSchedule(Now, ticks, e)
  <1>3. ticks \in Word /\ e \in Events BY KTimerAssumption DEF Word, Events
  <1>4. Counting(Now) /\ Now.queue = queue /\ Now.enabled = enabled BY DEF IInv, Now
  <1>5. EventsOf(queue) = Queued BY DEF EventsOf, Queued
  <1>6. IF ticks = 0 THEN k = Now ELSE Scheduled(Now, k, e) BY <1>3, <1>4, ScheduleFacts
  <1> HIDE DEF k
  <1>7. /\ Counting(k) /\ Distinct(k.queue)
        /\ Queued \subseteq EventsOf(k.queue) /\ EventsOf(k.queue) \subseteq Queued \cup {e}
        /\ enabled => k.enabled
    <2>1. CASE ticks = 0 BY <2>1, <1>4, <1>5, <1>6 DEF IInv
    <2>2. CASE ticks # 0
      <3>1. Scheduled(Now, k, e) BY <2>2, <1>6
      <3>2. e \notin EventsOf(Now.queue) BY <1>1, <1>4, <1>5 DEF IInv
      <3> QED BY <3>1, <3>2, <1>4, <1>5 DEF Scheduled, IInv
    <2> QED BY <2>1, <2>2
  <1>8. Commit(k) BY <1>1 DEF k
  <1>9. EndsWith(k) BY <1>1, <1>2, <1>3, <1>7, <1>8 DEF EndsWith, IInv
  <1> QED BY <1>9

LEMMA TickStep ==
  ASSUME IInv, KtimerHandler \/ EnterTickless
  PROVE  \E k : EndsWith(k)
  <1> DEFINE k == [queue |-> queue, enabled |-> enabled', delta |-> delta', time |-> time']
  <1>1. /\ queue \in Seq(Entry) /\ enabled \in BOOLEAN /\ delta \in Word /\ time \in Nat
        /\ enabled => delta > 0
        /\ ~enabled => time = 0
    BY DEF IInv, Counting, Now
  <1>2. ran' = {} /\ queue' = queue /\ table' = table BY DEF KtimerHandler, EnterTickless
  <1>3. /\ enabled' \in BOOLEAN /\ delta' \in Word /\ time' \in Nat
        /\ enabled' => delta' > 0
        /\ ~enabled' => time' = 0
        /\ flag' \in BOOLEAN /\ (flag' \/ enabled')
    <2>1. CASE KtimerHandler
      <3>1. CASE ~(enabled /\ delta > 0) BY <2>1, <3>1, <1>1 DEF KtimerHandler, IInv
      <3>2. CASE enabled /\ delta = 1
        <4>1. delta > 0 BY <3>2
        <4>2. enabled' = FALSE /\ time' = 0 /\ delta' = 0 /\ flag' = TRUE
          BY <2>1, <3>2, <4>1, Zenon DEF KtimerHandler
        <4>3. 0 \in Word BY WordFacts DEF Word
        <4> QED BY <4>2, <4>3
      <3>3. CASE enabled /\ delta > 1
        <4>0. delta > 0 /\ delta # 1 BY <3>3, <1>1, WordFacts
        <4>1. time' = time + 1 /\ delta' = delta - 1 /\ enabled' = enabled /\ flag' = flag
          BY <2>1, <3>3, <4>0, Zenon DEF KtimerHandler
        <4>2. delta - 1 \in Word /\ delta - 1 > 0 BY <1>1, <3>3, WordFacts DEF Word
        <4> QED BY <4>1, <4>2, <3>3, <1>1 DEF IInv
      <3> QED BY <3>1, <3>2, <3>3, <1>1, WordFacts
    <2>2. CASE EnterTickless
      <3>1. PICK n \in 1..(IF delta <= MaxTicks THEN delta - 1 ELSE MaxTicks - 1) :
              time' = time + n /\ delta' = delta - n
        BY <2>2 DEF EnterTickless
      <3>2. enabled /\ enabled' = enabled /\ flag' = flag BY <2>2 DEF EnterTickless
      <3>3. n \in Nat /\ n < delta BY KTimerAssumption, WordFacts, <1>1
      <3>4. delta - n \in Word /\ delta - n > 0 BY <1>1, <3>3, WordFacts DEF Word
      <3> QED BY <1>1, <3>1, <3>2, <3>3, <3>4 DEF IInv
    <2> QED BY <2>1, <2>2
  <1>4. Commit(k) BY <1>2 DEF Commit
  <1>5. Counting(k) BY <1>1, <1>3 DEF Counting
  <1>6. k.queue = queue /\ k.enabled = enabled' OBVIOUS
  <1> HIDE DEF k
  <1>7. EventsOf(queue) = Queued BY DEF EventsOf, Queued
  <1>8. EndsWith(k) BY <1>2, <1>3, <1>4, <1>5, <1>6, <1>7 DEF EndsWith, IInv
  <1> QED BY <1>8

LEMMA NoEvents == EventsOf(<<>>) = {}
  BY DEF EventsOf

LEMMA SplitFacts ==
  ASSUME NEW q \in Seq(Entry), Distinct(q), NEW n \in 1..Len(q)
  PROVE  LET chain == SubSeq(q, 1, n)
             rest == SubSeq(q, n + 1, Len(q))
         IN  /\ chain \in Seq(Entry) /\ Len(chain) = n /\ Distinct(chain)
             /\ rest \in Seq(Entry) /\ Distinct(rest)
             /\ rest # <<>> => n # Len(q) /\ rest[1] = q[n + 1]
             /\ EventsOf(chain) \cap EventsOf(rest) = {}
             /\ EventsOf(q) = EventsOf(chain) \cup EventsOf(rest)
  <1> DEFINE chain == SubSeq(q, 1, n)
             rest == SubSeq(q, n + 1, Len(q))
  <1>0. n \in Int /\ Len(q) \in Int /\ n <= Len(q) OBVIOUS
  <1>1. Len(q) \in Nat /\ DOMAIN q = 1..Len(q) OBVIOUS
  <1>2. /\ chain \in Seq(Entry) /\ Len(chain) = n /\ DOMAIN chain = 1..n
        /\ \A i \in 1..n : chain[i] = q[i]
    BY <1>1
  <1>3. /\ rest \in Seq(Entry) /\ Len(rest) = Len(q) - n /\ DOMAIN rest = 1..(Len(q) - n)
        /\ \A i \in 1..(Len(q) - n) : rest[i] = q[n + i]
    <2>1. rest \in Seq(Entry) BY <1>1
    <2>2. Len(rest) = Len(q) - n
      <3>1. CASE n = Len(q) BY <1>1, <3>1
      <3>2. CASE n + 1 <= Len(q) BY <1>1, <3>2
      <3>3. n = Len(q) \/ n + 1 <= Len(q) BY <1>0
      <3> QED BY <3>1, <3>2, <3>3
    <2>3. \A i \in 1..(Len(q) - n) : rest[i] = q[n + i] BY <1>1
    <2> HIDE DEF rest
    <2> QED BY <2>1, <2>2, <2>3
  <1> HIDE DEF chain, rest
  <1>4. Distinct(chain) BY <1>1, <1>2 DEF Distinct
  <1>5. ASSUME NEW i \in 1..(Len(q) - n) PROVE n + i \in DOMAIN q /\ n + i > n
    BY <1>1
  <1>6. Distinct(rest)
    <2> SUFFICES ASSUME NEW i \in DOMAIN rest, NEW j \in DOMAIN rest, rest[i].ev = rest[j].ev
                 PROVE  i = j
      BY DEF Distinct
    <2>1. q[n + i].ev = q[n + j].ev BY <1>3
    <2>2. n + i = n + j BY <2>1, <1>3, <1>5 DEF Distinct
    <2> QED BY <2>2, <1>3
  <1>7. rest # <<>> => n # Len(q) /\ rest[1] = q[n + 1]
    <2> SUFFICES ASSUME rest # <<>> PROVE n # Len(q) /\ rest[1] = q[n + 1] OBVIOUS
    <2>1. Len(rest) > 0 BY <1>3
    <2>2. 1 \in 1..(Len(q) - n) BY <2>1, <1>1, <1>3
    <2>3. rest[1] = q[n + 1] BY <2>2, <1>3
    <2>4. Len(q) - n > 0 BY <2>1, <1>3
    <2>5. n # Len(q) BY <2>4, <1>0
    <2> QED BY <2>3, <2>5
  <1>8. EventsOf(chain) \cap EventsOf(rest) = {}
    <2> SUFFICES ASSUME NEW i \in 1..n, NEW j \in 1..(Len(q) - n), chain[i].ev = rest[j].ev
                 PROVE  FALSE
      BY <1>2, <1>3 DEF EventsOf
    <2>1. q[i].ev = q[n + j].ev BY <1>2, <1>3
    <2>2. i = n + j BY <2>1, <1>1, <1>5 DEF Distinct
    <2> QED BY <2>2, <1>1
  <1>9. EventsOf(q) = EventsOf(chain) \cup EventsOf(rest)
    <2>1. EventsOf(chain) \subseteq EventsOf(q)
      <3>1. 1..n \subseteq DOMAIN q BY <1>1
      <3> QED BY <3>1, <1>2 DEF EventsOf
    <2>2. EventsOf(rest) \subseteq EventsOf(q)
      BY <1>3, <1>5 DEF EventsOf
    <2>3. ASSUME NEW i \in DOMAIN q PROVE q[i].ev \in EventsOf(chain) \cup EventsOf(rest)
      <3>1. CASE i <= n
        <4>1. i \in DOMAIN chain /\ chain[i] = q[i] BY <1>1, <1>2, <3>1
        <4> QED BY <4>1 DEF EventsOf
      <3>2. CASE i > n
        <4>1. i - n \in DOMAIN rest /\ n + (i - n) = i BY <1>1, <1>3, <3>2
        <4>2. rest[i - n] = q[i] BY <4>1, <1>3
        <4> QED BY <4>1, <4>2 DEF EventsOf
      <3> QED BY <3>1, <3>2, <1>1
    <2> QED BY <2>1, <2>2, <2>3 DEF EventsOf
  <1> QED BY <1>2, <1>3, <1>4, <1>6, <1>7, <1>8, <1>9 DEF chain, rest

LEMMA HandlerStep ==
  ASSUME IInv, EventHandler
  PROVE  \E k : EndsWith(k)
  <1>1. /\ queue \in Seq(Entry) /\ Distinct(queue) /\ Counting(Now)
        /\ Now.queue = queue /\ EventsOf(queue) = Queued
    BY DEF IInv, Counting, Now, EventsOf, Queued
  <1>2. queue # <<>> BY <1>1, NoEvents DEF IInv
  <1> DEFINE n     == ChainLength(queue)
             chain == SubSeq(queue, 1, n)
             left  == SubSeq(queue, n + 1, Len(queue))
             rest  == [Now EXCEPT !.queue = left]
             evs   == {chain[i].ev : i \in 1..n}
             done  == Walked(rest, chain)[n]
             k     == IF done.queue = <<>> THEN done
                      ELSE KtimerEnable(done, done.queue[1].delta)
  <1>3. /\ flag /\ flag' = FALSE
        /\ Commit(k)
        /\ ran' = evs
        /\ table' = table \ (evs \ {Deliver})
    BY <1>2, Zenon DEF EventHandler
  <1>4. n \in 1..Len(queue) /\ (n = Len(queue) \/ queue[n + 1].delta # 0)
    BY <1>1, <1>2, ChainFacts
  <1> HIDE DEF n
  <1>5. /\ chain \in Seq(Entry) /\ Len(chain) = n /\ Distinct(chain)
        /\ left \in Seq(Entry) /\ Distinct(left)
        /\ left # <<>> => n # Len(queue) /\ left[1] = queue[n + 1]
        /\ EventsOf(chain) \cap EventsOf(left) = {}
        /\ EventsOf(queue) = EventsOf(chain) \cup EventsOf(left)
    BY <1>1, <1>4, SplitFacts
  <1> HIDE DEF chain, left
  <1>6. evs = EventsOf(chain) BY <1>5 DEF EventsOf
  <1>7. rest.queue = left /\ Counting(rest)
    <2>1. /\ rest.queue = left /\ rest.enabled = Now.enabled
          /\ rest.delta = Now.delta /\ rest.time = Now.time
          /\ rest \in [queue : Seq(Entry), enabled : BOOLEAN, delta : Word, time : Nat]
      BY <1>1, <1>5 DEF Counting
    <2> HIDE DEF rest
    <2> QED BY <2>1, <1>1 DEF Counting
  <1> HIDE DEF rest
  <1>8. HeadFine(rest) BY <1>4, <1>5, <1>7 DEF HeadFine
  <1>9. WalkInv(done, rest, chain, n) BY <1>5, <1>7, <1>8, WalkFacts
  <1> HIDE DEF done
  <1>10. EventsOf(done.queue) = EventsOf(left) \cup (evs \cap {Deliver})
    BY <1>7, <1>9 DEF WalkInv
  <1>11. Deliver \in EventsOf(done.queue) BY <1>1, <1>5, <1>6, <1>10 DEF IInv
  <1>12. done.queue # <<>> /\ done.queue \in Seq(Entry)
    BY <1>9, <1>11, NoEvents DEF WalkInv, Counting
  <1>13. k = KtimerEnable(done, done.queue[1].delta) BY <1>12
  <1> HIDE DEF k
  <1>14. done.queue[1].delta \in Word
    <2>1. done.queue[1] \in Entry BY <1>12
    <2> QED BY <2>1 DEF Entry
  <1>15. Counting(k) /\ k.enabled /\ k.queue = done.queue
    BY <1>9, <1>12, <1>13, <1>14, EnableFacts DEF WalkInv, HeadFine
  <1>16. Distinct(k.queue) BY <1>15, <1>9 DEF WalkInv
  <1> HIDE DEF evs
  <1>17. EventsOf(k.queue) \subseteq table' /\ table' \subseteq Events
    BY <1>1, <1>3, <1>5, <1>6, <1>10, <1>15 DEF IInv
  <1>18. Queued \ EventsOf(k.queue) \subseteq ran'
    BY <1>1, <1>3, <1>5, <1>6, <1>10, <1>15
  <1>19. EndsWith(k) BY <1>3, <1>11, <1>15, <1>16, <1>17, <1>18 DEF EndsWith
  <1> QED BY <1>19

-----------------------------------------------------------------------------
(* Theorems                                                                *)

LEMMA InitInv == Init => IInv
  <1> SUFFICES ASSUME Init PROVE IInv OBVIOUS
  <1> DEFINE e == [ev |-> Deliver, delta |-> First]
  <1>1. First \in Word /\ First > 0 BY KTimerAssumption DEF Word
  <1>2. e \in Entry /\ e.ev = Deliver BY <1>1 DEF Entry, Events
  <1> HIDE DEF e
  <1>3. queue = <<e>> BY DEF Init, e
  <1>4. queue \in Seq(Entry) /\ DOMAIN queue = {1} /\ queue[1] = e BY <1>2, <1>3
  <1>5. Queued = {Deliver} BY <1>2, <1>4 DEF Queued
  <1>6. Distinct(queue) BY <1>4 DEF Distinct
  <1>7. Counting(Now) BY <1>1, <1>4 DEF Counting, Now, Init
  <1> QED BY <1>5, <1>6, <1>7 DEF IInv, Init, Events

LEMMA StepFacts ==
  ASSUME IInv, Next
  PROVE  IInv' /\ (Queued \ Queued') \subseteq ran' /\ (ran' # {} => flag)
  <1>1. PICK k : EndsWith(k)
    BY CreateStep, TickStep, HandlerStep DEF Next
  <1>2. Commit(k) /\ Counting(k) BY <1>1 DEF EndsWith
  <1>3. Now' = k BY <1>2 DEF Now, Commit, Counting
  <1>4. queue' = k.queue /\ enabled' = k.enabled BY <1>2 DEF Commit
  <1>5. Queued' = EventsOf(k.queue) BY <1>4 DEF Queued, EventsOf
  <1>6. Counting(Now)' BY <1>2, <1>3 DEF Counting
  <1>7. Distinct(queue)' BY <1>1, <1>4 DEF EndsWith, Distinct
  <1> QED BY <1>1, <1>4, <1>5, <1>6, <1>7 DEF EndsWith, IInv

LEMMA StutterFacts ==
  ASSUME IInv, UNCHANGED vars
  PROVE  IInv'
  BY DEF IInv, vars, Counting, Now, Distinct, Queued

\* The list of ktimer_event_schedule() and ktimer_event_handler(), and the
\* table its events come from, stay in step with each other, and the
\* countdown is never off while the list has events and no softirq is
\* pending.
THEOREM ListAndTable == Spec => []ListMatchesTable
  <1>1. IInv => ListMatchesTable
    BY DEF IInv, ListMatchesTable, Counting, Now, Distinct
  <1>2. IInv /\ [Next]_vars => IInv'
    BY StepFacts, StutterFacts
  <1> QED BY InitInv, <1>1, <1>2, PTL DEF Spec

\* No path of ktimer_event_schedule() or ktimer_event_handler() loses an
\* event: it leaves the list when its handler runs, after an expiry.
THEOREM NoEventLost == Spec => LeavesByRunning
  <1>1. IInv /\ [Next]_vars => IInv'
    BY StepFacts, StutterFacts
  <1>2. IInv /\ [Next]_vars => [(Queued \ Queued') \subseteq ran' /\ (ran' # {} => flag)]_vars
    BY StepFacts
  <1> QED BY InitInv, <1>1, <1>2, PTL DEF Spec, LeavesByRunning
-----------------------------------------------------------------------------
(* Tables                                                                  *)

\* Every element has a bit (DECLARE_BITMAP).
LEMMA ElementsLemma == Elements \subseteq Positions
  BY KTableAssumption DEF Elements, Positions

\* A table whose size is a whole number of bytes is cleared by ktable_init().
LEMMA ClearedLemma == Uncleared \cap Elements = {} /\ Uncleared \subseteq Positions
  <1>1. 8 * (Num \div 8) = Num
    BY KTableAssumption, Z3
  <1> QED
    BY <1>1, KTableAssumption DEF Uncleared, Elements, Positions

\* The loop of ktable_alloc() visits exactly the bits of the table's elements,
\* and the cursor's id is the number of the bit.
LEMMA VisitedLemma == /\ Visited = Elements
                      /\ \A c \in Elements : bitmap_cursor_id(c) = c
  <1>1. \A c \in Elements : bitmap_cursor_id(c) = c
    BY KTableAssumption, Z3 DEF bitmap_cursor_id, Elements
  <1>2. Elements \subseteq Visited
    BY <1>1, KTableAssumption DEF Visited, Elements, Positions
  <1>3. ASSUME NEW c \in Visited PROVE c \in Elements
    <2>1. CASE ~Bitband
      BY <2>1, <1>3, KTableAssumption DEF Visited, Elements, Positions, bitmap_cursor_id
    <2>2. CASE Bitband
      <3>1. ASSUME c >= Num PROVE FALSE
        <4>1. Num \in 0 .. c /\ Num % WordBits = Num
          BY <3>1, <2>2, KTableAssumption DEF Visited, Positions
        <4> QED
          BY <4>1, <2>2, <1>3, KTableAssumption DEF Visited, bitmap_cursor_id
      <3> QED
        BY <3>1, <1>3, KTableAssumption DEF Visited, Elements, Positions
    <2> QED
      BY <2>1, <2>2, KTableAssumption
  <1> QED
    BY <1>1, <1>2, <1>3

\* The bitmap and the owners agree in every reachable state (ktable_alloc(),
\* ktable_alloc_id(), ktable_free()), for the tables of KTableAssumption.
THEOREM OwnersHaveBits == ktSpec => []BitsAreHeld
  <1>1. ktInit => BitsAreHeld
    BY ClearedLemma DEF ktInit, BitsAreHeld
  <1>2. BitsAreHeld /\ [ktNext]_ktVars => BitsAreHeld'
    <2> SUFFICES ASSUME BitsAreHeld, [ktNext]_ktVars PROVE BitsAreHeld'
      OBVIOUS
    <2>1. ASSUME NEW lost \in SUBSET Elements, ktable_alloc(lost) PROVE BitsAreHeld'
      <3>1. CASE Takes(lost) = {}
        BY <2>1, <3>1 DEF ktable_alloc, BitsAreHeld
      <3>2. CASE Takes(lost) # {}
        <4>1. PICK c \in Takes(lost) : /\ bits' = bits \cup {c}
                                       /\ ret' = bitmap_cursor_id(c)
                                       /\ held' = held \cup {bitmap_cursor_id(c)}
          BY <2>1, <3>2 DEF ktable_alloc
        <4>2. c \in Elements /\ bitmap_cursor_id(c) = c
          BY VisitedLemma DEF Takes
        <4> QED
          BY <4>1, <4>2, ElementsLemma DEF BitsAreHeld
      <3> QED
        BY <3>1, <3>2
    <2>2. ASSUME NEW i \in Elements, NEW lost \in BOOLEAN, ktable_alloc_id(i, lost)
          PROVE  BitsAreHeld'
      BY <2>2, ElementsLemma DEF ktable_alloc_id, BitsAreHeld
    <2>3. ASSUME NEW e \in Elements, ktable_free(e) PROVE BitsAreHeld'
      BY <2>3 DEF ktable_free, BitsAreHeld
    <2>4. CASE UNCHANGED ktVars
      BY <2>4 DEF ktVars, BitsAreHeld
    <2> QED
      BY <2>1, <2>2, <2>3, <2>4 DEF ktNext
  <1> QED
    BY <1>1, <1>2, PTL DEF ktSpec

\* A table of any size by word (ktable_alloc() without bit-band), or one in the bit band
\* of fewer elements than bitmap_cursor_id() tells apart, is a pool: no element ever has
\* two owners, and an allocation fails only when the table is full or was interrupted.
THEOREM TableImplementsPool == ktSpec => TableIsPool
  <1>1. ktInit => P!PoolInit
    BY DEF ktInit, P!PoolInit
  <1>2. BitsAreHeld /\ [ktNext]_ktVars => [P!PoolNext]_<<held, ret, intr>>
    <2> SUFFICES ASSUME BitsAreHeld, [ktNext]_ktVars
                 PROVE  [P!PoolNext]_<<held, ret, intr>>
      OBVIOUS
    <2>1. ASSUME NEW lost \in SUBSET Elements, ktable_alloc(lost) PROVE P!PoolNext
      <3>1. CASE Takes(lost) = {}
        <4>1. held = Elements \/ lost # {}
          BY <3>1, VisitedLemma DEF Takes, BitsAreHeld
        <4>2. P!Fail
          BY <2>1, <3>1, <4>1 DEF ktable_alloc, P!Fail
        <4> QED
          BY <4>2 DEF P!PoolNext
      <3>2. CASE Takes(lost) # {}
        <4>1. PICK c \in Takes(lost) : /\ ret' = bitmap_cursor_id(c)
                                       /\ held' = held \cup {bitmap_cursor_id(c)}
          BY <2>1, <3>2 DEF ktable_alloc
        <4>2. c \in Elements \ held /\ bitmap_cursor_id(c) = c
          BY VisitedLemma DEF Takes, BitsAreHeld
        <4>3. P!Grant
          BY <2>1, <4>1, <4>2 DEF ktable_alloc, P!Grant
        <4> QED
          BY <4>3 DEF P!PoolNext
      <3> QED
        BY <3>1, <3>2
    <2>2. ASSUME NEW i \in Elements, NEW lost \in BOOLEAN, ktable_alloc_id(i, lost)
          PROVE  P!PoolNext
      BY <2>2 DEF ktable_alloc_id, BitsAreHeld, P!PoolNext, P!Grant, P!Fail, P!Refuse
    <2>3. ASSUME NEW e \in Elements, ktable_free(e) PROVE P!PoolNext
      BY <2>3 DEF ktable_free, P!PoolNext, P!Return
    <2>4. CASE UNCHANGED ktVars
      BY <2>4 DEF ktVars
    <2> QED
      BY <2>1, <2>2, <2>3, <2>4 DEF ktNext
  <1> QED
    BY <1>1, <1>2, OwnersHaveBits, PTL DEF ktSpec, TableIsPool, P!PoolSpec

-----------------------------------------------------------------------------
(* The console                                                             *)

\* What dbg_device_init() leaves in the table: every device of the build has
\* registered itself, the last one included.
Registration ==
  /\ cur_dev \in 0 .. DBG_DEV_MAX - 1
  /\ DOMAIN dbg_dev = 0 .. DBG_DEV_MAX - 1
  /\ \A i \in 0 .. DBG_DEV_MAX - 1 : dbg_dev[i] \in {dbg_dev_uart, dbg_dev_ram}

Ring(buf, chars) ==
  /\ buf.idx \in 0 .. BufSize - 1
  /\ DOMAIN buf.data = 0 .. BufSize - 1
  /\ \A back \in 1 .. Smaller(Len(chars), BufSize) :
       buf.data[(buf.idx + BufSize - back) % BufSize] = chars[Len(chars) + 1 - back]

ConInv ==
  /\ build \in Builds
  /\ Registration
  /\ DOMAIN handed = Pointers /\ handed["ram"] \in Seq(Chars)
  /\ Ring(dbg_buf, handed["ram"])
  /\ handed["default"] = <<>> /\ handed[Null] = <<>>
  /\ wild => dbg_dev[cur_dev].dev_id = Id("ram")

\* An index of the ring is reduced once.
LEMMA Wrapped ==
  ASSUME NEW x \in 0 .. 2 * BufSize - 1
  PROVE  x % BufSize = IF x < BufSize THEN x ELSE x - BufSize
  <1>1. BufSize \in Nat /\ BufSize > 0 BY ConsoleAssumption
  <1>2. CASE x < BufSize BY <1>1, <1>2
  <1>3. CASE x >= BufSize
    <2>1. x - BufSize \in 0 .. BufSize - 1 BY <1>1, <1>3
    <2>2. x = BufSize * 1 + (x - BufSize) BY <1>1
    <2> QED BY <1>1, <1>3, <2>1, <2>2, SMTT(30)
  <1> QED BY <1>1, <1>2, <1>3

\* dbg_ram_putchar() keeps the ring, also where its index wraps.
LEMMA RingStep ==
  ASSUME NEW buf, NEW chars \in Seq(Chars), NEW chr \in Chars, Ring(buf, chars)
  PROVE  Ring(dbg_ram_putchar(buf, chr), Append(chars, chr))
  <1> DEFINE new == dbg_ram_putchar(buf, chr)
             to == Append(chars, chr)
             n == Len(chars)
             B == BufSize
  <1>1. B \in Nat /\ B > 0 BY ConsoleAssumption
  <1>2. buf.idx \in 0 .. B - 1 /\ DOMAIN buf.data = 0 .. B - 1 BY DEF Ring
  <1>3. new.idx = IF buf.idx + 1 = B THEN 0 ELSE buf.idx + 1 BY DEF dbg_ram_putchar
  <1>4. new.data = [buf.data EXCEPT ![buf.idx] = chr] BY DEF dbg_ram_putchar
  <1> HIDE DEF new
  <1>5. new.idx \in 0 .. B - 1 BY <1>1, <1>2, <1>3
  <1>6. DOMAIN new.data = 0 .. B - 1 BY <1>2, <1>4
  <1>7. /\ n \in Nat /\ Len(to) = n + 1 /\ to[n + 1] = chr
        /\ \A i \in 1 .. n : to[i] = chars[i]
    OBVIOUS
  <1> HIDE DEF to, n
  <1>8. ASSUME NEW back \in 1 .. Smaller(n + 1, B)
        PROVE  new.data[(new.idx + B - back) % B] = to[n + 2 - back]
    <2>1. back \in 1 .. B /\ back <= n + 1 BY <1>1, <1>7 DEF Smaller
    <2> DEFINE x == new.idx + B - back
    <2>2. x \in 0 .. 2 * B - 1 BY <1>1, <1>5, <2>1
    <2>3. CASE back = 1
      <3>1. x % B = buf.idx
        <4>1. x % B = IF x < B THEN x ELSE x - B BY <2>2, Wrapped
        <4> QED BY <4>1, <2>3, <1>1, <1>2, <1>3
      <3>2. new.data[buf.idx] = chr BY <1>2, <1>4
      <3>3. n + 2 - back = n + 1 BY <2>3, <1>7
      <3> HIDE DEF x
      <3> QED BY <3>1, <3>2, <3>3, <1>7 DEF x
    <2>4. CASE back > 1
      <3> DEFINE y == buf.idx + B - (back - 1)
      <3>1. y \in 0 .. 2 * B - 1 BY <1>1, <1>2, <2>1
      <3>2. y % B = IF y < B THEN y ELSE y - B BY <3>1, Wrapped
      <3>3. x % B = IF x < B THEN x ELSE x - B BY <2>2, Wrapped
      <3>4. x % B = y % B /\ y % B # buf.idx /\ y % B \in 0 .. B - 1
        <4> DEFINE wx == IF x < B THEN x ELSE x - B
                   wy == IF y < B THEN y ELSE y - B
        <4>1. CASE buf.idx + 1 = B
          <5>1. new.idx = 0 BY <4>1, <1>3
          <5>2. x = B - back /\ y = 2 * B - back BY <4>1, <5>1, <1>1, <1>2, <2>1
          <5>3. wx = wy /\ wy # buf.idx /\ wy \in 0 .. B - 1
            BY <4>1, <5>2, <2>1, <2>4, <1>1, <1>2
          <5>4. x % B = wx /\ y % B = wy BY <3>2, <3>3
          <5> HIDE DEF x, y, wx, wy
          <5> QED BY <5>3, <5>4
        <4>2. CASE buf.idx + 1 # B
          <5>1. new.idx = buf.idx + 1 BY <4>2, <1>3
          <5>2. x = y BY <5>1, <1>1, <1>2, <2>1
          <5>3. wy # buf.idx /\ wy \in 0 .. B - 1 BY <2>1, <2>4, <1>1, <1>2
          <5> HIDE DEF x, y
          <5> QED BY <5>2, <5>3, <3>2
        <4> QED BY <4>1, <4>2
      <3>5. back - 1 \in 1 .. Smaller(n, B) BY <2>1, <2>4, <1>1, <1>7 DEF Smaller
      <3>6. buf.data[y % B] = chars[n + 1 - (back - 1)] BY <3>5 DEF Ring, n
      <3>7. n + 1 - (back - 1) = n + 2 - back /\ n + 2 - back \in 1 .. n
        BY <2>1, <2>4, <1>7
      <3>8. to[n + 2 - back] = chars[n + 2 - back] BY <3>7, <1>7
      <3> HIDE DEF x, y
      <3>9. new.data[y % B] = buf.data[y % B] BY <3>4, <1>2, <1>4
      <3>10. new.data[x % B] = to[n + 2 - back] BY <3>4, <3>6, <3>7, <3>8, <3>9
      <3> QED BY <3>10 DEF x
    <2> QED BY <2>1, <2>3, <2>4
  <1>9. \A back \in 1 .. Smaller(Len(to), BufSize) :
          new.data[(new.idx + BufSize - back) % BufSize] = to[Len(to) + 1 - back]
    <2> SUFFICES ASSUME NEW back \in 1 .. Smaller(Len(to), BufSize)
                 PROVE  new.data[(new.idx + BufSize - back) % BufSize] = to[Len(to) + 1 - back]
      OBVIOUS
    <2>1. back \in 1 .. Smaller(n + 1, B) BY <1>7
    <2>2. Len(to) + 1 - back = n + 2 - back BY <1>7, <2>1, <1>1 DEF Smaller
    <2> QED BY <2>1, <2>2, <1>8
  <1> QED BY <1>5, <1>6, <1>9 DEF Ring, new, to

LEMMA RegisteredAt ==
  ASSUME NEW devs, NEW device, NEW i, device.dev_id = i, i < DBG_DEV_MAX
  PROVE  Registered(devs, device) = [devs EXCEPT ![i] = device]
  BY Zenon DEF Registered

\* The devices of each build, by their place in the table.
LEMMA DevicesOfBuild ==
  ASSUME build \in Builds
  PROVE  /\ DBG_DEV_MAX \in Nat /\ DBG_DEV_MAX > 0
         /\ DOMAIN dbg_device_init = 0 .. DBG_DEV_MAX - 1
         /\ \A i \in 0 .. DBG_DEV_MAX - 1 : dbg_device_init[i] \in {dbg_dev_uart, dbg_dev_ram}
  <1>1. build \in {<<"uart">>, <<"ram">>, <<"uart", "ram">>} BY ConsoleAssumption
  <1> DEFINE start == [i \in 0 .. DBG_DEV_MAX - 1 |-> IF i < DBG_DEV_MAX - 1 THEN Default ELSE Zero]
             first == IF \E i \in DOMAIN build : build[i] = "uart"
                      THEN Registered(start, dbg_dev_uart) ELSE start
  <1>0. /\ dbg_device_init = IF \E i \in DOMAIN build : build[i] = "ram"
                             THEN Registered(first, dbg_dev_ram) ELSE first
        /\ dbg_dev_uart.dev_id = Id("uart") /\ dbg_dev_ram.dev_id = Id("ram")
    <2>1. dbg_device_init = IF \E i \in DOMAIN build : build[i] = "ram"
                            THEN Registered(first, dbg_dev_ram) ELSE first
      BY Zenon DEF dbg_device_init
    <2>2. dbg_dev_uart.dev_id = Id("uart") BY DEF dbg_dev_uart
    <2>3. dbg_dev_ram.dev_id = Id("ram") BY DEF dbg_dev_ram, Zero
    <2> QED BY <2>1, <2>2, <2>3
  <1>2. CASE build = <<"uart">>
    <2>1. DBG_DEV_MAX = 1 /\ DOMAIN build = {1} /\ build[1] = "uart" BY <1>2 DEF DBG_DEV_MAX
    <2>2. Id("uart") = 0 BY <2>1 DEF Id
    <2>3. DOMAIN start = {0} BY <2>1
    <2>4. dbg_device_init = Registered(start, dbg_dev_uart)
      <3> HIDE DEF start
      <3> QED BY <1>0, <2>1
    <2> HIDE DEF start
    <2>5. Registered(start, dbg_dev_uart) = [start EXCEPT ![0] = dbg_dev_uart]
      <3>1. 0 < DBG_DEV_MAX BY <2>1
      <3> QED BY <3>1, <1>0, <2>2, RegisteredAt, Zenon
    <2>6. DOMAIN dbg_device_init = {0} /\ dbg_device_init[0] = dbg_dev_uart BY <2>3, <2>4, <2>5
    <2> QED BY <2>1, <2>6
  <1>3. CASE build = <<"ram">>
    <2>1. DBG_DEV_MAX = 1 /\ DOMAIN build = {1} /\ build[1] = "ram" BY <1>3 DEF DBG_DEV_MAX
    <2>2. Id("ram") = 0 BY <2>1 DEF Id
    <2>3. DOMAIN start = {0} BY <2>1
    <2>4. dbg_device_init = Registered(start, dbg_dev_ram)
      <3> HIDE DEF start
      <3> QED BY <1>0, <2>1
    <2> HIDE DEF start
    <2>5. Registered(start, dbg_dev_ram) = [start EXCEPT ![0] = dbg_dev_ram]
      <3>1. 0 < DBG_DEV_MAX BY <2>1
      <3> QED BY <3>1, <1>0, <2>2, RegisteredAt, Zenon
    <2>6. DOMAIN dbg_device_init = {0} /\ dbg_device_init[0] = dbg_dev_ram BY <2>3, <2>4, <2>5
    <2> QED BY <2>1, <2>6
  <1>4. CASE build = <<"uart", "ram">>
    <2>1. /\ DBG_DEV_MAX = 2 /\ DOMAIN build = {1, 2}
          /\ build[1] = "uart" /\ build[2] = "ram"
      BY <1>4 DEF DBG_DEV_MAX
    <2>2. Id("uart") = 0 /\ Id("ram") = 1 BY <2>1 DEF Id
    <2>3. DOMAIN start = {0, 1} BY <2>1
    <2>4. dbg_device_init = Registered(Registered(start, dbg_dev_uart), dbg_dev_ram)
      <3> HIDE DEF start
      <3> QED BY <1>0, <2>1
    <2> HIDE DEF start
    <2>5. Registered(start, dbg_dev_uart) = [start EXCEPT ![0] = dbg_dev_uart]
      <3>1. 0 < DBG_DEV_MAX BY <2>1
      <3> QED BY <3>1, <1>0, <2>2, RegisteredAt, Zenon
    <2> DEFINE one == Registered(start, dbg_dev_uart)
    <2>6. DOMAIN one = {0, 1} /\ one[0] = dbg_dev_uart BY <2>3, <2>5
    <2>7. Registered(one, dbg_dev_ram) = [one EXCEPT ![1] = dbg_dev_ram]
      <3>1. 1 < DBG_DEV_MAX BY <2>1
      <3> HIDE DEF one
      <3> QED BY <3>1, <1>0, <2>2, RegisteredAt, Zenon
    <2>8. dbg_device_init = [one EXCEPT ![1] = dbg_dev_ram] BY <2>4, <2>7
    <2> HIDE DEF one
    <2>9. /\ DOMAIN dbg_device_init = {0, 1}
          /\ dbg_device_init[0] = dbg_dev_uart /\ dbg_device_init[1] = dbg_dev_ram
      BY <2>6, <2>8
    <2> QED BY <2>1, <2>9
  <1> QED BY <1>1, <1>2, <1>3, <1>4

LEMMA ConInit == conInit => ConInv
  <1> SUFFICES ASSUME conInit PROVE ConInv OBVIOUS
  <1>1. build \in Builds /\ dbg_dev = dbg_device_init /\ cur_dev = 0 BY DEF conInit
  <1>2. Registration BY <1>1, DevicesOfBuild DEF Registration
  <1>3. DOMAIN handed = Pointers /\ \A f \in Pointers : handed[f] = <<>> BY DEF conInit
  <1>4. /\ handed["ram"] = <<>> /\ handed["default"] = <<>> /\ handed[Null] = <<>>
    BY <1>3 DEF Pointers
  <1>5. Ring(dbg_buf, <<>>)
    <2>1. BufSize \in Nat /\ BufSize > 0 BY ConsoleAssumption
    <2>2. dbg_buf.idx = 0 /\ DOMAIN dbg_buf.data = 0 .. BufSize - 1 BY DEF conInit
    <2>3. Len(<<>>) = 0 /\ Smaller(Len(<<>>), BufSize) = 0 BY <2>1 DEF Smaller
    <2> QED BY <2>1, <2>2, <2>3 DEF Ring
  <1>6. ~wild BY DEF conInit
  <1>7. <<>> \in Seq(Chars) OBVIOUS
  <1> QED BY <1>1, <1>2, <1>3, <1>4, <1>5, <1>6, <1>7 DEF ConInv

LEMMA DeviceFields ==
  /\ dbg_dev_uart.putchar = "uart" /\ dbg_dev_uart.getchar = "uart"
  /\ dbg_dev_ram.putchar = "ram" /\ dbg_dev_ram.dev_id = Id("ram")
  <1>1. dbg_dev_uart.putchar = "uart" /\ dbg_dev_uart.getchar = "uart" BY DEF dbg_dev_uart
  <1>2. dbg_dev_ram.putchar = "ram" BY DEF dbg_dev_ram, Zero
  <1>3. dbg_dev_ram.dev_id = Id("ram") BY DEF dbg_dev_ram, Zero
  <1> QED BY <1>1, <1>2, <1>3

LEMMA PutcharStep ==
  ASSUME ConInv, ~wild, NEW chr \in Chars, dbg_putchar(chr)
  PROVE  ConInv'
  <1> DEFINE f == dbg_dev[cur_dev].putchar
  <1>1. /\ handed' = [handed EXCEPT ![f] = Append(@, chr)]
        /\ dbg_buf' = IF f = "ram" THEN dbg_ram_putchar(dbg_buf, chr) ELSE dbg_buf
        /\ wild' = (wild \/ f = Null)
        /\ UNCHANGED <<dbg_dev, cur_dev, build, flushed>>
    BY DEF dbg_putchar
  <1>2. dbg_dev[cur_dev] \in {dbg_dev_uart, dbg_dev_ram} BY DEF ConInv, Registration
  <1>3. f \in {"uart", "ram"} BY <1>2, DeviceFields
  <1> HIDE DEF f
  <1>4. Registration' BY <1>1 DEF ConInv, Registration, DBG_DEV_MAX, dbg_dev_uart, dbg_dev_ram, Id
  <1>5. /\ DOMAIN handed' = Pointers
        /\ handed'["default"] = <<>> /\ handed'[Null] = <<>>
        /\ handed'["ram"] = IF f = "ram" THEN Append(handed["ram"], chr) ELSE handed["ram"]
    BY <1>1, <1>3 DEF ConInv, Null, Pointers
  <1>6. handed'["ram"] \in Seq(Chars) BY <1>5 DEF ConInv
  <1>7. Ring(dbg_buf', handed'["ram"])
    <2>1. CASE f = "ram" BY <2>1, <1>1, <1>5, RingStep DEF ConInv
    <2>2. CASE f # "ram" BY <2>2, <1>1, <1>5 DEF ConInv
    <2> QED BY <2>1, <2>2
  <1>8. ~wild' BY <1>1, <1>3 DEF Null
  <1>9. build' \in Builds BY <1>1 DEF ConInv
  <1>10. Ring(dbg_buf, handed["ram"])' BY <1>7 DEF Ring
  <1> QED BY <1>4, <1>5, <1>6, <1>8, <1>9, <1>10 DEF ConInv, Pointers, Null

LEMMA ConNext ==
  ASSUME ConInv, [conNext]_conVars
  PROVE  ConInv'
  <1>1. ASSUME ~wild, NEW chr \in Chars, dbg_putchar(chr) PROVE ConInv'
    BY <1>1, PutcharStep
  <1>2. ASSUME UNCHANGED <<dbg_dev, dbg_buf, build, handed>>, wild' => dbg_dev[cur_dev].dev_id = Id("ram"),
               cur_dev' \in 0 .. DBG_DEV_MAX - 1, wild' => cur_dev' = cur_dev
        PROVE  ConInv'
    BY <1>2 DEF ConInv, Registration, DBG_DEV_MAX, dbg_dev_uart, dbg_dev_ram, Id, Ring
  <1>3. dbg_dev[cur_dev] \in {dbg_dev_uart, dbg_dev_ram} /\ cur_dev \in 0 .. DBG_DEV_MAX - 1
    BY DEF ConInv, Registration
  <1>4. CASE ~wild /\ dbg_getchar
    <2>1. dbg_dev[cur_dev].getchar = Null => dbg_dev[cur_dev].dev_id = Id("ram")
      BY <1>3, DeviceFields DEF Null
    <2> QED BY <1>2, <1>3, <1>4, <2>1 DEF dbg_getchar
  <1>5. CASE ~wild /\ dbg_start_panic BY <1>2, <1>3, <1>5 DEF dbg_start_panic
  <1>6. CASE ~wild /\ dbg_register_device([Default EXCEPT !.dev_id = DBG_DEV_MAX])
    <2> DEFINE d == [Default EXCEPT !.dev_id = DBG_DEV_MAX]
    <2>1. d.dev_id = DBG_DEV_MAX BY DEF Default
    <2>2. DBG_DEV_MAX \in Nat BY DevicesOfBuild DEF ConInv
    <2>3. Registered(dbg_dev, d) = dbg_dev
      <3> HIDE DEF d
      <3> QED BY <2>1, <2>2 DEF Registered
    <2>4. dbg_dev' = dbg_dev /\ UNCHANGED <<cur_dev, dbg_buf, build, flushed, wild, handed>>
      BY <1>6, <2>3 DEF dbg_register_device
    <2> QED BY <1>2, <1>3, <1>6, <2>4
  <1>7. ASSUME ~wild, NEW i \in 0 .. DBG_DEV_MAX, dbg_change_device(i) PROVE ConInv'
    <2>1. DBG_DEV_MAX \in Nat BY DevicesOfBuild DEF ConInv
    <2>2. cur_dev' \in 0 .. DBG_DEV_MAX - 1 BY <1>7, <1>3, <2>1 DEF dbg_change_device
    <2>3. UNCHANGED <<dbg_dev, dbg_buf, build, flushed, wild, handed>> BY <1>7 DEF dbg_change_device
    <2> QED BY <1>2, <1>7, <2>2, <2>3
  <1>8. CASE UNCHANGED conVars BY <1>2, <1>3, <1>8 DEF conVars, ConInv
  <1> QED BY <1>1, <1>4, <1>5, <1>6, <1>7, <1>8 DEF conNext

\* In a build with any of the devices, of any buffer size, the console in
\* memory has what dbg_ram_putchar() was given last, and dbg_putchar() calls no
\* null pointer, although dbg_device_init()'s loop leaves the last entry out.
THEOREM LastPrintedKept == conSpec => []MemoryKeepsLast
  <1>1. ConInv => MemoryKeepsLast BY DEF ConInv, MemoryKeepsLast, Ring
  <1>2. ConInv /\ [conNext]_conVars => ConInv' BY ConNext
  <1> QED BY ConInit, <1>1, <1>2, PTL DEF conSpec
=============================================================================
