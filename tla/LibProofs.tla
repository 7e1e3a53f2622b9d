----------------------------- MODULE LibProofs -----------------------------
(***************************************************************************)
(* Proofs about the debug console's queues and the kernel's copies.  The   *)
(* receive queue of the debug console implements Fifo for every size of    *)
(* its buffer, although its two ends run in different contexts and the     *)
(* kernel thread's end is cut into three steps, and the send queue strands *)
(* at most one byte.  Then memcpy() and memset(), for every alignment and  *)
(* every length: the invariant says what a copy has done when its pointers *)
(* have passed the first m bytes, and what each of its loops relies on.    *)
(***************************************************************************)
EXTENDS DbgUart, MemLib, TLAPS

(* The queues of the debug console                                         *)

Places == Size - 1

\* What RxIsFifo rests on: only the step between advance and wrap sees `top` behind
\* the last place, and a byte that waits in the receiver will find room.
RxInv ==
  /\ rx.data \in [Index -> Bytes] /\ rx = [data |-> rx.data, top |-> rx.top, end |-> rx.end]
  /\ rx.end \in 0..(Places - 1) /\ rx.top \in 0..Places
  /\ rx.top = Places => pc = "pop wrap"
  /\ pc = "pop wrap" => rx.top > 0
  /\ pc \in Steps /\ arrived \in 0..MaxRx /\ rdr \in Bytes \cup {None}
  /\ Waiting(rx) <= RxPending
  /\ rdr # None => Waiting(rx) < RxPending

\* An index advanced by less than the number of places wraps at most once.
LEMMA ModTurn ==
  ASSUME NEW a \in 0..(2 * Places - 1)
  PROVE  a % Places = IF a < Places THEN a ELSE a - Places
  <1>1. Places \in Nat \ {0} BY DbgUartAssumption DEF Places
  <1> HIDE DEF Places
  <1>2. CASE a < Places BY <1>1, <1>2
  <1>3. CASE a >= Places BY <1>1, <1>3
  <1> QED BY <1>1, <1>2, <1>3

\* The number of bytes in the queue.
LEMMA WaitingIs ==
  ASSUME NEW q, q.end \in 0..(Places - 1), q.top \in 0..Places
  PROVE  Waiting(q) = IF q.end >= q.top THEN q.end - q.top ELSE q.end - q.top + Places
  <1>1. Places \in Nat \ {0} BY DbgUartAssumption DEF Places
  <1>2. Waiting(q) = (q.end - q.top) % Places BY DEF Waiting, Places
  <1> HIDE DEF Places
  <1>3. CASE q.end >= q.top
    <2>1. q.end - q.top \in 0..(Places - 1) BY <1>1, <1>3
    <2>2. \A a \in 0..(Places - 1) : a % Places = a BY <1>1
    <2> QED BY <1>2, <1>3, <2>1, <2>2
  <1>4. CASE q.end < q.top
    <2>1. q.end - q.top \in (-Places)..(-1) BY <1>1, <1>4
    <2>2. \A a \in (-Places)..(-1) : a % Places = a + Places BY <1>1
    <2> QED BY <1>1, <1>2, <1>4, <2>1, <2>2
  <1> QED BY <1>1, <1>3, <1>4

\* A sequence with one more element at its end.
LEMMA Appended ==
  ASSUME NEW S, NEW n \in Nat, NEW s \in [1..n -> S], NEW t \in [1..(n + 1) -> S], NEW x \in S,
         \A i \in 1..n : t[i] = s[i], t[n + 1] = x
  PROVE  t = Append(s, x)
  <1>1. s \in Seq(S) /\ t \in Seq(S) /\ Len(s) = n /\ Len(t) = n + 1 OBVIOUS
  <1>2. Append(s, x) \in Seq(S) /\ Len(Append(s, x)) = n + 1 BY <1>1
  <1>3. \A i \in 1..(n + 1) : t[i] = Append(s, x)[i] BY <1>1
  <1> QED BY <1>1, <1>2, <1>3

\* A sequence without its first element.
LEMMA Shortened ==
  ASSUME NEW S, NEW n \in Nat, NEW s \in [1..(n + 1) -> S], NEW t \in [1..n -> S],
         \A i \in 1..n : t[i] = s[i + 1]
  PROVE  s # <<>> /\ Head(s) = s[1] /\ t = Tail(s)
  <1>1. s \in Seq(S) /\ t \in Seq(S) /\ Len(s) = n + 1 /\ Len(t) = n OBVIOUS
  <1>2. s # <<>> /\ Head(s) = s[1] BY <1>1
  <1>3. Tail(s) \in Seq(S) /\ Len(Tail(s)) = n BY <1>1, <1>2
  <1>4. \A i \in 1..n : t[i] = Tail(s)[i] BY <1>1, <1>2
  <1> QED BY <1>1, <1>2, <1>3, <1>4

-----------------------------------------------------------------------------
(* The steps *)

Begun == IF pc \in {"pop wrap", "pop load"} THEN 1 ELSE 0

\* What a queue holds, with b bytes that queue_pop() has begun to take.
Content(q, b) == [i \in 1..(Waiting(q) + b) |-> q.data[(q.top + i - b) % Places]]

InBounds(q, b) ==
  /\ b \in {0, 1} /\ q.data \in [Index -> Bytes]
  /\ q.end \in 0..(Places - 1) /\ q.top \in 0..Places
  /\ q.top = Places => b = 1

\* The places that the content is read from are in the buffer.
LEMMA ContentType ==
  ASSUME NEW q, NEW b, InBounds(q, b)
  PROVE  /\ Places \in Nat /\ Places > 1 /\ Size = Places + 1
         /\ Waiting(q) \in 0..(Places - 1)
         /\ Waiting(q) = IF q.end >= q.top THEN q.end - q.top ELSE q.end - q.top + Places
         /\ Content(q, b) \in [1..(Waiting(q) + b) -> Bytes]
         /\ \A i \in 1..(Waiting(q) + b) :
              /\ q.top + i - b \in 0..(2 * Places - 1)
              /\ (q.top + i - b) % Places \in Index
  <1>1. Places \in Nat /\ Places > 1 /\ Size = Places + 1 BY DbgUartAssumption DEF Places
  <1> HIDE DEF Places
  <1>2. Waiting(q) = IF q.end >= q.top THEN q.end - q.top ELSE q.end - q.top + Places
    BY WaitingIs DEF InBounds
  <1>3. Waiting(q) \in 0..(Places - 1) BY <1>1, <1>2 DEF InBounds
  <1>4. ASSUME NEW i \in 1..(Waiting(q) + b)
        PROVE  /\ q.top + i - b \in 0..(2 * Places - 1)
               /\ (q.top + i - b) % Places \in Index
    <2>1. q.top + i - b \in 0..(2 * Places - 1) BY <1>1, <1>2, <1>3 DEF InBounds
    <2>2. (q.top + i - b) % Places \in 0..(Places - 1) BY <1>1, <2>1, ModTurn
    <2> QED BY <1>1, <2>1, <2>2 DEF Index
  <1>5. Content(q, b) \in [1..(Waiting(q) + b) -> Bytes] BY <1>4 DEF InBounds, Content
  <1> QED BY <1>1, <1>2, <1>3, <1>4, <1>5

LEMMA ContentIs == /\ RxContent = Content(rx, Begun) /\ RxContent' = Content(rx', Begun')
                   /\ Begun \in {0, 1} /\ Begun' \in {0, 1}
  BY DEF RxContent, Content, Begun, Places, Waiting

LEMMA RxBounds == (RxInv => InBounds(rx, Begun)) /\ (RxInv' => InBounds(rx', Begun'))
  BY DEF RxInv, InBounds, Begun

\* Steps that do not touch the receive queue.
LEMMA Elsewhere ==
  ASSUME RxInv, UNCHANGED <<rx, rdr, arrived, got>>, pc' \in Steps,
         pc' = pc \/ {pc, pc'} \cap {"pop wrap", "pop load"} = {}
  PROVE  RxInv' /\ UNCHANGED <<RxContent, got>>
  <1>1. pc' \in {"pop wrap", "pop load"} <=> pc \in {"pop wrap", "pop load"} OBVIOUS
  <1>2. RxContent' = RxContent BY <1>1 DEF RxContent, Waiting
  <1>3. RxInv' BY <1>1 DEF RxInv, Waiting
  <1> QED BY <1>2, <1>3

LEMMA ReceiveStep ==
  ASSUME RxInv, Receive
  PROVE  RxInv' /\ UNCHANGED <<RxContent, got>>
  <1>1. arrived + 1 \in 0..MaxRx /\ arrived + 1 \in Bytes
    <2>1. arrived \in 0..MaxRx /\ arrived < MaxRx BY DEF Receive, RxInv
    <2>2. arrived + 1 \in 0..MaxRx BY DbgUartAssumption, <2>1
    <2>3. 0..MaxRx \subseteq Bytes BY DbgUartAssumption DEF Bytes
    <2> QED BY <2>2, <2>3
  <1>2. RxInv' BY <1>1 DEF RxInv, Receive, Waiting
  <1> QED BY <1>2 DEF Receive, RxContent, Waiting

\* dbg_uart_recv(): the byte goes behind the others, into a place that none of them
\* has, also when queue_pop() is under way.
LEMMA RecvStep ==
  ASSUME RxInv, rdr # None, DbgUartRecv, UNCHANGED pc
  PROVE  RxInv' /\ RxQueue!Push
  <1> DEFINE w == Waiting(rx)
             e == Wrap(Advance(rx.end))
             b == Begun
  <1>1. RxPending \in Nat /\ RxPending < Places BY DbgUartAssumption DEF Places
  <1>2. /\ rx.end \in 0..(Places - 1) /\ rx.top \in 0..Places /\ rx.data \in [Index -> Bytes]
        /\ rx = [data |-> rx.data, top |-> rx.top, end |-> rx.end]
        /\ rdr \in Bytes /\ w < RxPending
    BY DEF RxInv
  <1>3. InBounds(rx, b) BY RxBounds
  <1>4. /\ Places \in Nat /\ Places > 1 /\ Size = Places + 1
        /\ w \in 0..(Places - 1)
        /\ w = IF rx.end >= rx.top THEN rx.end - rx.top ELSE rx.end - rx.top + Places
    BY <1>3, ContentType
  <1> HIDE DEF w, Places
  <1>5. e = IF rx.end = Places - 1 THEN 0 ELSE rx.end + 1
    BY <1>2, <1>4 DEF Wrap, Advance, Beyond
  <1>6. QueueLength(rx) # Size BY <1>2, <1>4 DEF QueueLength
  <1>7. /\ rx' = [data |-> [rx.data EXCEPT ![e] = rdr], top |-> rx.top, end |-> e]
        /\ rdr' = None /\ UNCHANGED <<pc, arrived, got>>
    <2>1. rx' = [rx EXCEPT !.end = e, !.data[e] = rdr] BY <1>6 DEF DbgUartRecv, QueuePush
    <2>2. rx' = [data |-> [rx.data EXCEPT ![e] = rdr], top |-> rx.top, end |-> e]
      BY <1>2, <2>1
    <2> QED BY <2>2 DEF DbgUartRecv
  <1> HIDE DEF e
  <1>8. rx'.data = [rx.data EXCEPT ![e] = rdr] /\ rx'.top = rx.top /\ rx'.end = e BY <1>7
  <1>9. e \in 0..(Places - 1) /\ e \in Index BY <1>2, <1>4, <1>5 DEF Index
  <1>10. Waiting(rx') = w + 1
    <2>1. Waiting(rx') = IF e >= rx.top THEN e - rx.top ELSE e - rx.top + Places
      BY <1>2, <1>8, <1>9, WaitingIs
    <2> QED BY <1>1, <1>2, <1>4, <1>5, <2>1
  <1>11. RxInv'
    <2>1. rx'.data \in [Index -> Bytes] BY <1>2, <1>8, <1>9
    <2>2. Waiting(rx)' <= RxPending BY <1>1, <1>2, <1>4, <1>10 DEF Waiting
    <2> QED BY <1>2, <1>7, <1>8, <1>9, <2>1, <2>2 DEF RxInv
  <1>12. RxContent' = Append(RxContent, rdr)
    <2> DEFINE n == w + b
               s == Content(rx, b)
               t == Content(rx', b)
    <2>1. b \in {0, 1} /\ Begun' = b /\ (rx.top = Places => b = 1)
      BY <1>3, <1>7 DEF Begun, InBounds
    <2>2. RxContent = s /\ RxContent' = t BY <2>1, ContentIs
    <2>3. InBounds(rx', b) BY <1>11, <2>1, RxBounds
    <2>4. n \in Nat BY <1>4, <2>1
    <2>5. s \in [1..n -> Bytes] BY <1>3, ContentType DEF w
    <2>6. t \in [1..(n + 1) -> Bytes]
      <3>1. t \in [1..(Waiting(rx') + b) -> Bytes] BY <2>3, ContentType
      <3>2. Waiting(rx') + b = n + 1 BY <1>4, <1>10, <2>1
      <3> QED BY <3>1, <3>2
    <2> HIDE DEF b
    <2>7. \A i \in 1..(n + 1) : t[i] = [rx.data EXCEPT ![e] = rdr][(rx.top + i - b) % Places]
      BY <1>4, <1>8, <1>10, <2>1 DEF Content
    <2>8. \A i \in 1..n : s[i] = rx.data[(rx.top + i - b) % Places] BY DEF Content, w
    <2>9. \A i \in 1..n : t[i] = s[i]
      <3> SUFFICES ASSUME NEW i \in 1..n PROVE t[i] = s[i] OBVIOUS
      <3>1. rx.top + i - b \in 0..(2 * Places - 1) /\ (rx.top + i - b) % Places \in Index
        BY <1>3, ContentType DEF w
      <3> DEFINE k == rx.top + i - b
      <3>2. k % Places # e
        <4>1. k % Places = IF k < Places THEN k ELSE k - Places BY <3>1, ModTurn
        <4>2. k \in rx.top..(rx.top + w) BY <1>2, <1>4, <2>1
        <4> HIDE DEF k
        <4>3. k < Places => k # e BY <1>1, <1>2, <1>4, <1>5, <4>2
        <4>4. k >= Places => k - Places # e BY <1>1, <1>2, <1>4, <1>5, <4>2
        <4> QED BY <1>2, <1>4, <4>1, <4>2, <4>3, <4>4
      <3> QED BY <1>2, <1>4, <2>1, <2>7, <2>8, <3>1, <3>2
    <2>10. t[n + 1] = rdr
      <3> DEFINE k == rx.top + w + 1
      <3>1. rx.top + (n + 1) - b = k /\ k \in 0..(2 * Places - 1) BY <1>1, <1>2, <1>4, <2>1
      <3>2. k % Places = e
        <4>1. k % Places = IF k < Places THEN k ELSE k - Places BY <3>1, ModTurn
        <4>2. (IF k < Places THEN k ELSE k - Places) = e BY <1>1, <1>2, <1>4, <1>5
        <4> QED BY <4>1, <4>2
      <3> QED BY <1>2, <1>9, <2>4, <2>7, <3>1, <3>2
    <2> HIDE DEF n, s, t
    <2> QED BY <1>2, <2>2, <2>4, <2>5, <2>6, <2>9, <2>10, Appended
  <1> QED BY <1>2, <1>7, <1>11, <1>12 DEF RxQueue!Push

\* dbg_uart_getchar() advances `top`: the byte counts as begun, and the content is
\* the same.
LEMMA GetcharStep ==
  ASSUME RxInv, GetcharAdvance
  PROVE  RxInv' /\ UNCHANGED <<RxContent, got>>
  <1>1. CASE QueueLength(rx) = 0
    <2>1. UNCHANGED <<rx, rdr, arrived, got, pc>> BY <1>1 DEF GetcharAdvance
    <2>2. pc' \in Steps BY <2>1 DEF RxInv
    <2> QED BY <2>1, <2>2, Elsewhere
  <1>2. CASE QueueLength(rx) # 0
    <2> DEFINE w == Waiting(rx)
    <2>1. /\ rx.end \in 0..(Places - 1) /\ rx.top \in 0..(Places - 1)
          /\ rx.data \in [Index -> Bytes]
          /\ rx = [data |-> rx.data, top |-> rx.top, end |-> rx.end]
          /\ rdr \in Bytes \cup {None} /\ w <= RxPending /\ (rdr # None => w < RxPending)
          /\ RxPending \in Nat /\ Begun = 0
      <3>1. pc = "idle" BY DEF GetcharAdvance
      <3>2. rx.top \in 0..Places /\ rx.top # Places BY <3>1 DEF RxInv
      <3>3. rx.top \in 0..(Places - 1) BY <3>2, DbgUartAssumption DEF Places
      <3>4. Begun = 0 BY <3>1 DEF Begun
      <3> QED BY <3>3, <3>4, DbgUartAssumption DEF RxInv
    <2>2. InBounds(rx, 0) BY <2>1, RxBounds
    <2>3. /\ Places \in Nat /\ Places > 1 /\ Size = Places + 1
          /\ w \in 0..(Places - 1)
          /\ w = IF rx.end >= rx.top THEN rx.end - rx.top ELSE rx.end - rx.top + Places
      BY <2>2, ContentType
    <2> HIDE DEF w, Places
    <2>4. rx.end # rx.top BY <1>2, <2>1 DEF QueueLength
    <2>5. Advance(rx.top) = rx.top + 1 BY <2>1, <2>3 DEF Advance, Beyond
    <2>6. /\ rx' = [data |-> rx.data, top |-> rx.top + 1, end |-> rx.end]
          /\ pc' = "pop wrap" /\ UNCHANGED <<rdr, arrived, got>>
      BY <1>2, <2>1, <2>5 DEF GetcharAdvance
    <2>7. rx'.data = rx.data /\ rx'.top = rx.top + 1 /\ rx'.end = rx.end BY <2>6
    <2>8. Waiting(rx') = w - 1
      <3>1. Waiting(rx') = IF rx.end >= rx.top + 1 THEN rx.end - (rx.top + 1)
                           ELSE rx.end - (rx.top + 1) + Places
        BY <2>1, <2>3, <2>7, WaitingIs
      <3> QED BY <2>1, <2>3, <2>4, <3>1
    <2>9. RxInv'
      <3>1. Waiting(rx)' <= RxPending /\ (rdr # None => Waiting(rx)' < RxPending)
        BY <2>1, <2>3, <2>8 DEF Waiting
      <3>2. rx'.top \in 0..Places /\ rx'.top > 0 /\ rx'.end \in 0..(Places - 1)
        BY <2>1, <2>3, <2>7
      <3> QED BY <2>1, <2>6, <2>7, <3>1, <3>2 DEF RxInv, Steps
    <2>10. RxContent' = RxContent
      <3>1. RxContent = Content(rx, 0) /\ RxContent' = Content(rx', 1)
        BY <2>1, <2>6, ContentIs DEF Begun
      <3>2. Waiting(rx') + 1 = w + 0 BY <2>3, <2>8
      <3>3. \A i \in 1..(w + 0) : rx'.top + i - 1 = rx.top + i - 0 BY <2>1, <2>3, <2>7
      <3> QED BY <2>7, <3>1, <3>2, <3>3 DEF Content, w
    <2> QED BY <2>6, <2>9, <2>10
  <1> QED BY <1>1, <1>2

\* The wrap changes neither the number of bytes nor their places.
LEMMA PopWrapStep ==
  ASSUME RxInv, PopWrap
  PROVE  RxInv' /\ UNCHANGED <<RxContent, got>>
  <1> DEFINE w == Waiting(rx)
  <1>1. /\ rx.end \in 0..(Places - 1) /\ rx.top \in 0..Places /\ rx.data \in [Index -> Bytes]
        /\ rx = [data |-> rx.data, top |-> rx.top, end |-> rx.end] /\ Begun = 1
    BY DEF RxInv, PopWrap, Begun
  <1>2. InBounds(rx, 1) BY <1>1, RxBounds
  <1>3. /\ Places \in Nat /\ Places > 1 /\ Size = Places + 1
        /\ w \in 0..(Places - 1)
        /\ w = IF rx.end >= rx.top THEN rx.end - rx.top ELSE rx.end - rx.top + Places
    BY <1>2, ContentType
  <1> HIDE DEF w, Places
  <1>4. /\ rx' = [data |-> rx.data, top |-> Wrap(rx.top), end |-> rx.end]
        /\ pc' = "pop load" /\ UNCHANGED <<rdr, arrived, got>>
    BY <1>1 DEF PopWrap
  <1>5. /\ rx'.data = rx.data /\ rx'.end = rx.end
        /\ rx'.top = (IF rx.top = Places THEN 0 ELSE rx.top) /\ rx'.top \in 0..(Places - 1)
    <2>1. rx'.data = rx.data /\ rx'.end = rx.end /\ rx'.top = Wrap(rx.top) BY <1>4
    <2>2. Wrap(rx.top) = IF rx.top = Places THEN 0 ELSE rx.top BY <1>3 DEF Wrap
    <2> QED BY <1>1, <1>3, <2>1, <2>2
  <1>6. Waiting(rx') = w
    <2>1. Waiting(rx') = IF rx'.end >= rx'.top THEN rx'.end - rx'.top
                         ELSE rx'.end - rx'.top + Places
      BY <1>1, <1>3, <1>5, WaitingIs
    <2> QED BY <1>1, <1>3, <1>5, <2>1
  <1>7. RxInv'
    <2>1. Waiting(rx)' = Waiting(rx) BY <1>6 DEF Waiting, w
    <2>2. rx'.top \in 0..Places /\ rx'.top # Places BY <1>1, <1>3, <1>5
    <2> QED BY <1>1, <1>4, <1>5, <2>1, <2>2 DEF RxInv, Steps
  <1>8. RxContent' = RxContent
    <2>1. RxContent = Content(rx, 1) /\ RxContent' = Content(rx', 1)
      BY <1>1, <1>4, ContentIs DEF Begun
    <2>2. \A i \in 1..(w + 1) : (rx'.top + i - 1) % Places = (rx.top + i - 1) % Places
      <3> SUFFICES ASSUME NEW i \in 1..(w + 1), rx.top = Places
                   PROVE  (0 + i - 1) % Places = (Places + i - 1) % Places
        BY <1>5
      <3>1. 0 + i - 1 \in 0..(Places - 1) /\ Places + i - 1 \in Places..(2 * Places - 1)
        BY <1>1, <1>3
      <3> DEFINE near == 0 + i - 1
                 far == Places + i - 1
      <3>2. /\ near \in 0..(2 * Places - 1) /\ near < Places
            /\ far \in 0..(2 * Places - 1) /\ ~(far < Places) BY <1>3, <3>1
      <3> HIDE DEF near, far
      <3>3. near % Places = near /\ far % Places = far - Places BY <3>2, ModTurn
      <3> USE DEF near, far
      <3> QED BY <1>3, <3>3
    <2> QED BY <1>5, <1>6, <2>1, <2>2 DEF Content, w
  <1> QED BY <1>4, <1>7, <1>8

\* The byte is loaded: the first of the content leaves it.
LEMMA PopLoadStep ==
  ASSUME RxInv, PopLoad
  PROVE  RxInv' /\ RxQueue!Pop
  <1> DEFINE w == Waiting(rx)
             s == Content(rx, 1)
             t == Content(rx, 0)
  <1>1. /\ pc = "pop load" /\ pc' = "idle" /\ UNCHANGED <<rx, rdr, arrived>>
        /\ got' = Append(got, DataAt(rx, rx.top))
    BY DEF PopLoad
  <1>2. Begun = 1 /\ Begun' = 0 BY <1>1 DEF Begun
  <1>3. RxInv' BY <1>1 DEF RxInv, Waiting, Steps
  <1>4. InBounds(rx, 1) /\ InBounds(rx, 0) BY <1>1, <1>2, <1>3, RxBounds
  <1>5. RxContent = s /\ RxContent' = t BY <1>1, <1>2, ContentIs
  <1>6. /\ Places \in Nat /\ Places > 1 /\ Size = Places + 1 /\ w \in 0..(Places - 1)
        /\ s \in [1..(w + 1) -> Bytes] /\ t \in [1..(w + 0) -> Bytes]
    BY <1>4, ContentType
  <1>7. rx.top \in 0..(Places - 1) /\ DataAt(rx, rx.top) = rx.data[rx.top]
    <2>1. rx.top \in 0..Places /\ rx.top # Places BY <1>4 DEF InBounds
    <2>2. rx.top \in 0..(Places - 1) BY <1>6, <2>1
    <2> QED BY <1>6, <2>2 DEF DataAt, Index
  <1> HIDE DEF Places
  <1>8. \A i \in 1..(w + 0) : t[i] = s[i + 1]
    <2> SUFFICES ASSUME NEW i \in 1..(w + 0) PROVE t[i] = s[i + 1] OBVIOUS
    <2>1. i + 1 \in 1..(w + 1) /\ rx.top + (i + 1) - 1 = rx.top + i - 0 BY <1>6, <1>7
    <2> QED BY <2>1 DEF Content
  <1>9. s[1] = rx.data[rx.top]
    <2>1. 1 \in 1..(w + 1) /\ rx.top + 1 - 1 = rx.top BY <1>6, <1>7
    <2>2. rx.top % Places = rx.top
      <3>1. rx.top \in 0..(2 * Places - 1) /\ rx.top < Places BY <1>6, <1>7
      <3> QED BY <3>1, ModTurn
    <2> QED BY <2>1, <2>2 DEF Content
  <1>10. w \in Nat /\ w + 0 = w BY <1>6
  <1> HIDE DEF w, s, t
  <1>11. s # <<>> /\ Head(s) = s[1] /\ t = Tail(s) BY <1>6, <1>8, <1>10, Shortened
  <1> QED BY <1>1, <1>3, <1>5, <1>7, <1>9, <1>11 DEF RxQueue!Pop

-----------------------------------------------------------------------------
LEMMA RxStep ==
  ASSUME RxInv, [Next]_vars
  PROVE  RxInv' /\ [RxQueue!Push \/ RxQueue!Pop]_<<RxContent, got>>
  <1> USE DEF txVars, rxVars
  <1>1. CASE Receive BY <1>1, ReceiveStep
  <1>2. CASE GetcharAdvance BY <1>2, GetcharStep
  <1>3. CASE PopWrap BY <1>3, PopWrapStep
  <1>4. CASE PopLoad BY <1>4, PopLoadStep
  <1>5. CASE UartIrqHandler
    <2>1. CASE txe
      <3>1. UNCHANGED <<rx, rdr, arrived, got, pc>> BY <1>5, <2>1 DEF UartIrqHandler, DbgUartSend
      <3>2. pc' \in Steps BY <3>1 DEF RxInv
      <3> QED BY <3>1, <3>2, Elsewhere
    <2>2. CASE ~txe
      <3>1. rdr # None /\ DbgUartRecv /\ UNCHANGED pc BY <1>5, <2>2 DEF UartIrqHandler
      <3> QED BY <3>1, RecvStep
    <2> QED BY <2>1, <2>2
  <1>6. CASE \/ AsyncPutchar \/ PutcharMark \/ PutcharEnable
             \/ PushAdvance \/ PushWrap \/ PushStore
             \/ StartPanic \/ FlushAdvance \/ FlushWrap \/ FlushLoad \/ FlushWait
    <2>1. /\ UNCHANGED <<rx, rdr, arrived, got>> /\ pc' \in Steps
          /\ {pc, pc'} \cap {"pop wrap", "pop load"} = {}
      BY <1>6 DEF AsyncPutchar, PutcharMark, PutcharEnable, PushAdvance, PushWrap, PushStore,
                  StartPanic, FlushAdvance, FlushWrap, FlushLoad, FlushWait, Steps
    <2> QED BY <2>1, Elsewhere
  <1>7. CASE Transmit \/ UNCHANGED vars
    <2>1. UNCHANGED <<rx, rdr, arrived, got, pc>> BY <1>7 DEF Transmit, vars
    <2>2. pc' \in Steps BY <2>1 DEF RxInv
    <2> QED BY <2>1, <2>2, Elsewhere
  <1> QED BY <1>1, <1>2, <1>3, <1>4, <1>5, <1>6, <1>7 DEF Next, Thread

LEMMA RxStart == Init => RxInv /\ RxQueue!Init
  <1> SUFFICES ASSUME Init PROVE RxInv /\ RxQueue!Init OBVIOUS
  <1>1. Places \in Nat /\ Places > 1 /\ Size = Places + 1 BY DbgUartAssumption DEF Places
  <1>2. /\ rx = [data |-> [i \in Index |-> 0], top |-> 0, end |-> 0] /\ rdr = None
        /\ pc = "idle" /\ arrived = 0 /\ got = <<>>
    BY DEF Init, QueueInit
  <1>3. 0 \in Bytes BY DbgUartAssumption DEF Bytes
  <1>4. rx.data \in [Index -> Bytes] /\ rx.top = 0 /\ rx.end = 0 BY <1>2, <1>3
  <1>5. Waiting(rx) = 0 BY <1>1, <1>4, WaitingIs
  <1>6. RxInv BY <1>1, <1>2, <1>4, <1>5, DbgUartAssumption DEF RxInv, Steps
  <1>7. RxContent = <<>>
    <2>1. Waiting(rx) + Begun = 0 BY <1>2, <1>5 DEF Begun
    <2>2. RxContent \in [1..0 -> Bytes] BY <1>6, <2>1, RxBounds, ContentType, ContentIs
    <2> QED BY <2>2
  <1> QED BY <1>2, <1>6, <1>7 DEF RxQueue!Init

\* For every size of its buffer, the receive queue (queue_push() in the interrupt
\* handler, queue_pop() in the kernel thread) is the queue that lib/queue.h describes,
\* as long as fewer than Size - 1 bytes wait in it.
THEOREM ReceiveImplementsFifo == Spec => RxIsFifo
  <1>1. Init => RxInv /\ RxQueue!Init BY RxStart
  <1>2. RxInv /\ [Next]_vars => RxInv' /\ [RxQueue!Push \/ RxQueue!Pop]_<<RxContent, got>>
    BY RxStep
  <1> QED BY <1>1, <1>2, PTL DEF Spec, RxIsFifo, RxQueue!Spec

-----------------------------------------------------------------------------
(* What is left behind in the send queue                                   *)

\* Until the kernel panics: only a byte that was being pushed when the handler found
\* the queue empty is in the queue of a ready UART, and with the UART ready the handler
\* leaves the queue alone.
TxInv ==
  /\ tx = [data |-> tx.data, top |-> tx.top, end |-> tx.end]
  /\ tx.top \in 0..(Places - 1) /\ tx.end \in 0..Places
  /\ tx.end = Places => pc = "push wrap"
  /\ txe => ~ready
  /\ pc = "mark" => ready
  /\ pc = "enable" => ~ready /\ ~txe
  /\ ready => \/ tx.end = tx.top
              \/ pc = "push wrap" /\ tx.end = tx.top + 1
              \/ pc \notin {"push", "push wrap"} /\ tx.end = Wrap(tx.top + 1)

LEMMA TxStart == Init => TxInv
  BY DbgUartAssumption DEF Init, QueueInit, TxInv, Places

\* The places that the indices of a queue pass.
LEMMA Advanced ==
  ASSUME NEW i \in 0..(Places - 1)
  PROVE  /\ Advance(i) = i + 1 /\ Advance(i) \in 0..Places /\ Wrap(i) = i
         /\ i # Places /\ i \in 0..Places
  BY DbgUartAssumption DEF Places, Advance, Wrap, Beyond

LEMMA Wrapped ==
  ASSUME NEW i \in 0..Places
  PROVE  Wrap(i) \in 0..(Places - 1) /\ (i # Places => i \in 0..(Places - 1))
  BY DbgUartAssumption DEF Places, Wrap

LEMMA EmptyIs ==
  ASSUME NEW q, q.top \in 0..(Places - 1), q.end \in 0..Places, QueueLength(q) = 0
  PROVE  q.end = q.top
  BY DbgUartAssumption DEF Places, QueueLength

\* The handler takes a byte from the queue, or finds it empty.
LEMMA SendStep ==
  ASSUME TxInv, txe, DbgUartSend, UNCHANGED pc
  PROVE  TxInv'
  <1> HIDE DEF Places
  <1>1. pc \notin {"mark", "enable"} /\ tx.top \in 0..(Places - 1) /\ tx.end \in 0..Places
    BY DEF TxInv
  <1>2. CASE QueueLength(tx) # 0
    <2> DEFINE t == Wrap(Advance(tx.top))
    <2>1. tx' = [tx EXCEPT !.top = t] /\ ~ready' /\ txe' BY <1>2 DEF DbgUartSend, QueuePop
    <2>2. Advance(tx.top) \in 0..Places BY <1>1, Advanced
    <2>3. t \in 0..(Places - 1) BY <2>2, Wrapped
    <2> HIDE DEF t
    <2>4. tx' = [data |-> tx.data, top |-> t, end |-> tx.end] BY <2>1 DEF TxInv
    <2>5. tx'.data = tx.data /\ tx'.top = t /\ tx'.end = tx.end BY <2>4
    <2> QED BY <1>1, <2>1, <2>3, <2>4, <2>5 DEF TxInv
  <1>3. CASE QueueLength(tx) = 0
    <2>1. UNCHANGED tx /\ ready' /\ ~txe' BY <1>3 DEF DbgUartSend
    <2>2. tx.end = tx.top BY <1>1, <1>3, EmptyIs
    <2> QED BY <1>1, <2>1, <2>2 DEF TxInv
  <1> QED BY <1>2, <1>3

\* The byte is pushed, with the handler active or not.
LEMMA PushStep ==
  ASSUME TxInv, PushAdvance \/ PushWrap \/ PushStore
  PROVE  TxInv'
  <1> HIDE DEF Places
  <1>1. tx.top \in 0..(Places - 1) /\ tx.end \in 0..Places BY DEF TxInv
  <1>2. CASE PushAdvance
    <2>1. pc = "push" /\ pc' = "push wrap" /\ UNCHANGED <<ready, txe>> BY <1>2 DEF PushAdvance
    <2>2. tx.end # Places /\ (ready => tx.end = tx.top) BY <2>1 DEF TxInv
    <2>3. tx.end \in 0..(Places - 1) BY <1>1, <2>2, Wrapped
    <2> DEFINE e == Advance(tx.end)
    <2>4. e = tx.end + 1 /\ e \in 0..Places BY <2>3, Advanced
    <2>5. tx' = [data |-> tx.data, top |-> tx.top, end |-> e] BY <1>2 DEF PushAdvance, TxInv
    <2>6. tx.end = tx.top => e = tx.top + 1 BY <2>4
    <2> HIDE DEF e
    <2>7. tx'.data = tx.data /\ tx'.top = tx.top /\ tx'.end = e BY <2>5
    <2> QED BY <1>1, <2>1, <2>2, <2>4, <2>5, <2>6, <2>7 DEF TxInv
  <1>3. CASE PushWrap
    <2>1. pc = "push wrap" /\ pc' = "push store" /\ UNCHANGED <<ready, txe>> BY <1>3 DEF PushWrap
    <2> DEFINE e == Wrap(tx.end)
    <2>2. tx' = [data |-> tx.data, top |-> tx.top, end |-> e] BY <1>3 DEF PushWrap, TxInv
    <2>3. e \in 0..(Places - 1) BY <1>1, Wrapped
    <2>4. e \in 0..Places /\ e # Places BY <2>3, Advanced
    <2>5. tx.end = tx.top => e = tx.top BY <1>1, Advanced
    <2>6. ready => tx.end = tx.top \/ tx.end = tx.top + 1 BY <2>1 DEF TxInv
    <2>7. ready => e = tx.top \/ e = Wrap(tx.top + 1) BY <2>5, <2>6
    <2> HIDE DEF e
    <2>8. tx'.data = tx.data /\ tx'.top = tx.top /\ tx'.end = e BY <2>2
    <2> QED BY <1>1, <2>1, <2>2, <2>4, <2>7, <2>8 DEF TxInv
  <1>4. CASE PushStore
    <2>1. pc = "push store" /\ pc' = "idle" /\ UNCHANGED <<ready, txe>> BY <1>4 DEF PushStore
    <2> DEFINE d == [tx.data EXCEPT ![tx.end] = printed]
    <2>2. tx' = [tx EXCEPT !.data = d] BY <1>4 DEF PushStore
    <2> HIDE DEF d
    <2>3. tx' = [data |-> d, top |-> tx.top, end |-> tx.end] BY <2>2 DEF TxInv
    <2>4. tx'.data = d /\ tx'.top = tx.top /\ tx'.end = tx.end BY <2>3
    <2> QED BY <1>1, <2>1, <2>3, <2>4 DEF TxInv
  <1> QED BY <1>2, <1>3, <1>4

LEMMA TxStep ==
  ASSUME TxInv, [Next]_vars, ~Panicking'
  PROVE  TxInv'
  <1> USE DEF txVars, rxVars
  <1>1. CASE PushAdvance \/ PushWrap \/ PushStore BY <1>1, PushStep
  <1>2. CASE UartIrqHandler
    <2>1. CASE txe BY <1>2, <2>1, SendStep DEF UartIrqHandler
    <2>2. CASE ~txe
      <3>1. UNCHANGED <<tx, ready, txe, pc>> BY <1>2, <2>2 DEF UartIrqHandler, DbgUartRecv
      <3> QED BY <3>1 DEF TxInv
    <2> QED BY <2>1, <2>2
  <1>3. CASE AsyncPutchar
    <2>1. /\ UNCHANGED <<tx, ready, txe>> /\ pc = "idle"
          /\ pc' = IF ready THEN "mark" ELSE "push"
      BY <1>3 DEF AsyncPutchar
    <2> QED BY <2>1 DEF TxInv
  <1>4. CASE PutcharMark BY <1>4 DEF PutcharMark, TxInv
  <1>5. CASE PutcharEnable BY <1>5 DEF PutcharEnable, TxInv
  <1>6. CASE GetcharAdvance \/ PopWrap \/ PopLoad
    <2>1. /\ UNCHANGED <<tx, ready, txe>>
          /\ pc \in {"idle", "pop wrap", "pop load"} /\ pc' \in {"idle", "pop wrap", "pop load"}
      BY <1>6 DEF GetcharAdvance, PopWrap, PopLoad
    <2> QED BY <2>1 DEF TxInv
  <1>7. CASE Transmit \/ Receive \/ UNCHANGED vars
    <2>1. UNCHANGED <<tx, ready, txe, pc>> BY <1>7 DEF Transmit, Receive, vars
    <2> QED BY <2>1 DEF TxInv
  <1>8. CASE StartPanic \/ FlushAdvance \/ FlushWrap \/ FlushLoad \/ FlushWait
    BY <1>8 DEF StartPanic, FlushAdvance, FlushWrap, FlushLoad, FlushWait, Panicking
  <1> QED BY <1>1, <1>2, <1>3, <1>4, <1>5, <1>6, <1>7, <1>8 DEF Next, Thread

LEMMA PanicStays == Panicking /\ [Next]_vars => Panicking'
  BY DEF Panicking, Next, Thread, vars, AsyncPutchar, PutcharMark, PutcharEnable, PushAdvance,
         PushWrap, PushStore, GetcharAdvance, PopWrap, PopLoad, StartPanic, FlushAdvance, FlushWrap,
         FlushLoad, FlushWait, Transmit, Receive, UartIrqHandler

LEMMA TxBound == TxInv => AtMostOneStranded
  <1> SUFFICES ASSUME TxInv, ready, pc = "idle" PROVE Waiting(tx) <= 1 BY DEF AtMostOneStranded
  <1>1. Places \in Nat /\ Places > 1 /\ Size = Places + 1 BY DbgUartAssumption DEF Places
  <1> HIDE DEF Places
  <1>2. tx.top \in 0..(Places - 1) /\ tx.end \in 0..(Places - 1) BY <1>1 DEF TxInv
  <1>3. Waiting(tx) = IF tx.end >= tx.top THEN tx.end - tx.top ELSE tx.end - tx.top + Places
    BY <1>1, <1>2, WaitingIs
  <1>4. tx.end = tx.top \/ tx.end = Wrap(tx.top + 1) BY DEF TxInv
  <1> QED BY <1>1, <1>2, <1>3, <1>4 DEF Wrap

\* For every size of the send queue, and whatever dbg_async_putchar(), dbg_uart_send()
\* and dbg_uart_recv() interleave: at most one byte is left in the queue of a UART
\* that dbg_uart_send() has marked ready.
THEOREM StrandedBound == Spec => []AtMostOneStranded
  <1> DEFINE Inv == Panicking \/ TxInv
  <1>1. Init => Inv BY TxStart
  <1>2. Inv /\ [Next]_vars => Inv' BY TxStep, PanicStays
  <1>3. Inv => AtMostOneStranded BY TxBound DEF Panicking, AtMostOneStranded
  <1> QED BY <1>1, <1>2, <1>3, PTL DEF Spec

-----------------------------------------------------------------------------
(* memcpy() and memset()                                                   *)

\* The state of a copy is a record of the C variables and what was done.
IsCopy(c) == c = [at |-> c.at, d |-> c.d, s |-> c.s, n |-> c.n, w |-> c.w, k |-> c.k,
                  read |-> c.read, wrote |-> c.wrote, ok |-> c.ok]

\* The first m bytes of a copy from s to d.
Image(d, s, m) == [a \in d .. d + m - 1 |-> a - d + s]

\* A copy of n bytes whose pointers have passed the first m, and that has written j more.
Copied(c, d, s, n, m, j) ==
  /\ IsCopy(c)
  /\ d \in Nat /\ s \in Nat /\ n \in Nat /\ m \in Nat /\ j \in Nat /\ m + j <= n
  /\ c.d = d + m /\ c.s = s + m
  /\ c.wrote = Image(d, s, m + j)
  /\ c.read \subseteq s .. s + n - 1
  /\ c.ok = TRUE

\* The next j bytes of it.
Follows(bytes, d, s, m, j) ==
  DOMAIN bytes = d + m .. d + m + j - 1 /\ \A a \in DOMAIN bytes : bytes[a] = a - d + s

\* The next bytes make the image longer.
LEMMA ImageGrows ==
  ASSUME NEW d \in Nat, NEW s \in Nat, NEW m \in Nat, NEW j \in Nat, NEW bytes,
         Follows(bytes, d, s, m, j)
  PROVE  Stored(Image(d, s, m), bytes) = Image(d, s, m + j)
  <1> DEFINE f == Image(d, s, m)
             g == Image(d, s, m + j)
  <1>1. /\ DOMAIN f = d .. d + m - 1 /\ DOMAIN g = d .. d + (m + j) - 1
        /\ DOMAIN bytes = d + m .. d + m + j - 1
        /\ \A a \in DOMAIN bytes : bytes[a] = a - d + s
    BY DEF Image, Follows
  <1>2. DOMAIN f \cup DOMAIN bytes = DOMAIN g
    <2>1. (d .. d + m - 1) \cup (d + m .. d + m + j - 1) = d .. d + (m + j) - 1 OBVIOUS
    <2> HIDE DEF f, g
    <2> QED BY <1>1, <2>1
  <1>3. ASSUME NEW a \in DOMAIN g
        PROVE  (IF a \in DOMAIN bytes THEN bytes[a] ELSE f[a]) = g[a]
    BY <1>1, <1>2 DEF Image
  <1>4. g = [a \in DOMAIN g |-> g[a]] BY DEF Image
  <1> HIDE DEF f, g
  <1>5. Stored(f, bytes) = [a \in DOMAIN g |-> IF a \in DOMAIN bytes THEN bytes[a] ELSE f[a]]
    BY <1>2 DEF Stored
  <1>6. Stored(f, bytes) = [a \in DOMAIN g |-> g[a]] BY <1>3, <1>5
  <1> QED BY <1>4, <1>6 DEF f, g

\* j bytes after the first m are the first e, within the n to copy.
Adds(e, m, j, n) == j \in Nat /\ e = m + j /\ e <= n

\* Bytes copied one after the other.
LEMMA BytesStep ==
  ASSUME NEW d, NEW s, NEW n, NEW m, NEW c, NEW j, NEW e,
         Copied(c, d, s, n, m, 0), Adds(e, m, j, n)
  PROVE  /\ Copied(CopyBytes(c, j), d, s, n, e, 0)
         /\ CopyBytes(c, j).n = c.n /\ CopyBytes(c, j).k = c.k /\ CopyBytes(c, j).w = c.w
         /\ CopyBytes(c, j).at = c.at
  <1> DEFINE b == CopyBytes(c, j)
             more == [a \in c.d .. c.d + j - 1 |-> a - c.d + c.s]
             new == Stored(c.wrote, more)
             seen == c.read \cup c.s .. c.s + j - 1
  <1>1. /\ IsCopy(c) /\ m \in Nat /\ c.d = d + m /\ c.s = s + m /\ c.wrote = Image(d, s, m)
        /\ c.read \subseteq s .. s + n - 1 /\ c.ok = TRUE
        /\ e = m + j /\ e <= n /\ d \in Nat /\ s \in Nat /\ n \in Nat /\ j \in Nat
    BY DEF Copied, Adds
  <1>2. b = [at |-> c.at, d |-> c.d + j, s |-> c.s + j, n |-> c.n, w |-> c.w, k |-> c.k,
             read |-> seen, wrote |-> new, ok |-> c.ok]
    <2> HIDE DEF new, seen
    <2>1. b = [c EXCEPT !.d = @ + j, !.s = @ + j, !.read = seen, !.wrote = new]
      BY DEF CopyBytes, new, seen
    <2> HIDE DEF b
    <2> QED BY <1>1, <2>1 DEF IsCopy
  <1>3. Follows(more, d, s, m, j) BY <1>1 DEF Follows
  <1>4. new = Image(d, s, m + j)
    <2> HIDE DEF more
    <2>0. d \in Nat /\ s \in Nat /\ m \in Nat /\ j \in Nat BY <1>1
    <2>1. Stored(Image(d, s, m), more) = Image(d, s, m + j)
      BY <1>3, <2>0, ImageGrows
    <2> QED BY <1>1, <2>1
  <1>5. seen \subseteq s .. s + n - 1 BY <1>1
  <1> HIDE DEF b, new, seen
  <1>6. IsCopy(b) BY <1>2 DEF IsCopy
  <1>7. /\ b.d = d + (m + j) /\ b.s = s + (m + j) /\ b.wrote = Image(d, s, m + j)
        /\ b.read \subseteq s .. s + n - 1 /\ b.ok = TRUE
        /\ b.n = c.n /\ b.k = c.k /\ b.w = c.w /\ b.at = c.at
    BY <1>1, <1>2, <1>4, <1>5
  <1>8. m + j = e /\ e \in Nat /\ e + 0 = e /\ e <= n /\ 0 \in Nat BY <1>1
  <1>9. Copied(b, d, s, n, e, 0) BY <1>1, <1>6, <1>7, <1>8 DEF Copied
  <1> QED BY <1>7, <1>9 DEF b

\* Two words of the source that follow each other, shifted: the four bytes in between.
LEMMA Meet ==
  ASSUME NEW e \in Int, NEW k \in 1 .. 3, NEW i \in 0 .. 3
  PROVE  Shifted(WordAt(e + k - 4), WordAt(e + k), k)[i] = e + i
  <1> DEFINE w == WordAt(e + k - 4)
             x == WordAt(e + k)
  <1>1. /\ \A j \in 0 .. 3 : w[j] = e + k - 4 + j
        /\ \A j \in 0 .. 3 : x[j] = e + k + j
    BY DEF WordAt
  <1> HIDE DEF w, x
  <1>2. Shifted(w, x, k)[i] = IF i < k THEN w[i + 4 - k] ELSE x[i - k] BY DEF Shifted
  <1>3. CASE i < k
    <2>1. i + 4 - k \in 0 .. 3 /\ e + k - 4 + (i + 4 - k) = e + i BY <1>3
    <2> QED BY <1>1, <1>2, <1>3, <2>1 DEF w, x
  <1>4. CASE ~(i < k)
    <2>1. i - k \in 0 .. 3 /\ e + k + (i - k) = e + i BY <1>4
    <2> QED BY <1>1, <1>2, <1>4, <2>1 DEF w, x
  <1> QED BY <1>3, <1>4

Offsets == {0, 4, 8, 12}

\* What a round needs, and leaves for the next one.
Meeting(c, d, s, n, m, k, off) ==
  /\ c.k = k /\ c.w = WordAt(s + m + k + off - 4) /\ k \in 1 .. 3 /\ m + 16 + k <= n
  /\ (s + m + k + off) % 4 = 0 /\ (d + m + off) % 4 = 0

\* A word made of two, d and s not yet advanced.
LEMMA RoundStep ==
  ASSUME NEW d, NEW s, NEW n, NEW m, NEW c, NEW off \in Offsets, NEW k,
         Copied(c, d, s, n, m, off), Meeting(c, d, s, n, m, k, off)
  PROVE  /\ Copied(Round(c, off), d, s, n, m, off + 4)
         /\ Meeting(Round(c, off), d, s, n, m, k, off + 4)
         /\ Round(c, off).n = c.n /\ Round(c, off).at = c.at
  <1> DEFINE r == Round(c, off)
             x == WordAt(c.s + c.k + off)
             word == Shifted(c.w, x, c.k)
             more == [a \in c.d + off .. c.d + off + 3 |-> word[a - c.d - off]]
             new == Stored(c.wrote, more)
             seen == c.read \cup c.s + c.k + off .. c.s + c.k + off + 3
             g == Got(c, c.s + c.k + off)
             w == PutWord(g, word, off)
  <1>1. /\ IsCopy(c) /\ m \in Nat /\ c.d = d + m /\ c.s = s + m /\ c.wrote = Image(d, s, m + off)
        /\ c.read \subseteq s .. s + n - 1 /\ c.ok = TRUE
        /\ d \in Nat /\ s \in Nat /\ n \in Nat
    BY DEF Copied
  <1>0. /\ c.k = k /\ c.w = WordAt(c.s + c.k + off - 4) /\ k \in 1 .. 3
        /\ (c.s + c.k + off) % 4 = 0 /\ (c.d + off) % 4 = 0
        /\ off \in Nat /\ m + off + k + 4 <= n
    <2>1. m \in Nat /\ n \in Nat /\ k \in 1 .. 3 BY <1>1 DEF Meeting
    <2>2. m + off + k + 4 <= n /\ off \in Nat BY <2>1 DEF Meeting, Offsets
    <2> QED BY <1>1, <2>1, <2>2 DEF Meeting
  <1>2. r = [at |-> c.at, d |-> c.d, s |-> c.s, n |-> c.n, w |-> x, k |-> c.k,
             read |-> seen, wrote |-> new, ok |-> TRUE]
    <2>1. r = [w EXCEPT !.w = x] BY DEF Round
    <2> HIDE DEF x, word, r, w
    <2>2. g = [at |-> c.at, d |-> c.d, s |-> c.s, n |-> c.n, w |-> c.w, k |-> c.k,
               read |-> seen, wrote |-> c.wrote, ok |-> TRUE]
      <3>1. g = [c EXCEPT !.read = seen, !.ok = TRUE] BY <1>0, <1>1 DEF Got
      <3> HIDE DEF g, seen
      <3> QED BY <1>1, <3>1 DEF IsCopy
    <2> HIDE DEF g, seen
    <2>3. w = [g EXCEPT !.wrote = new, !.ok = TRUE]
      <3>1. g.d = c.d /\ g.wrote = c.wrote /\ g.ok = TRUE BY <2>2
      <3> QED BY <1>0, <3>1 DEF PutWord, w
    <2> HIDE DEF new
    <2> QED BY <2>1, <2>2, <2>3
  <1>3. \A i \in 0 .. 3 : word[i] = c.s + off + i
    <2> DEFINE e == c.s + off
    <2>1. e \in Int /\ c.s + c.k + off - 4 = e + c.k - 4 /\ c.s + c.k + off = e + c.k
      <3>1. c.s \in Int /\ c.k \in Int /\ off \in Int BY <1>0, <1>1
      <3> QED BY <3>1
    <2> HIDE DEF e
    <2>2. word = Shifted(WordAt(e + c.k - 4), WordAt(e + c.k), c.k) BY <1>0, <2>1
    <2>4. e \in Int /\ c.k \in 1 .. 3 BY <1>0, <2>1
    <2> HIDE DEF word
    <2>3. \A i \in 0 .. 3 : word[i] = e + i BY <2>2, <2>4, Meet
    <2> QED BY <2>3 DEF e
  <1>4. Follows(more, d, s, m + off, 4)
    <2> HIDE DEF word
    <2>0. /\ d \in Nat /\ s \in Nat /\ m \in Nat /\ off \in Nat /\ c.d = d + m /\ c.s = s + m
      BY <1>0, <1>1
    <2>1. DOMAIN more = d + (m + off) .. d + (m + off) + 4 - 1 BY <2>0
    <2>2. ASSUME NEW a \in DOMAIN more PROVE more[a] = a - d + s
      <3>1. a \in Int /\ a - c.d - off \in 0 .. 3 /\ more[a] = word[a - c.d - off] BY <2>0
      <3> HIDE DEF more
      <3>2. more[a] = c.s + off + (a - c.d - off) BY <1>3, <3>1
      <3> QED BY <2>0, <3>1, <3>2
    <2> QED BY <2>1, <2>2 DEF Follows
  <1>5. new = Image(d, s, m + off + 4)
    <2>0. d \in Nat /\ s \in Nat /\ m + off \in Nat BY <1>0, <1>1
    <2> HIDE DEF more
    <2>1. Stored(Image(d, s, m + off), more) = Image(d, s, m + off + 4)
      <3>1. 4 \in Nat OBVIOUS
      <3> QED BY <1>4, <2>0, <3>1, ImageGrows
    <2> QED BY <1>1, <2>1
  <1>6. seen \subseteq s .. s + n - 1 BY <1>0, <1>1
  <1> HIDE DEF r, new, seen, x
  <1>7. IsCopy(r) BY <1>2 DEF IsCopy
  <1>8. /\ r.d = d + m /\ r.s = s + m /\ r.wrote = new /\ r.read = seen /\ r.ok = TRUE
        /\ r.n = c.n /\ r.k = c.k /\ r.w = x /\ r.at = c.at
    BY <1>1, <1>2
  <1>t. /\ d \in Nat /\ s \in Nat /\ n \in Nat /\ m \in Nat /\ k \in 1 .. 3
        /\ off \in Nat /\ m + off + k + 4 <= n
    BY <1>0, <1>1
  <1>9. m + (off + 4) = m + off + 4 /\ off + 4 \in Nat /\ m + off + 4 <= n BY <1>t
  <1>10. Copied(r, d, s, n, m, off + 4) BY <1>1, <1>5, <1>6, <1>7, <1>8, <1>9 DEF Copied
  <1>11. Meeting(r, d, s, n, m, k, off + 4)
    <2>1. /\ s + m + k + (off + 4) - 4 = c.s + c.k + off
          /\ s + m + k + (off + 4) = (c.s + c.k + off) + 4 /\ d + m + (off + 4) = (c.d + off) + 4
          /\ c.s + c.k + off \in Int /\ c.d + off \in Int
      <3>1. c.d = d + m /\ c.s = s + m /\ c.k = k BY <1>0, <1>1
      <3> QED BY <1>t, <3>1
    <2>2. ((c.s + c.k + off) + 4) % 4 = 0 /\ ((c.d + off) + 4) % 4 = 0 BY <1>0, <2>1
    <2>3. m + 16 + k <= n BY DEF Meeting
    <2> QED BY <1>0, <1>8, <2>1, <2>2, <2>3 DEF Meeting, x
  <1> QED BY <1>8, <1>10, <1>11 DEF r

\* Where a copy of n bytes may be once its pointers have passed the first m.
Stage(c, n, m) ==
  /\ c.n \in Nat
  /\ \/ c.at = "words" /\ m + c.n = n /\ c.d % 4 = 0 /\ (c.n > 0 => c.s % 4 = 0)
     \/ /\ c.at = "shift" /\ m + c.n = n /\ c.k \in 1 .. 3
        /\ c.d % 4 = 0 /\ (c.s + c.k) % 4 = 0 /\ c.w = WordAt(c.s + c.k - 4)
     \/ c.at = "rest" /\ m + c.n = n /\ c.n < 32
     \/ c.at = "done" /\ m = n

Copying == \E m \in Nat : Copied(effect, call.d, call.s, call.n, m, 0) /\ Stage(effect, call.n, m)

CallOk == /\ call.fn \in {"memcpy", "memset"} /\ call.d \in Nat /\ call.n \in Nat
          /\ call.fn = "memcpy" => call.s \in Nat

CopyInv == /\ CallOk
           /\ \/ effect.at = "call"
              \/ call.fn = "memcpy" /\ Copying
              \/ call.fn = "memset" /\ effect = memset(call.d, call.n)

\* The bits of a number are the number.
LEMMA Binary ==
  ASSUME NEW n \in Nat
  PROVE  /\ n < 32 => 16 * Bit(n, 16) + 8 * Bit(n, 8) + 4 * Bit(n, 4) + 2 * Bit(n, 2) + Bit(n, 1) = n
         /\ n < 16 => 4 * (2 * Bit(n, 8) + Bit(n, 4)) + (2 * Bit(n, 2) + Bit(n, 1)) = n
         /\ 2 * Bit(n, 8) + Bit(n, 4) \in Nat /\ 2 * Bit(n, 2) + Bit(n, 1) \in Nat
  BY Z3 DEF Bit

LEMMA Aligning ==
  ASSUME NEW a \in Nat
  PROVE  ToWord(a) \in 0 .. 3 /\ (a + ToWord(a)) % 4 = 0
  BY Z3 DEF ToWord

\* The same for j words.
AddsWords(c, e, m, j, n) ==
  j \in Nat /\ e = m + 4 * j /\ e <= n /\ (j > 0 => c.s % 4 = 0 /\ c.d % 4 = 0)

LEMMA WordsStep ==
  ASSUME NEW d, NEW s, NEW n, NEW m, NEW c, NEW j, NEW e,
         Copied(c, d, s, n, m, 0), AddsWords(c, e, m, j, n)
  PROVE  /\ Copied(CopyWords(c, j), d, s, n, e, 0)
         /\ CopyWords(c, j).n = c.n /\ CopyWords(c, j).at = c.at
  <1> DEFINE h == 4 * j
             b == CopyBytes(c, h)
             w == CopyWords(c, j)
  <1>0. /\ h \in Nat /\ Adds(e, m, h, n)
        /\ j > 0 => c.s % 4 = 0 /\ c.d % 4 = 0
    BY DEF Adds, AddsWords
  <1> HIDE DEF h
  <1>1. Copied(b, d, s, n, e, 0) /\ b.n = c.n /\ b.at = c.at
    <2>1. Adds(e, m, h, n) BY <1>0
    <2> QED BY <2>1, BytesStep
  <1>2. w = [b EXCEPT !.ok = @ /\ (j > 0 => c.s % 4 = 0 /\ c.d % 4 = 0)] BY DEF CopyWords, h
  <1> HIDE DEF b
  <1>3. b.ok = TRUE /\ IsCopy(b) BY <1>1 DEF Copied
  <1>4. w = [b EXCEPT !.ok = TRUE] BY <1>0, <1>2, <1>3
  <1> HIDE DEF w
  <1>5. w = b BY <1>3, <1>4 DEF IsCopy
  <1> QED BY <1>1, <1>5 DEF w, h

\* Changing only the place, or the number of bytes left, is no change of what was copied.
At(c, place) == [c EXCEPT !.at = place]
Left(c, left) == [c EXCEPT !.n = left]

LEMMA Moved ==
  ASSUME NEW d, NEW s, NEW n, NEW m, NEW j, NEW c, Copied(c, d, s, n, m, j), NEW place
  PROVE  /\ Copied(At(c, place), d, s, n, m, j) /\ At(c, place).at = place
         /\ At(c, place).n = c.n
  <1> DEFINE e == At(c, place)
  <1>1. IsCopy(c) BY DEF Copied
  <1>2. e = [at |-> place, d |-> c.d, s |-> c.s, n |-> c.n, w |-> c.w, k |-> c.k,
             read |-> c.read, wrote |-> c.wrote, ok |-> c.ok]
    BY <1>1 DEF IsCopy, At
  <1> HIDE DEF e
  <1>4. /\ e.at = place /\ e.n = c.n /\ e.d = c.d /\ e.s = c.s
        /\ e.read = c.read /\ e.wrote = c.wrote /\ e.ok = c.ok
    BY <1>2
  <1>5. IsCopy(e) BY <1>2 DEF IsCopy
  <1>6. Copied(e, d, s, n, m, j) BY <1>4, <1>5 DEF Copied
  <1> QED BY <1>4, <1>6 DEF e

LEMMA Counted ==
  ASSUME NEW d, NEW s, NEW n, NEW m, NEW j, NEW c, Copied(c, d, s, n, m, j), NEW left
  PROVE  /\ Copied(Left(c, left), d, s, n, m, j) /\ Left(c, left).at = c.at
         /\ Left(c, left).n = left /\ Left(c, left).k = c.k /\ Left(c, left).w = c.w
  <1> DEFINE e == Left(c, left)
  <1>1. IsCopy(c) BY DEF Copied
  <1>2. e = [at |-> c.at, d |-> c.d, s |-> c.s, n |-> left, w |-> c.w, k |-> c.k,
             read |-> c.read, wrote |-> c.wrote, ok |-> c.ok]
    BY <1>1 DEF IsCopy, Left
  <1> HIDE DEF e
  <1>4. /\ e.at = c.at /\ e.n = left /\ e.d = c.d /\ e.s = c.s /\ e.k = c.k /\ e.w = c.w
        /\ e.read = c.read /\ e.wrote = c.wrote /\ e.ok = c.ok
    BY <1>2
  <1>5. IsCopy(e) BY <1>2 DEF IsCopy
  <1>6. Copied(e, d, s, n, m, j) BY <1>4, <1>5 DEF Copied
  <1> QED BY <1>4, <1>6 DEF e

\* One lemma for each step of memcpy().
LEMMA StartCopy ==
  ASSUME CallOk, memcpy
  PROVE  Copying'
  <1> DEFINE d == call.d
             s == call.s
             n == call.n
             head == IF ToWord(s) < n THEN ToWord(s) ELSE n
             start == [at |-> "words", d |-> d, s |-> s, n |-> n - head, w |-> WordAt(0),
                       k |-> 0, read |-> {}, wrote |-> [a \in {} |-> a], ok |-> TRUE]
             c == CopyBytes(start, head)
  <1>0. d \in Nat /\ s \in Nat /\ n \in Nat /\ call' = call BY DEF CallOk, memcpy
  <1>1. effect' = IF c.d % 4 = 0 THEN c
                  ELSE IF c.n >= 32 THEN ShiftStart(c) ELSE [c EXCEPT !.at = "rest"]
    BY DEF memcpy
  <1>2. SUFFICES \E m \in Nat : Copied(effect', d, s, n, m, 0) /\ Stage(effect', n, m)
    BY <1>0 DEF Copying
  <1> HIDE DEF d, s, n
  <1>3. head \in Nat /\ head <= n /\ (n - head > 0 => (s + head) % 4 = 0)
    <2>1. ToWord(s) \in 0 .. 3 /\ (s + ToWord(s)) % 4 = 0 BY <1>0, Aligning
    <2> QED BY <1>0, <2>1
  <1> HIDE DEF head
  <1>4. Copied(start, d, s, n, 0, 0) /\ start.n = n - head /\ start.at = "words"
    <2>1. IsCopy(start) BY DEF IsCopy
    <2>2. [a \in {} |-> a] = Image(d, s, 0)
      <3>1. d .. d + 0 - 1 = {} BY <1>0
      <3> QED BY <3>1 DEF Image
    <2>3. start.wrote = Image(d, s, 0 + 0) BY <2>2
    <2>4. /\ start.d = d + 0 /\ start.s = s + 0 /\ start.read \subseteq s .. s + n - 1 /\ start.ok = TRUE
          /\ start.n = n - head /\ start.at = "words"
      BY <1>0
    <2> HIDE DEF start
    <2> QED BY <1>0, <2>1, <2>3, <2>4 DEF Copied
  <1> HIDE DEF start
  <1>5. /\ Copied(c, d, s, n, head, 0) /\ c.n = n - head /\ c.at = "words"
    <2>1. Adds(head, 0, head, n) BY <1>0, <1>3 DEF Adds
    <2>2. Copied(c, d, s, n, head, 0) /\ c.n = start.n /\ c.at = start.at
      <3>1. Copied(start, d, s, n, 0, 0) BY <1>4
      <3> QED BY <2>1, <3>1, BytesStep
    <2> QED BY <1>4, <2>2
  <1>6. c.d = d + head /\ c.s = s + head BY <1>5 DEF Copied
  <1> HIDE DEF c
  <1>7. CASE c.d % 4 = 0
    <2>1. effect' = c BY <1>1, <1>7
    <2>2. Stage(c, n, head) BY <1>0, <1>3, <1>5, <1>6, <1>7 DEF Stage
    <2> QED BY <1>3, <1>5, <2>1, <2>2
  <1>8. CASE c.d % 4 # 0 /\ c.n >= 32
    <2> DEFINE k == c.d % 4
               seen == [Got(c, c.s) EXCEPT !.w = WordAt(c.s), !.k = k, !.at = "shift"]
               b == CopyBytes(seen, 4 - k)
    <2>1. effect' = [b EXCEPT !.n = @ - (4 - k)] BY <1>1, <1>8 DEF ShiftStart
    <2>2. k \in 1 .. 3 /\ 4 - k \in Nat /\ (c.d + (4 - k)) % 4 = 0 /\ c.s % 4 = 0
      <3>1. c.d \in Nat /\ n - head > 0 BY <1>0, <1>3, <1>5, <1>6, <1>8
      <3>2. c.s % 4 = 0 BY <1>3, <1>6, <3>1
      <3>3. k \in 1 .. 3 BY <1>8, <3>1
      <3>4. (c.d + (4 - k)) % 4 = 0 BY <3>1, Z3
      <3> HIDE DEF k
      <3> QED BY <3>2, <3>3, <3>4
    <2> HIDE DEF k
    <2>3. /\ Copied(seen, d, s, n, head, 0) /\ seen.n = c.n /\ seen.k = k /\ seen.w = WordAt(c.s)
          /\ seen.at = "shift" /\ seen.d = c.d /\ seen.s = c.s
      <3>1. /\ IsCopy(c) /\ c.ok = TRUE /\ c.read \subseteq s .. s + n - 1
            /\ c.wrote = Image(d, s, head + 0)
        BY <1>5 DEF Copied
      <3> DEFINE word == WordAt(c.s)
                 read == c.read \cup c.s .. c.s + 3
                 g == Got(c, c.s)
      <3>2. g = [c EXCEPT !.read = read, !.ok = TRUE] BY <2>2, <3>1 DEF Got
      <3>3. read \subseteq s .. s + n - 1 BY <1>0, <1>3, <1>5, <1>6, <1>8, <3>1
      <3> HIDE DEF g, read, word
      <3>4. seen = [at |-> "shift", d |-> c.d, s |-> c.s, n |-> c.n, w |-> word, k |-> k,
                   read |-> read, wrote |-> c.wrote, ok |-> TRUE]
        <4>1. seen = [g EXCEPT !.w = word, !.k = k, !.at = "shift"] BY DEF g, word
        <4>2. g = [at |-> c.at, d |-> c.d, s |-> c.s, n |-> c.n, w |-> c.w, k |-> c.k,
                   read |-> read, wrote |-> c.wrote, ok |-> TRUE]
          BY <3>1, <3>2 DEF IsCopy
        <4> HIDE DEF seen
        <4> QED BY <4>1, <4>2
      <3> HIDE DEF seen
      <3>5. IsCopy(seen) BY <3>4 DEF IsCopy
      <3>6. /\ seen.n = c.n /\ seen.k = k /\ seen.w = word /\ seen.at = "shift" /\ seen.d = c.d
            /\ seen.s = c.s /\ seen.read = read /\ seen.wrote = c.wrote /\ seen.ok = TRUE
        BY <3>4
      <3> QED BY <1>0, <1>3, <1>6, <3>1, <3>3, <3>5, <3>6 DEF Copied, word
    <2> HIDE DEF seen
    <2> DEFINE j == 4 - k
               m == head + j
    <2>4. m <= n /\ m \in Nat /\ j \in Nat /\ c.n - j \in Nat /\ m + (c.n - j) = n
      BY <1>0, <1>3, <1>5, <1>8, <2>2
    <2>5. /\ Copied(b, d, s, n, m, 0) /\ b.n = c.n /\ b.k = k /\ b.w = WordAt(c.s) /\ b.at = "shift"
      <3>1. b = CopyBytes(seen, j) /\ Copied(seen, d, s, n, head, 0) BY <2>3
      <3>3. Adds(m, head, j, n) BY <2>4 DEF Adds
      <3> HIDE DEF b, j, m
      <3>2. Copied(b, d, s, n, m, 0) /\ b.n = seen.n /\ b.k = seen.k /\ b.w = seen.w /\ b.at = seen.at
        BY <3>1, <3>3, BytesStep
      <3> QED BY <2>3, <3>2
    <2> HIDE DEF b
    <2>6. /\ Copied(effect', d, s, n, m, 0) /\ effect'.n = c.n - j /\ effect'.k = k
          /\ effect'.w = WordAt(c.s) /\ effect'.at = "shift"
      <3>1. effect' = Left(b, c.n - j) BY <2>1, <2>5 DEF Left
      <3> HIDE DEF m, j
      <3>2. Copied(b, d, s, n, m, 0) BY <2>5
      <3>3. /\ Copied(effect', d, s, n, m, 0) /\ effect'.n = c.n - j /\ effect'.k = b.k
            /\ effect'.w = b.w /\ effect'.at = b.at
        BY <3>1, <3>2, Counted
      <3> QED BY <2>5, <3>3
    <2>7. effect'.d = d + m /\ effect'.s = s + m BY <2>6 DEF Copied
    <2>8. /\ (d + m) % 4 = 0 /\ (s + m + k) % 4 = 0 /\ c.s = s + m + k - 4
      <3>1. d + m = c.d + (4 - k) /\ c.s = s + m + k - 4 BY <1>0, <1>3, <1>6, <2>2
      <3>2. s + m + k = c.s + 4 /\ c.s \in Nat BY <1>0, <1>3, <1>6, <2>2
      <3>3. (c.s + 4) % 4 = 0 BY <2>2, <3>2
      <3> QED BY <2>2, <3>1, <3>2, <3>3
    <2> HIDE DEF m, j
    <2>9. Stage(effect', n, m) BY <2>2, <2>4, <2>6, <2>7, <2>8 DEF Stage
    <2> QED BY <2>4, <2>6, <2>9
  <1>9. CASE c.d % 4 # 0 /\ ~(c.n >= 32)
    <2>1. effect' = At(c, "rest") BY <1>1, <1>9 DEF At
    <2>3. Copied(effect', d, s, n, head, 0) /\ effect'.at = "rest" /\ effect'.n = c.n
      <3>1. Copied(c, d, s, n, head, 0) BY <1>5
      <3> QED BY <2>1, <3>1, Moved
    <2>4. Stage(effect', n, head) BY <1>0, <1>3, <1>5, <1>9, <2>3 DEF Stage
    <2> QED BY <1>3, <2>3, <2>4
  <1> QED BY <1>7, <1>8, <1>9

\* What the invariant says of a copy under way.
LEMMA Pick ==
  ASSUME CallOk, call.fn = "memcpy", Copying
  PROVE  \E m \in Nat : /\ Copied(effect, call.d, call.s, call.n, m, 0) /\ Stage(effect, call.n, m)
                        /\ effect.d = call.d + m /\ effect.s = call.s + m /\ effect.n \in Nat
                        /\ call.d \in Nat /\ call.s \in Nat /\ call.n \in Nat
  BY DEF Copying, Copied, CallOk, Stage

LEMMA WordLoopStep ==
  ASSUME CallOk, call.fn = "memcpy", Copying, WordLoop
  PROVE  Copying'
  <1> DEFINE d == call.d
             s == call.s
             n == call.n
             c == effect
             w == CopyWords(c, 4)
  <1>0. PICK m \in Nat : /\ Copied(c, d, s, n, m, 0) /\ Stage(c, n, m)
                         /\ c.d = d + m /\ c.s = s + m /\ c.n \in Nat
                         /\ d \in Nat /\ s \in Nat /\ n \in Nat
    BY Pick
  <1>1. effect' = [w EXCEPT !.n = @ - 16] /\ c.at = "words" /\ c.n >= 16 /\ call' = call
    BY DEF WordLoop
  <1>2. SUFFICES \E i \in Nat : Copied(effect', d, s, n, i, 0) /\ Stage(effect', n, i)
    BY <1>1 DEF Copying
  <1> HIDE DEF d, s, n, c, w
  <1>3. m + c.n = n /\ c.d % 4 = 0 /\ c.s % 4 = 0 BY <1>0, <1>1 DEF Stage
  <1>4. AddsWords(c, m + 16, m, 4, n) /\ m + 16 \in Nat /\ 4 \in Nat
    BY <1>0, <1>1, <1>3 DEF AddsWords
  <1>5. Copied(w, d, s, n, m + 16, 0) /\ w.n = c.n /\ w.at = c.at
    <2>1. Copied(c, d, s, n, m, 0) /\ AddsWords(c, m + 16, m, 4, n) BY <1>0, <1>4
    <2> QED BY <2>1, WordsStep DEF w
  <1>6. effect' = Left(w, c.n - 16) BY <1>1, <1>5 DEF Left
  <1>7. Copied(effect', d, s, n, m + 16, 0) /\ effect'.n = c.n - 16 /\ effect'.at = "words"
    <2>1. Copied(w, d, s, n, m + 16, 0) /\ w.at = "words" BY <1>1, <1>5
    <2> QED BY <1>6, <2>1, Counted
  <1>8. effect'.d = d + (m + 16) /\ effect'.s = s + (m + 16) BY <1>7 DEF Copied
  <1>9. (d + (m + 16)) % 4 = 0 /\ (s + (m + 16)) % 4 = 0
    <2>1. (d + m) % 4 = 0 /\ (s + m) % 4 = 0 BY <1>0, <1>3
    <2> QED BY <1>0, <2>1
  <1>10. Stage(effect', n, m + 16) BY <1>0, <1>1, <1>3, <1>7, <1>8, <1>9 DEF Stage
  <1> QED BY <1>4, <1>7, <1>10

LEMMA WordRestStep ==
  ASSUME CallOk, call.fn = "memcpy", Copying, WordRest
  PROVE  Copying'
  <1> DEFINE d == call.d
             s == call.s
             n == call.n
             c == effect
             i == 2 * Bit(c.n, 8) + Bit(c.n, 4)
             j == 2 * Bit(c.n, 2) + Bit(c.n, 1)
             w == CopyWords(c, i)
             b == CopyBytes(w, j)
  <1>0. PICK m \in Nat : /\ Copied(c, d, s, n, m, 0) /\ Stage(c, n, m)
                         /\ c.d = d + m /\ c.s = s + m /\ c.n \in Nat
                         /\ d \in Nat /\ s \in Nat /\ n \in Nat
    BY Pick
  <1>1. effect' = At(b, "done") /\ c.at = "words" /\ c.n < 16 /\ call' = call
    BY DEF WordRest, At
  <1>2. SUFFICES \E k \in Nat : Copied(effect', d, s, n, k, 0) /\ Stage(effect', n, k)
    BY <1>1 DEF Copying
  <1> HIDE DEF d, s, n, c
  <1>3. m + c.n = n /\ c.d % 4 = 0 /\ (c.n > 0 => c.s % 4 = 0) BY <1>0, <1>1 DEF Stage
  <1>4. i \in Nat /\ j \in Nat /\ 4 * i + j = c.n BY <1>0, <1>1, Binary
  <1> HIDE DEF i, j
  <1> DEFINE e == m + 4 * i
  <1>5. AddsWords(c, e, m, i, n) /\ e \in Nat /\ Adds(n, e, j, n)
    BY <1>0, <1>3, <1>4 DEF Adds, AddsWords
  <1> HIDE DEF e
  <1>6. Copied(w, d, s, n, e, 0) /\ w.n = c.n
    <2>1. Copied(c, d, s, n, m, 0) /\ AddsWords(c, e, m, i, n) BY <1>0, <1>5
    <2> QED BY <2>1, WordsStep
  <1> HIDE DEF w
  <1>7. Copied(b, d, s, n, n, 0) /\ b.n = w.n
    <2>1. Copied(w, d, s, n, e, 0) /\ Adds(n, e, j, n) BY <1>5, <1>6
    <2> QED BY <2>1, BytesStep
  <1> HIDE DEF b
  <1>8. Copied(effect', d, s, n, n, 0) /\ effect'.n = b.n /\ effect'.at = "done"
    <2>1. Copied(b, d, s, n, n, 0) /\ effect' = At(b, "done") BY <1>1, <1>7
    <2> QED BY <2>1, Moved
  <1>9. Stage(effect', n, n) BY <1>0, <1>6, <1>7, <1>8 DEF Stage
  <1> QED BY <1>0, <1>8, <1>9

LEMMA ByteRestStep ==
  ASSUME CallOk, call.fn = "memcpy", Copying, ByteRest
  PROVE  Copying'
  <1> DEFINE d == call.d
             s == call.s
             n == call.n
             c == effect
             j == 16 * Bit(c.n, 16) + 8 * Bit(c.n, 8) + 4 * Bit(c.n, 4) + 2 * Bit(c.n, 2) + Bit(c.n, 1)
             b == CopyBytes(c, j)
  <1>0. PICK m \in Nat : /\ Copied(c, d, s, n, m, 0) /\ Stage(c, n, m)
                         /\ c.d = d + m /\ c.s = s + m /\ c.n \in Nat
                         /\ d \in Nat /\ s \in Nat /\ n \in Nat
    BY Pick
  <1>1. /\ effect' = At(b, "done") /\ call' = call
        /\ c.at = "rest" \/ (c.at = "shift" /\ c.n < 16 + c.k)
    BY DEF ByteRest, At
  <1>2. SUFFICES \E k \in Nat : Copied(effect', d, s, n, k, 0) /\ Stage(effect', n, k)
    BY <1>1 DEF Copying
  <1> HIDE DEF d, s, n, c
  <1>3. m + c.n = n /\ c.n < 32 BY <1>0, <1>1 DEF Stage
  <1>4. j = c.n BY <1>0, <1>3, Binary
  <1> HIDE DEF j
  <1>5. j \in Nat /\ Adds(n, m, j, n) BY <1>0, <1>3, <1>4 DEF Adds
  <1>7. Copied(b, d, s, n, n, 0) /\ b.n = c.n
    <2>1. Copied(c, d, s, n, m, 0) /\ Adds(n, m, j, n) BY <1>0, <1>5
    <2> QED BY <2>1, BytesStep
  <1> HIDE DEF b
  <1>8. Copied(effect', d, s, n, n, 0) /\ effect'.n = b.n /\ effect'.at = "done"
    <2>1. Copied(b, d, s, n, n, 0) /\ effect' = At(b, "done") BY <1>1, <1>7
    <2> QED BY <2>1, Moved
  <1>9. Stage(effect', n, n) BY <1>0, <1>7, <1>8 DEF Stage
  <1> QED BY <1>0, <1>8, <1>9

LEMMA ShiftLoopStep ==
  ASSUME CallOk, call.fn = "memcpy", Copying, ShiftLoop
  PROVE  Copying'
  <1> DEFINE d == call.d
             s == call.s
             n == call.n
             c == effect
             k == c.k
             r1 == Round(c, 0)
             r2 == Round(r1, 4)
             r3 == Round(r2, 8)
             r4 == Round(r3, 12)
  <1>0. PICK m \in Nat : /\ Copied(c, d, s, n, m, 0) /\ Stage(c, n, m)
                         /\ c.d = d + m /\ c.s = s + m /\ c.n \in Nat
                         /\ d \in Nat /\ s \in Nat /\ n \in Nat
    BY Pick
  <1>1. /\ effect' = [r4 EXCEPT !.s = @ + 16, !.d = @ + 16, !.n = @ - 16]
        /\ c.at = "shift" /\ c.n >= 16 + k /\ call' = call
    BY DEF ShiftLoop
  <1>2. SUFFICES \E i \in Nat : Copied(effect', d, s, n, i, 0) /\ Stage(effect', n, i)
    BY <1>1 DEF Copying
  <1> HIDE DEF d, s, n, c
  <1>3. /\ m + c.n = n /\ k \in 1 .. 3 /\ c.d % 4 = 0 /\ (c.s + k) % 4 = 0
        /\ c.w = WordAt(c.s + k - 4)
    BY <1>0, <1>1 DEF Stage
  <1>4. Meeting(c, d, s, n, m, k, 0)
    <2>2. c.k = k OBVIOUS
    <2> HIDE DEF k
    <2>1. /\ s + m + k + 0 - 4 = c.s + k - 4 /\ s + m + k + 0 = c.s + k /\ d + m + 0 = c.d
          /\ m + 16 + k <= n
      <3>1. /\ d \in Nat /\ s \in Nat /\ n \in Nat /\ c.n \in Nat /\ k \in 1 .. 3
            /\ c.d = d + m /\ c.s = s + m /\ m + c.n = n /\ c.n >= 16 + k
        BY <1>0, <1>1, <1>3
      <3> QED BY <3>1
    <2> QED BY <1>0, <1>3, <2>1, <2>2 DEF Meeting
  <1> HIDE DEF k
  <1>5. /\ Copied(r1, d, s, n, m, 4) /\ Meeting(r1, d, s, n, m, k, 4)
        /\ r1.n = c.n /\ r1.at = c.at
    <2> DEFINE off == 0
    <2>1. off \in Offsets /\ off + 4 = 4 BY DEF Offsets
    <2>2. Copied(c, d, s, n, m, off) /\ Meeting(c, d, s, n, m, k, off) /\ r1 = Round(c, off)
      BY <1>0, <1>4
    <2> HIDE DEF off, r1
    <2>3. /\ Copied(r1, d, s, n, m, off + 4) /\ Meeting(r1, d, s, n, m, k, off + 4)
          /\ r1.n = c.n /\ r1.at = c.at
      BY <2>1, <2>2, RoundStep
    <2> QED BY <2>1, <2>3
  <1> HIDE DEF r1
  <1>6. /\ Copied(r2, d, s, n, m, 8) /\ Meeting(r2, d, s, n, m, k, 8)
        /\ r2.n = c.n /\ r2.at = c.at
    <2> DEFINE off == 4
    <2>1. off \in Offsets /\ off + 4 = 8 BY DEF Offsets
    <2>2. Copied(r1, d, s, n, m, off) /\ Meeting(r1, d, s, n, m, k, off) /\ r2 = Round(r1, off)
      BY <1>5
    <2> HIDE DEF off, r2
    <2>3. /\ Copied(r2, d, s, n, m, off + 4) /\ Meeting(r2, d, s, n, m, k, off + 4)
          /\ r2.n = r1.n /\ r2.at = r1.at
      BY <2>1, <2>2, RoundStep
    <2> QED BY <2>1, <2>3, <1>5
  <1> HIDE DEF r2
  <1>7. /\ Copied(r3, d, s, n, m, 12) /\ Meeting(r3, d, s, n, m, k, 12)
        /\ r3.n = c.n /\ r3.at = c.at
    <2> DEFINE off == 8
    <2>1. off \in Offsets /\ off + 4 = 12 BY DEF Offsets
    <2>2. Copied(r2, d, s, n, m, off) /\ Meeting(r2, d, s, n, m, k, off) /\ r3 = Round(r2, off)
      BY <1>6
    <2> HIDE DEF off, r3
    <2>3. /\ Copied(r3, d, s, n, m, off + 4) /\ Meeting(r3, d, s, n, m, k, off + 4)
          /\ r3.n = r2.n /\ r3.at = r2.at
      BY <2>1, <2>2, RoundStep
    <2> QED BY <2>1, <2>3, <1>6
  <1> HIDE DEF r3
  <1>8. /\ Copied(r4, d, s, n, m, 16) /\ Meeting(r4, d, s, n, m, k, 16)
        /\ r4.n = c.n /\ r4.at = c.at
    <2> DEFINE off == 12
    <2>1. off \in Offsets /\ off + 4 = 16 BY DEF Offsets
    <2>2. Copied(r3, d, s, n, m, off) /\ Meeting(r3, d, s, n, m, k, off) /\ r4 = Round(r3, off)
      BY <1>7
    <2> HIDE DEF off, r4
    <2>3. /\ Copied(r4, d, s, n, m, off + 4) /\ Meeting(r4, d, s, n, m, k, off + 4)
          /\ r4.n = r3.n /\ r4.at = r3.at
      BY <2>1, <2>2, RoundStep
    <2> QED BY <2>1, <2>3, <1>7
  <1> HIDE DEF r4
  <1> DEFINE e == effect'
  <1>9. /\ e = [at |-> "shift", d |-> d + m + 16, s |-> s + m + 16, n |-> c.n - 16, w |-> r4.w,
                k |-> k, read |-> r4.read, wrote |-> r4.wrote, ok |-> r4.ok]
        /\ r4.w = WordAt(s + m + k + 16 - 4) /\ (s + m + k + 16) % 4 = 0 /\ (d + m + 16) % 4 = 0
        /\ r4.wrote = Image(d, s, m + 16) /\ r4.read \subseteq s .. s + n - 1 /\ r4.ok = TRUE
    <2>1. /\ IsCopy(r4) /\ r4.k = k /\ r4.s = s + m /\ r4.d = d + m /\ r4.n = c.n /\ r4.at = "shift"
      BY <1>1, <1>8 DEF Copied, Meeting
    <2>2. /\ r4.w = WordAt(s + m + k + 16 - 4) /\ (s + m + k + 16) % 4 = 0 /\ (d + m + 16) % 4 = 0
          /\ r4.wrote = Image(d, s, m + 16) /\ r4.read \subseteq s .. s + n - 1 /\ r4.ok = TRUE
      BY <1>8 DEF Copied, Meeting
    <2>3. e = [r4 EXCEPT !.s = s + m + 16, !.d = d + m + 16, !.n = c.n - 16] BY <1>1, <2>1
    <2> HIDE DEF e
    <2> QED BY <2>1, <2>2, <2>3 DEF IsCopy
  <1> HIDE DEF e
  <1> DEFINE i == m + 16
  <1>10. i \in Nat /\ i + 0 = i /\ i <= n /\ c.n - 16 \in Nat /\ i + (c.n - 16) = n /\ 0 \in Nat
         /\ d + m + 16 = d + i /\ s + m + 16 = s + i
         /\ s + m + k + 16 - 4 = s + i + k - 4 /\ s + m + k + 16 = s + i + k
    BY <1>0, <1>1, <1>3
  <1> HIDE DEF i
  <1>11. /\ e.at = "shift" /\ e.d = d + i /\ e.s = s + i /\ e.n = c.n - 16 /\ e.w = r4.w
         /\ e.k = k /\ e.read = r4.read /\ e.wrote = r4.wrote /\ e.ok = r4.ok
    BY <1>9, <1>10
  <1>12. IsCopy(e) BY <1>9 DEF IsCopy
  <1>13. Copied(e, d, s, n, i, 0)
    <2>1. d \in Nat /\ s \in Nat /\ n \in Nat BY <1>0
    <2>2. /\ e.wrote = Image(d, s, i + 0) /\ e.read \subseteq s .. s + n - 1 /\ e.ok = TRUE
      BY <1>9, <1>10, <1>11 DEF i
    <2> QED BY <1>10, <1>11, <1>12, <2>1, <2>2 DEF Copied
  <1>14. Stage(e, n, i) BY <1>3, <1>9, <1>10, <1>11 DEF Stage
  <1> QED BY <1>10, <1>13, <1>14 DEF e
\* The words of memset(): m bytes from s, a multiple of four.
LEMMA Truncated ==
  ASSUME NEW n \in Nat, NEW k \in 0 .. 3, n > 8
  PROVE  LET m == 4 * ((n - k) \div 4)
         IN  m \in Nat /\ m >= 4 /\ m % 4 = 0 /\ k + m <= n /\ n < k + m + 4
  BY Z3

\* Its loop: the double words from k2 on, as far as whole turns go.
LEMMA Turns ==
  ASSUME NEW s \in Nat, NEW m \in Nat, s % 4 = 0, m % 4 = 0, m > 24
  PROVE  LET k2 == 24 + 4 * Bit(s, 4)
             q == (m - k2) \div 32
         IN  /\ k2 \in {24, 28} /\ (s + k2) % 8 = 0 /\ q \in Nat
             /\ k2 + 32 * q <= m /\ m <= k2 + 32 * q + 28
  <1> DEFINE k2 == 24 + 4 * Bit(s, 4)
             q == (m - k2) \div 32
  <1>1. k2 \in {24, 28} /\ (s + k2) % 8 = 0 BY Z3 DEF Bit
  <1>2. m >= 28 BY Z3
  <1> HIDE DEF k2
  <1>3. /\ q \in Nat /\ k2 + 32 * q <= m /\ m <= k2 + 32 * q + 28
    <2>1. CASE k2 = 24 BY <1>2, <2>1, Z3
    <2>2. CASE k2 = 28 BY <1>2, <2>2, Z3
    <2> QED BY <1>1, <2>1, <2>2
  <1> QED BY <1>1, <1>3 DEF k2

\* The turn and the double word that has a byte.
LEMMA InTurn ==
  ASSUME NEW z \in Nat, NEW q \in Nat, z < 32 * q
  PROVE  \E i \in 0 .. q - 1, j \in 0 .. 3 : 32 * i + 8 * j <= z /\ z <= 32 * i + 8 * j + 7
  <1> DEFINE i == z \div 32
             j == (z % 32) \div 8
  <1>1. i \in 0 .. q - 1 BY Z3
  <1>2. j \in 0 .. 3 BY Z3
  <1>3. 32 * i + 8 * j <= z /\ z <= 32 * i + 8 * j + 7 BY Z3
  <1> HIDE DEF i, j
  <1> QED BY <1>1, <1>2, <1>3

\* What the bytes leave out is further than four bytes from both ends.
LEMMA Ends ==
  ASSUME NEW d \in Nat, NEW n \in Nat
  PROVE  /\ ByteStores(d, n) \subseteq d .. d + n - 1
         /\ \A x \in d .. d + n - 1 : x \notin ByteStores(d, n) =>
              n > 8 /\ x >= d + 4 /\ x < d + n - 4
  BY DEF ByteStores

\* The words are aligned and within the m bytes, and have the first and last 28 of them.
LEMMA WordPart ==
  ASSUME NEW s \in Nat, NEW m \in Nat, s % 4 = 0, m % 4 = 0, m >= 4
  PROVE  /\ \A a \in WordStores(s, m) : a \in Int /\ a % 4 = 0 /\ s <= a /\ a + 4 <= s + m
         /\ \A x \in s .. s + m - 1 : \/ \E a \in WordStores(s, m) : x \in a .. a + 3
                                      \/ m > 24 /\ x >= s + 28 /\ x < s + m - 28
  <1> DEFINE A == {s, s + m - 4}
             B == {s + 4, s + 8, s + m - 12, s + m - 8}
             C == {s + 12, s + 16, s + 20, s + 24, s + m - 28, s + m - 24, s + m - 20, s + m - 16}
             W == WordStores(s, m)
  <1>1. (m > 8 => m >= 12) /\ (m > 24 => m >= 28) OBVIOUS
  <1>2. ASSUME NEW a \in W PROVE a \in A \/ (m > 8 /\ a \in B) \/ (m > 24 /\ a \in C)
    BY DEF WordStores
  <1>3. A \subseteq W /\ (m > 8 => B \subseteq W) /\ (m > 24 => C \subseteq W) BY DEF WordStores
  <1> HIDE DEF W
  <1>4. ASSUME NEW a \in W PROVE a \in Int /\ a % 4 = 0 /\ s <= a /\ a + 4 <= s + m
    <2>1. CASE a \in A BY <2>1
    <2>2. CASE m > 8 /\ a \in B BY <1>1, <2>2
    <2>3. CASE m > 24 /\ a \in C BY <1>1, <2>3
    <2> QED BY <1>2, <2>1, <2>2, <2>3
  <1>5. ASSUME NEW x \in s .. s + m - 1, ~(m > 24 /\ x >= s + 28 /\ x < s + m - 28)
        PROVE  \E a \in W : x \in a .. a + 3
    <2>1. CASE x < s + 4 \/ x >= s + m - 4
      <3>1. \E a \in A : x \in a .. a + 3 BY <2>1
      <3> QED BY <1>3, <3>1
    <2>2. CASE ~(x < s + 4 \/ x >= s + m - 4) /\ (x < s + 12 \/ x >= s + m - 12)
      <3>1. m > 8 BY <2>2
      <3>2. \E a \in B : x \in a .. a + 3 BY <2>2
      <3> QED BY <1>3, <3>1, <3>2
    <2>3. CASE ~(x < s + 12 \/ x >= s + m - 12)
      <3>1. m > 24 BY <2>3
      <3>2. x < s + 28 \/ x >= s + m - 28 BY <1>5, <3>1
      <3>3. \E a \in C : x \in a .. a + 3 BY <2>3, <3>2
      <3> QED BY <1>3, <3>1, <3>3
    <2> QED BY <2>1, <2>2, <2>3
  <1> QED BY <1>4, <1>5 DEF W

\* So are the double words, and they have what the words leave out.
LEMMA DoublePart ==
  ASSUME NEW s \in Nat, NEW m \in Nat, s % 4 = 0, m % 4 = 0, m > 24
  PROVE  /\ \A a \in DoubleStores(s, m) : a \in Int /\ a % 8 = 0 /\ s <= a /\ a + 8 <= s + m
         /\ \A x \in s + 28 .. s + m - 29 : \E a \in DoubleStores(s, m) : x \in a .. a + 7
  <1> DEFINE k == 24 + 4 * Bit(s, 4)
             q == (m - k) \div 32
             S == {s + k + 32 * i + 8 * j : i \in 0 .. q - 1, j \in 0 .. 3}
  <1>1. DoubleStores(s, m) = S BY DEF DoubleStores
  <1>2. /\ k \in {24, 28} /\ (s + k) % 8 = 0 /\ q \in Nat
        /\ k + 32 * q <= m /\ m <= k + 32 * q + 28
    BY Turns
  <1> HIDE DEF k, q
  <1>3. ASSUME NEW a \in S PROVE a \in Int /\ a % 8 = 0 /\ s <= a /\ a + 8 <= s + m
    <2>1. PICK i \in 0 .. q - 1, j \in 0 .. 3 : a = s + k + 32 * i + 8 * j OBVIOUS
    <2> DEFINE b == s + k
    <2>2. /\ i \in Nat /\ j \in Nat /\ i + 1 <= q /\ j <= 3
          /\ b % 8 = 0 /\ b \in Nat /\ a = b + 32 * i + 8 * j /\ s <= b /\ b + 32 * q <= s + m
      BY <1>2, <2>1
    <2> HIDE DEF b, S
    <2>3. (b + 32 * i + 8 * j) % 8 = 0 BY <2>2, Z3
    <2>4. a \in Int /\ s <= a /\ a + 8 <= s + m BY <1>2, <2>2
    <2> QED BY <2>2, <2>3, <2>4
  <1>4. ASSUME NEW x \in s + 28 .. s + m - 29 PROVE \E a \in S : x \in a .. a + 7
    <2> DEFINE z == x - s - k
    <2>1. z \in Nat /\ z < 32 * q /\ x = s + k + z BY <1>2
    <2> HIDE DEF z
    <2>2. PICK i \in 0 .. q - 1, j \in 0 .. 3 : 32 * i + 8 * j <= z /\ z <= 32 * i + 8 * j + 7
      BY <1>2, <2>1, InTurn
    <2> DEFINE a == s + k + 32 * i + 8 * j
    <2>3. a \in S OBVIOUS
    <2>4. a \in Int /\ x \in a .. a + 7 BY <1>2, <2>1, <2>2
    <2> HIDE DEF S, a
    <2> QED BY <2>3, <2>4
  <1> HIDE DEF S
  <1> QED BY <1>1, <1>3, <1>4

\* memset() fills its area, with aligned words, and nothing else.
LEMMA SetFills ==
  ASSUME NEW d \in Nat, NEW n \in Nat
  PROVE  memset(d, n).at = "done" /\ memset(d, n).ok = TRUE /\ memset(d, n).wrote = d .. d + n - 1
  <1> DEFINE k == ToWord(d)
             s == d + k
             m == 4 * ((n - k) \div 4)
             words == {a \in WordStores(s, m) : n > 8}
             doubles == {a \in DoubleStores(s, m) : n > 8 /\ m > 24}
             wrote == ByteStores(d, n) \cup Fill(4, words) \cup Fill(8, doubles)
             ok == (\A a \in words : a % 4 = 0) /\ (\A a \in doubles : a % 8 = 0)
  <1>1. memset(d, n) = [at |-> "done", wrote |-> wrote, ok |-> ok] BY DEF memset
  <1>2. k \in 0 .. 3 /\ s = d + k /\ s \in Nat /\ s % 4 = 0
    <2>1. k \in 0 .. 3 /\ (d + k) % 4 = 0 BY Aligning
    <2> HIDE DEF k
    <2> QED BY <2>1
  <1>3. n > 8 => m \in Nat /\ m >= 4 /\ m % 4 = 0 /\ k + m <= n /\ n < k + m + 4
    <2> HIDE DEF k
    <2> QED BY <1>2, Truncated
  <1> HIDE DEF k, s, m
  <1>4. \A x : x \in Fill(4, words) <=> n > 8 /\ \E a \in WordStores(s, m) : x \in a .. a + 3
    BY DEF Fill
  <1>5. \A x : x \in Fill(8, doubles) <=>
                 n > 8 /\ m > 24 /\ \E a \in DoubleStores(s, m) : x \in a .. a + 7
    BY DEF Fill
  <1>6. ASSUME n > 8, NEW a \in WordStores(s, m)
        PROVE  a \in Int /\ a % 4 = 0 /\ s <= a /\ a + 4 <= s + m
    BY <1>2, <1>3, <1>6, WordPart
  <1>7. ASSUME n > 8, m > 24, NEW a \in DoubleStores(s, m)
        PROVE  a \in Int /\ a % 8 = 0 /\ s <= a /\ a + 8 <= s + m
    BY <1>2, <1>3, <1>7, DoublePart
  <1>8. ok = TRUE BY <1>6, <1>7
  <1>9. ASSUME NEW x \in wrote PROVE x \in d .. d + n - 1
    <2> HIDE DEF words, doubles
    <2>1. CASE x \in ByteStores(d, n) BY <2>1, Ends
    <2>2. CASE x \in Fill(4, words)
      <3>1. PICK a \in WordStores(s, m) : x \in a .. a + 3 /\ n > 8 BY <1>4, <2>2
      <3>2. a \in Int /\ s <= a /\ a + 4 <= s + m BY <1>6, <3>1
      <3>3. s = d + k /\ k \in 0 .. 3 /\ m \in Nat /\ k + m <= n BY <1>2, <1>3, <3>1
      <3> QED BY <3>1, <3>2, <3>3
    <2>3. CASE x \in Fill(8, doubles)
      <3>1. PICK a \in DoubleStores(s, m) : x \in a .. a + 7 /\ n > 8 /\ m > 24 BY <1>5, <2>3
      <3>2. a \in Int /\ s <= a /\ a + 8 <= s + m BY <1>7, <3>1
      <3>3. s = d + k /\ k \in 0 .. 3 /\ m \in Nat /\ k + m <= n BY <1>2, <1>3, <3>1
      <3> QED BY <3>1, <3>2, <3>3
    <2> QED BY <2>1, <2>2, <2>3
  <1>10. ASSUME NEW x \in d .. d + n - 1, x \notin ByteStores(d, n) PROVE x \in wrote
    <2>1. n > 8 /\ x >= d + 4 /\ x < d + n - 4 BY <1>10, Ends
    <2>2. x \in s .. s + m - 1 /\ m \in Nat /\ m >= 4 /\ m % 4 = 0
      <3>1. s = d + k /\ k \in 0 .. 3 /\ m \in Nat /\ n < k + m + 4 /\ m >= 4 /\ m % 4 = 0
        BY <1>2, <1>3, <2>1
      <3> QED BY <2>1, <3>1
    <2> HIDE DEF words, doubles
    <2>3. CASE \E a \in WordStores(s, m) : x \in a .. a + 3 BY <1>4, <2>1, <2>3
    <2>4. CASE m > 24 /\ x >= s + 28 /\ x < s + m - 28
      <3>1. x \in s + 28 .. s + m - 29 BY <1>2, <2>2, <2>4
      <3>2. \E a \in DoubleStores(s, m) : x \in a .. a + 7 BY <1>2, <2>2, <2>4, <3>1, DoublePart
      <3> QED BY <1>5, <2>1, <2>4, <3>2
    <2> QED BY <1>2, <2>2, <2>3, <2>4, WordPart
  <1>11. wrote = d .. d + n - 1
    <2>1. ByteStores(d, n) \subseteq wrote OBVIOUS
    <2> HIDE DEF wrote
    <2> QED BY <1>9, <1>10, <2>1
  <1> HIDE DEF wrote, ok
  <1> QED BY <1>1, <1>8, <1>11

LEMMA CopyStart == mInit => CopyInv
  <1> SUFFICES ASSUME mInit PROVE CopyInv OBVIOUS
  <1>1. effect.at = "call" BY DEF mInit
  <1>2. CallOk
    <2>1. CASE call \in [fn : {"memcpy"}, d : Dest .. Dest + 3, s : Source .. Source + 3, n : 0 .. MaxLen]
      BY <2>1, MemLibAssumption DEF CallOk
    <2>2. CASE call \in [fn : {"memset"}, d : Dest .. Dest + 7, n : 0 .. MaxLen]
      BY <2>2, MemLibAssumption DEF CallOk
    <2> QED BY <2>1, <2>2 DEF mInit
  <1> QED BY <1>1, <1>2 DEF CopyInv

LEMMA CopyKept == CopyInv /\ [mNext]_mVars => CopyInv'
  <1> SUFFICES ASSUME CopyInv, [mNext]_mVars PROVE CopyInv' OBVIOUS
  <1>0. CallOk BY DEF CopyInv
  <1>1. call' = call
    BY DEF mNext, mVars, memcpy, WordLoop, WordRest, ShiftLoop, ByteRest, Set
  <1>2. CallOk' BY <1>0, <1>1 DEF CallOk
  <1>3. ASSUME effect.at # "call", call.fn # "memcpy" PROVE effect.at = "done"
    <2>1. effect = memset(call.d, call.n) /\ call.d \in Nat /\ call.n \in Nat BY <1>3 DEF CopyInv, CallOk
    <2> QED BY <2>1, SetFills
  <1>4. ASSUME effect.at \in {"words", "shift", "rest"} PROVE call.fn = "memcpy" /\ Copying
    <2>1. call.fn = "memcpy" BY <1>3, <1>4
    <2> QED BY <1>4, <2>1 DEF CopyInv
  <1>5. CASE memcpy
    <2>1. Copying' /\ call.fn = "memcpy" BY <1>0, <1>5, StartCopy DEF memcpy
    <2> QED BY <1>1, <1>2, <2>1 DEF CopyInv
  <1>6. CASE WordLoop
    <2>1. call.fn = "memcpy" /\ Copying BY <1>4, <1>6 DEF WordLoop
    <2>2. Copying' BY <1>0, <1>6, <2>1, WordLoopStep
    <2> QED BY <1>1, <1>2, <2>1, <2>2 DEF CopyInv
  <1>7. CASE WordRest
    <2>1. call.fn = "memcpy" /\ Copying BY <1>4, <1>7 DEF WordRest
    <2>2. Copying' BY <1>0, <1>7, <2>1, WordRestStep
    <2> QED BY <1>1, <1>2, <2>1, <2>2 DEF CopyInv
  <1>8. CASE ShiftLoop
    <2>1. call.fn = "memcpy" /\ Copying BY <1>4, <1>8 DEF ShiftLoop
    <2>2. Copying' BY <1>0, <1>8, <2>1, ShiftLoopStep
    <2> QED BY <1>1, <1>2, <2>1, <2>2 DEF CopyInv
  <1>9. CASE ByteRest
    <2>1. call.fn = "memcpy" /\ Copying BY <1>4, <1>9 DEF ByteRest
    <2>2. Copying' BY <1>0, <1>9, <2>1, ByteRestStep
    <2> QED BY <1>1, <1>2, <2>1, <2>2 DEF CopyInv
  <1>10. CASE Set
    <2>1. effect' = memset(call.d, call.n) /\ call.fn = "memset" BY <1>10 DEF Set
    <2> QED BY <1>1, <1>2, <2>1 DEF CopyInv
  <1>11. CASE UNCHANGED mVars
    <2>1. effect' = effect BY <1>11 DEF mVars
    <2>2. Copying => Copying' BY <1>1, <2>1 DEF Copying
    <2> QED BY <1>1, <1>2, <2>1, <2>2 DEF CopyInv
  <1> QED BY <1>5, <1>6, <1>7, <1>8, <1>9, <1>10, <1>11 DEF mNext

\* For any two areas, every alignment of their ends and every length, memcpy() gives
\* each byte of the destination its own byte of the source, writes and reads nothing
\* outside, and memset() fills exactly its area; all their words are aligned.
THEOREM CopiesAreExact == mInit /\ [][mNext]_mVars => []FillsExactly
  <1>1. CopyInv => FillsExactly
    <2> SUFFICES ASSUME CopyInv, effect.at = "done"
                 PROVE  /\ effect.ok
                        /\ call.fn = "memcpy" =>
                             /\ DOMAIN effect.wrote = call.d .. call.d + call.n - 1
                             /\ \A a \in DOMAIN effect.wrote : effect.wrote[a] = a - call.d + call.s
                             /\ effect.read \subseteq call.s .. call.s + call.n - 1
                        /\ call.fn = "memset" => effect.wrote = call.d .. call.d + call.n - 1
      BY DEF FillsExactly
    <2>1. CallOk BY DEF CopyInv
    <2>2. CASE call.fn = "memcpy" /\ Copying
      <3>1. PICK m \in Nat : Copied(effect, call.d, call.s, call.n, m, 0) /\ Stage(effect, call.n, m)
        BY <2>2 DEF Copying
      <3>2. m = call.n BY <3>1 DEF Stage
      <3>3. /\ effect.ok = TRUE /\ effect.read \subseteq call.s .. call.s + call.n - 1
            /\ effect.wrote = Image(call.d, call.s, call.n)
        <4>1. Copied(effect, call.d, call.s, call.n, call.n, 0) BY <3>1, <3>2
        <4>2. call.n + 0 = call.n BY <4>1 DEF Copied
        <4> QED BY <4>1, <4>2 DEF Copied
      <3>4. /\ DOMAIN Image(call.d, call.s, call.n) = call.d .. call.d + call.n - 1
            /\ \A a \in call.d .. call.d + call.n - 1 :
                 Image(call.d, call.s, call.n)[a] = a - call.d + call.s
        BY DEF Image
      <3> QED BY <2>2, <3>3, <3>4
    <2>3. CASE call.fn = "memset" /\ effect = memset(call.d, call.n)
      <3>1. call.d \in Nat /\ call.n \in Nat BY <2>1 DEF CallOk
      <3> QED BY <2>3, <3>1, SetFills
    <2> QED BY <2>2, <2>3 DEF CopyInv
  <1>2. CopyInv /\ [mNext]_mVars => CopyInv' BY CopyKept
  <1> QED BY <1>1, <1>2, CopyStart, PTL
=============================================================================
