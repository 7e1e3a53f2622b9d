--------------------------- MODULE ThreadsProofs ----------------------------
(***************************************************************************)
(* Proofs about Threads, for tables of any size and any thread numbers:    *)
(* thread_map stays sorted and complete, bisection finds every thread, the *)
(* sharers of an address space are counted, and the links stay a tree that *)
(* thread_select() walks through completely, as long as the callers are    *)
(* disciplined.                                                            *)
(***************************************************************************)
EXTENDS Threads, ThreadTreeProofs, FiniteSetTheorems

-----------------------------------------------------------------------------
(* thread_map_search()                                                     *)

Ranges == Places \X Places

\* One iteration of the loop, given what the rest of it returns.
Body(g, id, r) ==
  LET from == r[1]
      to == r[2]
      mid == from + (to - from) \div 2
  IN  IF to - from <= 1 THEN to
      ELSE IF TidAt(mid) > id THEN g[<<from, mid>>]
      ELSE IF TidAt(mid) < id THEN g[<<mid, to>>]
      ELSE mid

LEMMA MidFacts ==
  ASSUME NEW from \in Places, NEW to \in Places, to - from > 1
  PROVE  LET mid == from + (to - from) \div 2
         IN  mid \in Places /\ from < mid /\ mid < to
  BY TableAssumption DEF Places

\* Two functions that agree on the shorter ranges do the same in an iteration.
LEMMA BodyLocal ==
  ASSUME NEW id, NEW from \in Places, NEW to \in Places, NEW g, NEW h,
         \A x, y \in Places : y - x < to - from => g[<<x, y>>] = h[<<x, y>>]
  PROVE  Body(g, id, <<from, to>>) = Body(h, id, <<from, to>>)
  <1> DEFINE mid == from + (to - from) \div 2
  <1>1. CASE to - from <= 1 BY <1>1 DEF Body
  <1>2. CASE ~(to - from <= 1)
    <2>1. to - from > 1 BY <1>2, TableAssumption DEF Places
    <2>2. mid \in Places /\ from < mid /\ mid < to BY <2>1, MidFacts
    <2> HIDE DEF mid
    <2>3. mid - from < to - from /\ to - mid < to - from BY <2>2, TableAssumption DEF Places
    <2>4. g[<<from, mid>>] = h[<<from, mid>>] /\ g[<<mid, to>>] = h[<<mid, to>>] BY <2>2, <2>3
    <2>5. /\ Body(g, id, <<from, to>>) =
               IF TidAt(mid) > id THEN g[<<from, mid>>] ELSE IF TidAt(mid) < id THEN g[<<mid, to>>] ELSE mid
          /\ Body(h, id, <<from, to>>) =
               IF TidAt(mid) > id THEN h[<<from, mid>>] ELSE IF TidAt(mid) < id THEN h[<<mid, to>>] ELSE mid
      BY <1>2, Zenon DEF Body, mid
    <2> QED BY <2>4, <2>5
  <1> QED BY <1>1, <1>2

\* The loop ends: there is a function that satisfies the recursive definition.
LEMMA BisectExists ==
  ASSUME NEW id
  PROVE  \E g : g = [r \in Ranges |-> Body(g, id, r)]
  <1> DEFINE Solves(g, n) == /\ DOMAIN g = Ranges /\ g = [r \in Ranges |-> g[r]]
                             /\ \A x, y \in Places : y - x <= n =>
                                  g[<<x, y>>] = Body(g, id, <<x, y>>)
             S == {n \in Nat : \E g : Solves(g, n)}
  <1>0. MaxThreads \in Nat BY TableAssumption
  <1>1. 0 \in S
    <2> DEFINE g == [r \in Ranges |-> r[2]]
    <2>1. \A x, y \in Places : y - x <= 0 => g[<<x, y>>] = Body(g, id, <<x, y>>)
      BY <1>0 DEF Body, Ranges, Places
    <2>2. Solves(g, 0) BY <2>1
    <2> QED BY <2>2
  <1>2. ASSUME NEW n \in 0..(MaxThreads - 1), n \in S PROVE n + 1 \in S
    <2>1. PICK g : Solves(g, n) BY <1>2
    <2> DEFINE h == [r \in Ranges |-> IF r[2] - r[1] <= n THEN g[r] ELSE Body(g, id, r)]
    <2>2. \A x, y \in Places : y - x <= n => h[<<x, y>>] = g[<<x, y>>]
      BY DEF Ranges
    <2>3. \A x, y \in Places : y - x <= n + 1 => h[<<x, y>>] = Body(g, id, <<x, y>>)
      BY <2>1 DEF Ranges
    <2>4. ASSUME NEW x \in Places, NEW y \in Places, y - x <= n + 1
          PROVE  Body(h, id, <<x, y>>) = Body(g, id, <<x, y>>)
      <3>1. \A u, v \in Places : v - u < y - x => v - u <= n
        BY <2>4, <1>0 DEF Places
      <3> HIDE DEF h, Solves
      <3>2. \A u, v \in Places : v - u < y - x => h[<<u, v>>] = g[<<u, v>>]
        BY <3>1, <2>2
      <3> QED BY <3>2, BodyLocal
    <2>5. Solves(h, n + 1)
      <3>1. DOMAIN h = Ranges /\ h = [r \in Ranges |-> h[r]] OBVIOUS
      <3> HIDE DEF h
      <3> QED BY <3>1, <2>3, <2>4
    <2>6. n + 1 \in Nat OBVIOUS
    <2> HIDE DEF Solves, h
    <2> QED BY <2>5, <2>6
  <1>3. MaxThreads \in S
    <2> HIDE DEF S
    <2>1. \A i \in 0..MaxThreads : i \in S BY <1>0, <1>1, <1>2, UpTo
    <2> QED BY <1>0, <2>1
  <1>4. PICK g : Solves(g, MaxThreads) BY <1>3
  <1>5. \A x, y \in Places : y - x <= MaxThreads BY <1>0 DEF Places
  <1>6. \A x, y \in Places : g[<<x, y>>] = Body(g, id, <<x, y>>) BY <1>4, <1>5
  <1>7. \A r \in Ranges : g[r] = Body(g, id, r)
    <2> TAKE r \in Ranges
    <2>1. PICK x \in Places, y \in Places : r = <<x, y>> BY DEF Ranges
    <2> QED BY <2>1, <1>6
  <1>8. g = [r \in Ranges |-> Body(g, id, r)]
    <2>1. g = [r \in Ranges |-> g[r]] BY <1>4
    <2> QED BY <2>1, <1>7, Zenon
  <1> QED BY <1>8

LEMMA BisectUnfolds ==
  ASSUME NEW id, NEW from \in Places, NEW to \in Places
  PROVE  Bisect(id)[<<from, to>>] = Body(Bisect(id), id, <<from, to>>)
  <1>1. Bisect(id) = [r \in Ranges |-> Body(Bisect(id), id, r)]
    BY BisectExists, Zenon DEF Bisect, Body, Ranges
  <1> QED BY <1>1 DEF Ranges

-----------------------------------------------------------------------------
(* The map                                                                 *)

\* thread_map has the TCBs in use in the order of their ids, each once, and
\* the ids of the kernel's own threads are below those of the users.
MapInv ==
  /\ used \in SUBSET Tcbs /\ {Idle, Root, Kernel} \subseteq used
  /\ tid \in [Tcbs -> Nat]
  /\ tid[Idle] = IdleTid /\ tid[Kernel] = KernelTid /\ tid[Root] = RootTid
  /\ \A t \in Users : tid[t] \in UserTids
  /\ map \in [Places -> Link]
  /\ count \in Places /\ count = Cardinality(used)
  /\ \A i, j \in 0..(count - 1) : i < j => TidAt(i) < TidAt(j)
  /\ \A i \in 0..(count - 1) : map[i] \in used
  /\ \A t \in used : \E i \in 0..(count - 1) : map[i] = t

\* r is the first place whose id is not below id, or the one behind the last.
FirstNotBelow(r, id) ==
  /\ r \in 0..count
  /\ \A j \in 0..(r - 1) : TidAt(j) < id
  /\ \A j \in r..(count - 1) : TidAt(j) >= id

LEMMA TidAtNat ==
  ASSUME MapInv, NEW i \in 0..(count - 1)
  PROVE  TidAt(i) \in Nat /\ i \in Places
  <1>1. map[i] \in Tcbs BY DEF MapInv
  <1>2. tid[map[i]] \in Nat BY <1>1 DEF MapInv
  <1>3. i \in Places BY TableAssumption DEF MapInv, Places
  <1> QED BY <1>2, <1>3 DEF TidAt

\* The loop keeps the place that is looked for between from and to.
LEMMA BisectFinds ==
  ASSUME MapInv, NEW id \in Nat, NEW from \in Places, NEW to \in Places,
         from < to, to <= count, TidAt(from) < id, to < count => TidAt(to) > id
  PROVE  FirstNotBelow(Bisect(id)[<<from, to>>], id)
  <1> DEFINE Good(x, y) == x < y /\ y <= count /\ TidAt(x) < id /\ (y < count => TidAt(y) > id)
             S == {n \in Nat : \A x, y \in Places :
                     y - x <= n /\ Good(x, y) => FirstNotBelow(Bisect(id)[<<x, y>>], id)}
  <1>0. MaxThreads \in Nat /\ count \in Places BY TableAssumption DEF MapInv
  <1>1. 0 \in S BY <1>0 DEF Places
  <1>2. ASSUME NEW n \in 0..(MaxThreads - 1), n \in S PROVE n + 1 \in S
    <2> SUFFICES ASSUME NEW x \in Places, NEW y \in Places, y - x <= n + 1, Good(x, y)
                 PROVE  FirstNotBelow(Bisect(id)[<<x, y>>], id)
      OBVIOUS
    <2> DEFINE mid == x + (y - x) \div 2
               b == Bisect(id)
    <2>0. x \in Nat /\ y \in Nat /\ count \in Nat BY <1>0 DEF Places
    <2>1. b[<<x, y>>] = Body(b, id, <<x, y>>) BY BisectUnfolds
    <2>2. CASE y - x <= 1
      <3>1. b[<<x, y>>] = y BY <2>1, <2>2 DEF Body
      <3>2. y = x + 1 BY <2>0, <2>2
      <3>3. \A j \in 0..(y - 1) : TidAt(j) < id
        <4> TAKE j \in 0..(y - 1)
        <4>1. CASE j = x BY <4>1
        <4>2. CASE j # x
          <5>1. j < x /\ j \in 0..(count - 1) /\ x \in 0..(count - 1) BY <2>0, <3>2, <4>2
          <5>2. TidAt(j) < TidAt(x) BY <5>1 DEF MapInv
          <5>3. TidAt(j) \in Nat /\ TidAt(x) \in Nat BY <5>1, TidAtNat
          <5> QED BY <5>2, <5>3
        <4> QED BY <4>1, <4>2
      <3>4. \A j \in y..(count - 1) : TidAt(j) >= id
        <4> TAKE j \in y..(count - 1)
        <4>1. j \in 0..(count - 1) /\ y \in 0..(count - 1) /\ y < count BY <2>0
        <4>2. TidAt(j) \in Nat /\ TidAt(y) \in Nat BY <4>1, TidAtNat
        <4>3. TidAt(y) > id BY <4>1
        <4>4. CASE j = y BY <4>2, <4>3, <4>4
        <4>5. CASE j # y
          <5>1. y < j BY <2>0, <4>5
          <5>2. TidAt(y) < TidAt(j) BY <4>1, <5>1 DEF MapInv
          <5> QED BY <4>2, <4>3, <5>2
        <4> QED BY <4>4, <4>5
      <3> QED BY <2>0, <3>1, <3>3, <3>4 DEF FirstNotBelow
    <2>3. CASE ~(y - x <= 1)
      <3>1. y - x > 1 BY <2>0, <2>3
      <3>2. mid \in Places /\ x < mid /\ mid < y BY <3>1, MidFacts
      <3>3. b[<<x, y>>] = IF TidAt(mid) > id THEN b[<<x, mid>>]
                          ELSE IF TidAt(mid) < id THEN b[<<mid, y>>] ELSE mid
        BY <2>1, <2>3, Zenon DEF Body
      <3> HIDE DEF mid, b
      <3>4. mid \in Nat /\ mid \in 0..(count - 1) BY <1>0, <2>0, <3>2 DEF Places
      <3>5. TidAt(mid) \in Nat BY <3>4, TidAtNat
      <3>6. mid - x <= n /\ y - mid <= n BY <2>0, <3>2, <3>4
      <3>7. CASE TidAt(mid) > id
        <4>1. Good(x, mid) BY <2>0, <3>2, <3>4, <3>7
        <4>2. FirstNotBelow(b[<<x, mid>>], id) BY <1>2, <3>2, <3>6, <4>1 DEF b
        <4> QED BY <3>3, <3>7, <4>2 DEF b
      <3>8. CASE TidAt(mid) < id
        <4>1. Good(mid, y) BY <2>0, <3>2, <3>4, <3>8
        <4>2. FirstNotBelow(b[<<mid, y>>], id) BY <1>2, <3>2, <3>6, <4>1 DEF b
        <4>3. ~(TidAt(mid) > id) BY <3>5, <3>8
        <4> QED BY <3>3, <3>8, <4>2, <4>3 DEF b
      <3>9. CASE TidAt(mid) = id
        <4>1. b[<<x, y>>] = mid BY <3>3, <3>5, <3>9
        <4>2. \A j \in 0..(mid - 1) : TidAt(j) < id
          <5> TAKE j \in 0..(mid - 1)
          <5>1. j < mid /\ j \in 0..(count - 1) BY <2>0, <3>4
          <5> QED BY <3>4, <3>9, <5>1 DEF MapInv
        <4>3. \A j \in mid..(count - 1) : TidAt(j) >= id
          <5> TAKE j \in mid..(count - 1)
          <5>1. j \in 0..(count - 1) BY <2>0, <3>4
          <5>2. TidAt(j) \in Nat BY <5>1, TidAtNat
          <5>3. CASE j = mid BY <3>9, <5>3
          <5>4. CASE j # mid
            <6>1. mid < j BY <2>0, <3>4, <5>4
            <6>2. TidAt(mid) < TidAt(j) BY <3>4, <5>1, <6>1 DEF MapInv
            <6> QED BY <3>9, <5>2, <6>2
          <5> QED BY <5>3, <5>4
        <4> QED BY <2>0, <3>4, <4>1, <4>2, <4>3 DEF FirstNotBelow, b
      <3> QED BY <3>5, <3>7, <3>8, <3>9
    <2> QED BY <2>2, <2>3
  <1>3. MaxThreads \in S
    <2> HIDE DEF S
    <2>1. \A i \in 0..MaxThreads : i \in S BY <1>0, <1>1, <1>2, UpTo
    <2> QED BY <1>0, <2>1
  <1>4. to - from <= MaxThreads BY <1>0 DEF Places
  <1> QED BY <1>3, <1>4

\* thread_map_search() returns the place where id is or belongs.
LEMMA SearchFinds ==
  ASSUME MapInv, NEW id \in Nat
  PROVE  FirstNotBelow(ThreadMapSearch(id), id)
  <1>0. count \in Nat /\ count \in Places /\ 0 \in Places BY TableAssumption DEF MapInv, Places
  <1>1. count # 0
    <2>1. PICK i \in 0..(count - 1) : map[i] = Idle BY DEF MapInv
    <2> QED BY <1>0, <2>1
  <1>2. TidAt(0) \in Nat /\ 0 \in 0..(count - 1) BY <1>0, <1>1, TidAtNat
  <1>3. CASE TidAt(0) >= id
    <2>1. ThreadMapSearch(id) = 0 BY <1>3 DEF ThreadMapSearch
    <2>2. \A j \in 0..(count - 1) : TidAt(j) >= id
      <3> TAKE j \in 0..(count - 1)
      <3>1. CASE j = 0 BY <1>3, <3>1
      <3>2. CASE j # 0
        <4>1. TidAt(0) < TidAt(j) BY <1>0, <1>2, <3>2 DEF MapInv
        <4>2. TidAt(j) \in Nat BY TidAtNat
        <4> QED BY <1>2, <1>3, <4>1, <4>2
      <3> QED BY <3>1, <3>2
    <2> QED BY <1>0, <2>1, <2>2 DEF FirstNotBelow
  <1>4. CASE TidAt(0) < id
    <2>1. ThreadMapSearch(id) = Bisect(id)[<<0, count>>] BY <1>1, <1>2, <1>4 DEF ThreadMapSearch
    <2>2. FirstNotBelow(Bisect(id)[<<0, count>>], id) BY <1>0, <1>1, <1>4, BisectFinds
    <2> QED BY <2>1, <2>2
  <1> QED BY <1>2, <1>3, <1>4

\* A thread in use is found at its place.
LEMMA SearchFindsThread ==
  ASSUME MapInv, NEW t \in used
  PROVE  LET i == ThreadMapSearch(tid[t])
         IN  i \in 0..(count - 1) /\ map[i] = t
  <1> DEFINE i == ThreadMapSearch(tid[t])
  <1>0. count \in Nat BY TableAssumption DEF MapInv, Places
  <1>1. tid[t] \in Nat BY DEF MapInv
  <1>2. FirstNotBelow(i, tid[t]) BY <1>1, SearchFinds
  <1>3. PICK p \in 0..(count - 1) : map[p] = t BY DEF MapInv
  <1>4. TidAt(p) = tid[t] BY <1>3 DEF TidAt
  <1> HIDE DEF i
  <1>5. i \in 0..count /\ \A j \in 0..(i - 1) : TidAt(j) < tid[t] BY <1>2 DEF FirstNotBelow
  <1>6. ~(p < i) BY <1>0, <1>1, <1>4, <1>5
  <1>7. i \in 0..(count - 1) /\ i <= p BY <1>0, <1>5, <1>6
  <1>8. TidAt(i) >= tid[t] /\ TidAt(i) \in Nat BY <1>0, <1>2, <1>7, TidAtNat DEF FirstNotBelow
  <1>9. ~(i < p)
    <2>1. i < p => TidAt(i) < TidAt(p) BY <1>7 DEF MapInv
    <2> QED BY <1>1, <1>4, <1>8, <2>1
  <1>10. i = p BY <1>0, <1>7, <1>9
  <1> QED BY <1>3, <1>7, <1>10 DEF i

LEMMA ByGlobalidFinds ==
  ASSUME MapInv, NEW t \in used
  PROVE  ThreadByGlobalid(tid[t]) = t
  <1>1. map[ThreadMapSearch(tid[t])] = t BY SearchFindsThread
  <1>2. t # Nil BY TableAssumption DEF MapInv, Tcbs, Nil
  <1> QED BY <1>1, <1>2 DEF ThreadByGlobalid

\* ktable_alloc(): a free entry, when there is one.
LEMMA FirstFreeFacts ==
  ASSUME NEW table \in SUBSET Nat, NEW inUse, table \ inUse # {}
  PROVE  FirstFree(table, inUse) \in table \ inUse
  <1>1. \E m \in table \ inUse : \A n \in table \ inUse : m <= n BY LeastNumber
  <1> QED BY <1>1 DEF FirstFree

LEMMA UsedFinite ==
  ASSUME MapInv
  PROVE  /\ IsFiniteSet(used) /\ IsFiniteSet(Tcbs) /\ Cardinality(Tcbs) = MaxThreads
         /\ count \in Nat /\ count <= MaxThreads /\ count = Cardinality(used)
         /\ used # Tcbs => count < MaxThreads
  <1>1. MaxThreads \in Nat BY TableAssumption
  <1>2. IsFiniteSet(Tcbs) /\ Cardinality(Tcbs) = MaxThreads
    <2>1. Cardinality(1..MaxThreads) = IF 1 > MaxThreads THEN 0 ELSE MaxThreads - 1 + 1
      BY <1>1, FS_Interval
    <2> QED BY <1>1, <2>1, FS_Interval, TableAssumption DEF Tcbs
  <1>3. used \subseteq Tcbs /\ count = Cardinality(used) /\ count \in Places BY DEF MapInv
  <1>4. /\ IsFiniteSet(used) /\ Cardinality(used) <= Cardinality(Tcbs)
        /\ Cardinality(used) = Cardinality(Tcbs) => used = Tcbs
    BY <1>2, <1>3, FS_Subset
  <1> QED BY <1>1, <1>2, <1>3, <1>4 DEF Places

\* thread_map_insert() of a new id keeps the map sorted and complete.
LEMMA InsertStep ==
  ASSUME MapInv, NEW id \in UserTids, ~InUse(id), NEW thr \in Tcbs \ used,
         used' = used \cup {thr}, tid' = [tid EXCEPT ![thr] = id], ThreadMapInsert(id, thr)
  PROVE  MapInv'
  <1> DEFINE i == ThreadMapSearch(id)
             n == count
  <1>0. /\ MaxThreads \in Nat /\ n \in Nat /\ n < MaxThreads /\ n = Cardinality(used)
        /\ IsFiniteSet(used) /\ id \in Nat /\ id > RootTid
        /\ used \in SUBSET Tcbs /\ {Idle, Root, Kernel} \subseteq used
    <2>1. used # Tcbs OBVIOUS
    <2> QED BY <2>1, UsedFinite, TableAssumption, ThreadsAssumption DEF MapInv
  <1>1. FirstNotBelow(i, id) BY <1>0, SearchFinds
  <1>2. /\ map' = [j \in Places |-> CASE j = i -> thr
                                      [] i < j /\ j <= count -> map[j - 1]
                                      [] OTHER -> map[j]]
        /\ count' = n + 1
    BY DEF ThreadMapInsert, Places
  <1> HIDE DEF i
  <1>3. i \in 0..n /\ i \in Nat BY <1>0, <1>1 DEF FirstNotBelow
  <1>4. \A j \in 0..(n - 1) : /\ map[j] \in used /\ map[j] # thr /\ TidAt(j) \in Nat
                              /\ tid'[map[j]] = TidAt(j) /\ TidAt(j) # id
    <2> TAKE j \in 0..(n - 1)
    <2>1. map[j] \in used BY DEF MapInv
    <2>2. map[j] # thr /\ TidAt(j) # id BY <2>1 DEF InUse, TidAt
    <2>3. TidAt(j) \in Nat BY TidAtNat
    <2>4. tid'[map[j]] = TidAt(j) BY <1>0, <2>1, <2>2 DEF TidAt, MapInv
    <2> QED BY <2>1, <2>2, <2>3, <2>4
  <1>5. tid' \in [Tcbs -> Nat] /\ tid'[thr] = id /\ \A t \in used : tid'[t] = tid[t]
    BY <1>0 DEF MapInv
  <1>6. map'[i] = thr BY <1>0, <1>2, <1>3 DEF Places
  <1>7. \A j \in 0..(i - 1) : map'[j] = map[j] /\ j \in 0..(n - 1)
    BY <1>0, <1>2, <1>3 DEF Places
  <1>8. \A j \in (i + 1)..n : map'[j] = map[j - 1] /\ j - 1 \in 0..(n - 1)
    BY <1>0, <1>2, <1>3 DEF Places
  <1>9. count' \in Places /\ count' = Cardinality(used') /\ count' - 1 = n
    <2>1. Cardinality(used') = Cardinality(used) + 1 BY <1>0, FS_AddElement
    <2> QED BY <1>0, <1>2, <2>1 DEF Places
  <1>10. map' \in [Places -> Link]
    <2>1. ASSUME NEW j \in Places PROVE map'[j] \in Link
      <3>1. CASE j = i BY <1>6, <3>1 DEF Link
      <3>2. CASE i < j /\ j <= n
        <4>1. j - 1 \in 0..(n - 1) /\ map'[j] = map[j - 1] BY <1>0, <1>3, <1>8, <3>2 DEF Places
        <4> QED BY <1>0, <1>4, <4>1 DEF Link
      <3>3. CASE j # i /\ ~(i < j /\ j <= n)
        <4>1. map'[j] = map[j] BY <1>2, <3>3
        <4> QED BY <4>1 DEF MapInv
      <3> QED BY <3>1, <3>2, <3>3
    <2> QED BY <1>2, <2>1
  <1>11. ASSUME NEW a \in 0..n, NEW b \in 0..n, a < b
         PROVE  tid'[map'[a]] < tid'[map'[b]]
    <2>1. CASE b < i
      <3>1. a \in 0..(i - 1) /\ b \in 0..(i - 1) BY <1>3, <1>11, <2>1
      <3>2. TidAt(a) < TidAt(b) BY <1>7, <1>11, <3>1 DEF MapInv
      <3> QED BY <1>4, <1>7, <3>1, <3>2
    <2>2. CASE b = i
      <3>1. a \in 0..(i - 1) BY <1>3, <1>11, <2>2
      <3>2. TidAt(a) < id BY <1>1, <3>1 DEF FirstNotBelow
      <3> QED BY <1>4, <1>5, <1>6, <1>7, <2>2, <3>1, <3>2
    <2>3. CASE b > i /\ a < i
      <3>1. a \in 0..(i - 1) /\ b \in (i + 1)..n BY <1>3, <2>3
      <3>2. a < b - 1 BY <1>3, <3>1
      <3>3. TidAt(a) < TidAt(b - 1) BY <1>7, <1>8, <3>1, <3>2 DEF MapInv
      <3> QED BY <1>4, <1>7, <1>8, <3>1, <3>3
    <2>4. CASE a = i
      <3>1. b \in (i + 1)..n BY <1>3, <1>11, <2>4
      <3>2. b - 1 \in i..(count - 1) BY <1>0, <1>3, <3>1
      <3>3. TidAt(b - 1) >= id BY <1>1, <3>2 DEF FirstNotBelow
      <3>4. TidAt(b - 1) # id /\ TidAt(b - 1) \in Nat BY <1>4, <1>8, <3>1
      <3>5. id < TidAt(b - 1) BY <1>0, <3>3, <3>4
      <3> QED BY <1>4, <1>5, <1>6, <1>8, <2>4, <3>1, <3>5
    <2>5. CASE a > i
      <3>1. a \in (i + 1)..n /\ b \in (i + 1)..n BY <1>3, <1>11, <2>5
      <3>2. a - 1 < b - 1 BY <1>11
      <3>3. TidAt(a - 1) < TidAt(b - 1) BY <1>8, <3>1, <3>2 DEF MapInv
      <3> QED BY <1>4, <1>8, <3>1, <3>3
    <2> QED BY <1>3, <1>11, <2>1, <2>2, <2>3, <2>4, <2>5
  <1>12. ASSUME NEW j \in 0..n PROVE map'[j] \in used'
    <2>1. CASE j = i BY <1>6, <2>1
    <2>2. CASE j < i BY <1>3, <1>4, <1>7, <2>2
    <2>3. CASE j > i
      <3>1. j \in (i + 1)..n BY <1>3, <2>3
      <3> QED BY <1>4, <1>8, <3>1
    <2> QED BY <1>3, <2>1, <2>2, <2>3
  <1>13. ASSUME NEW t \in used' PROVE \E j \in 0..n : map'[j] = t
    <2>1. CASE t = thr BY <1>3, <1>6, <2>1
    <2>2. CASE t # thr
      <3>1. PICK p \in 0..(n - 1) : map[p] = t BY <2>2 DEF MapInv
      <3>2. CASE p < i BY <1>0, <1>3, <1>7, <3>1, <3>2
      <3>3. CASE p >= i
        <4>1. p + 1 \in (i + 1)..n /\ (p + 1) - 1 = p /\ p + 1 \in 0..n BY <1>0, <1>3, <3>3
        <4> QED BY <1>8, <3>1, <4>1
      <3> QED BY <1>3, <3>2, <3>3
    <2> QED BY <2>1, <2>2
  <1>14. \A t \in Users' : tid'[t] \in UserTids
    BY <1>5 DEF Users, MapInv
  <1>15. used' \in SUBSET Tcbs /\ {Idle, Root, Kernel} \subseteq used' BY <1>0
  <1>16. tid'[Idle] = IdleTid /\ tid'[Kernel] = KernelTid /\ tid'[Root] = RootTid
    BY <1>0, <1>5 DEF MapInv
  <1> HIDE DEF n
  <1> QED BY <1>5, <1>9, <1>10, <1>11, <1>12, <1>13, <1>14, <1>15, <1>16 DEF MapInv, TidAt

\* thread_map_delete() of a user thread's id keeps the map sorted and complete.
LEMMA DeleteStep ==
  ASSUME MapInv, NEW thr \in Users, used' = used \ {thr}, tid' = tid,
         ThreadMapDelete(tid[thr])
  PROVE  MapInv'
  <1> DEFINE i == ThreadMapSearch(tid[thr])
             n == count
  <1>0. /\ MaxThreads \in Nat /\ n \in Nat /\ n <= MaxThreads /\ n = Cardinality(used)
        /\ IsFiniteSet(used) /\ thr \in used /\ thr \notin {Idle, Kernel, Root}
        /\ used \in SUBSET Tcbs /\ {Idle, Root, Kernel} \subseteq used
    BY UsedFinite, TableAssumption DEF MapInv, Users
  <1>1. i \in 0..(n - 1) /\ map[i] = thr BY <1>0, SearchFindsThread
  <1>2. n # 1
    <2>1. PICK p \in 0..(n - 1) : map[p] = Idle BY <1>0 DEF MapInv
    <2> QED BY <1>0, <1>1, <2>1
  <1>3. /\ map' = [j \in Places |-> IF i <= j /\ j < n - 1 THEN map[j + 1] ELSE map[j]]
        /\ count' = n - 1
    BY <1>2 DEF ThreadMapDelete, Places
  <1> HIDE DEF i
  <1>4. i \in Nat /\ i < n BY <1>0, <1>1
  <1>5. \A j \in 0..(i - 1) : map'[j] = map[j] /\ j \in 0..(n - 1)
    BY <1>0, <1>3, <1>4 DEF Places
  <1>6. \A j \in i..(n - 2) : map'[j] = map[j + 1] /\ j + 1 \in 0..(n - 1)
    BY <1>0, <1>3, <1>4 DEF Places
  <1>7. \A j \in 0..(n - 1) : map[j] \in used /\ TidAt(j) \in Nat
    BY TidAtNat DEF MapInv
  <1>8. \A j \in 0..(n - 1) : j # i => map[j] # thr
    <2> TAKE j \in 0..(n - 1)
    <2>1. CASE j < i
      <3>1. TidAt(j) < TidAt(i) BY <1>1, <2>1 DEF MapInv
      <3> QED BY <1>1, <1>7, <3>1 DEF TidAt
    <2>2. CASE i < j
      <3>1. TidAt(i) < TidAt(j) BY <1>1, <2>2 DEF MapInv
      <3> QED BY <1>1, <1>7, <3>1 DEF TidAt
    <2> QED BY <1>4, <2>1, <2>2
  <1>9. count' \in Places /\ count' = Cardinality(used') /\ count' - 1 = n - 2
    <2>1. Cardinality(used') = Cardinality(used) - 1 BY <1>0, FS_RemoveElement
    <2> QED BY <1>0, <1>3, <1>4, <2>1 DEF Places
  <1>10. map' \in [Places -> Link]
    <2>1. ASSUME NEW j \in Places PROVE map'[j] \in Link
      <3>1. CASE i <= j /\ j < n - 1
        <4>1. j \in i..(n - 2) BY <1>0, <1>4, <3>1 DEF Places
        <4> QED BY <1>0, <1>6, <1>7, <4>1 DEF Link
      <3>2. CASE ~(i <= j /\ j < n - 1)
        <4>1. map'[j] = map[j] BY <1>3, <3>2
        <4> QED BY <4>1 DEF MapInv
      <3> QED BY <3>1, <3>2
    <2> QED BY <1>3, <2>1
  <1>11. ASSUME NEW a \in 0..(n - 2), NEW b \in 0..(n - 2), a < b
         PROVE  tid'[map'[a]] < tid'[map'[b]]
    <2>1. CASE b < i
      <3>1. a \in 0..(i - 1) /\ b \in 0..(i - 1) BY <1>4, <1>11, <2>1
      <3>2. TidAt(a) < TidAt(b) BY <1>5, <1>11, <3>1 DEF MapInv
      <3> QED BY <1>5, <3>1, <3>2 DEF TidAt
    <2>2. CASE a < i /\ i <= b
      <3>1. a \in 0..(i - 1) /\ b \in i..(n - 2) /\ a < b + 1 BY <1>4, <2>2
      <3>2. TidAt(a) < TidAt(b + 1) BY <1>5, <1>6, <3>1 DEF MapInv
      <3> QED BY <1>5, <1>6, <3>1, <3>2 DEF TidAt
    <2>3. CASE i <= a
      <3>1. a \in i..(n - 2) /\ b \in i..(n - 2) /\ a + 1 < b + 1 BY <1>4, <1>11, <2>3
      <3>2. TidAt(a + 1) < TidAt(b + 1) BY <1>6, <3>1 DEF MapInv
      <3> QED BY <1>6, <3>1, <3>2 DEF TidAt
    <2> QED BY <1>4, <1>11, <2>1, <2>2, <2>3
  <1>12. ASSUME NEW j \in 0..(n - 2) PROVE map'[j] \in used'
    <2>1. CASE j < i
      <3>1. j \in 0..(i - 1) /\ j # i BY <1>4, <2>1
      <3> QED BY <1>5, <1>7, <1>8, <3>1
    <2>2. CASE i <= j
      <3>1. j \in i..(n - 2) /\ j + 1 # i BY <1>4, <2>2
      <3> QED BY <1>6, <1>7, <1>8, <3>1
    <2> QED BY <1>4, <2>1, <2>2
  <1>13. ASSUME NEW t \in used' PROVE \E j \in 0..(n - 2) : map'[j] = t
    <2>1. PICK p \in 0..(n - 1) : map[p] = t BY DEF MapInv
    <2>2. p # i BY <1>1, <2>1
    <2>3. CASE p < i
      <3>1. p \in 0..(i - 1) /\ p \in 0..(n - 2) BY <1>0, <1>4, <2>3
      <3> QED BY <1>5, <2>1, <3>1
    <2>4. CASE p > i
      <3>1. p - 1 \in i..(n - 2) /\ (p - 1) + 1 = p /\ p - 1 \in 0..(n - 2) BY <1>0, <1>4, <2>4
      <3> QED BY <1>6, <2>1, <3>1
    <2> QED BY <1>4, <2>2, <2>3, <2>4
  <1>14. \A t \in Users' : tid'[t] \in UserTids
    BY DEF Users, MapInv
  <1>15. used' \in SUBSET Tcbs /\ {Idle, Root, Kernel} \subseteq used' BY <1>0
  <1>16. /\ tid' \in [Tcbs -> Nat]
         /\ tid'[Idle] = IdleTid /\ tid'[Kernel] = KernelTid /\ tid'[Root] = RootTid
    BY DEF MapInv
  <1> HIDE DEF n
  <1> QED BY <1>9, <1>10, <1>11, <1>12, <1>13, <1>14, <1>15, <1>16 DEF MapInv, TidAt

-----------------------------------------------------------------------------
(* Address spaces                                                          *)

\* The threads that have an address space, and those that have space a.
Owners == Users \cup {Root}
With(owners, space, a) == {t \in owners : space[t] = a}

SpaceInv ==
  /\ as \in [Tcbs -> Spaces \cup {Nil}]
  /\ asUsed \in SUBSET Spaces
  /\ shared \in [Spaces -> Nat]
  /\ asUsed = {as[t] : t \in Owners}
  /\ \A a \in asUsed : shared[a] + 1 = Cardinality(With(Owners, as, a))

LEMMA OwnersFinite ==
  ASSUME MapInv, NEW a
  PROVE  IsFiniteSet(With(Owners, as, a)) /\ Cardinality(With(Owners, as, a)) \in Nat
  <1>0. Root \in used BY DEF MapInv
  <1>1. With(Owners, as, a) \in SUBSET used BY <1>0 DEF With, Owners, Users
  <1>2. IsFiniteSet(used) BY UsedFinite
  <1>3. IsFiniteSet(With(Owners, as, a)) BY <1>1, <1>2, FS_Subset
  <1> QED BY <1>3, FS_CardinalityType

\* A new thread is one more owner of its space.
LEMMA NewOwner ==
  ASSUME MapInv, SpaceInv, NEW thr \in Tcbs \ used, used' = used \cup {thr},
         NEW a \in Spaces, as' = [as EXCEPT ![thr] = a]
  PROVE  /\ as' \in [Tcbs -> Spaces \cup {Nil}]
         /\ {as'[t] : t \in Owners'} = asUsed \cup {a}
         /\ Cardinality(With(Owners', as', a)) = Cardinality(With(Owners, as, a)) + 1
         /\ \A b : b # a => With(Owners', as', b) = With(Owners, as, b)
  <1>1. Owners' = Owners \cup {thr} /\ Owners \subseteq used /\ used \subseteq Tcbs /\ thr \notin Owners
    BY DEF Owners, Users, MapInv
  <1>2. as \in [Tcbs -> Spaces \cup {Nil}] /\ asUsed = {as[t] : t \in Owners} BY DEF SpaceInv
  <1>3. as'[thr] = a /\ \A t \in Owners : as'[t] = as[t] BY <1>1, <1>2
  <1>5. With(Owners', as', a) = With(Owners, as, a) \cup {thr} /\ thr \notin With(Owners, as, a) BY <1>1, <1>3 DEF With
  <1>6. Cardinality(With(Owners, as, a) \cup {thr}) = Cardinality(With(Owners, as, a)) + 1
    BY <1>5, OwnersFinite, FS_AddElement
  <1>7. \A b : b # a => With(Owners', as', b) = With(Owners, as, b) BY <1>1, <1>3 DEF With
  <1>8. {as'[t] : t \in Owners'} = asUsed \cup {a} BY <1>1, <1>2, <1>3
  <1>9. as' \in [Tcbs -> Spaces \cup {Nil}] BY <1>2
  <1> QED BY <1>5, <1>6, <1>7, <1>8, <1>9

\* thread_space(): the new thread is the only one in a new space, or one more
\* in the space of a thread that is in use.
LEMMA SpaceStep ==
  ASSUME MapInv, SpaceInv, NEW thr \in Tcbs \ used, used' = used \cup {thr},
         NEW id, NEW space, ThreadSpace(thr, id, space),
         space = id => asUsed # Spaces,
         space # id => ThreadByGlobalid(space) \in Owners
  PROVE  SpaceInv'
  <1>0. /\ asUsed \in SUBSET Spaces /\ shared \in [Spaces -> Nat] /\ asUsed = {as[t] : t \in Owners}
        /\ \A s \in asUsed : shared[s] + 1 = Cardinality(With(Owners, as, s))
    BY DEF SpaceInv
  <1>1. CASE space = id
    <2> DEFINE a == FirstFree(Spaces, asUsed)
    <2>1. a \in Spaces \ asUsed
      <3>1. Spaces \in SUBSET Nat BY ThreadsAssumption DEF Spaces
      <3>2. Spaces \ asUsed # {} BY <1>0, <1>1
      <3> QED BY <3>1, <3>2, FirstFreeFacts
    <2>2. /\ as' = [as EXCEPT ![thr] = a] /\ asUsed' = asUsed \cup {a}
          /\ shared' = [shared EXCEPT ![a] = 0]
      BY <1>1 DEF ThreadSpace
    <2> HIDE DEF a
    <2>3. /\ as' \in [Tcbs -> Spaces \cup {Nil}]
          /\ {as'[t] : t \in Owners'} = asUsed \cup {a}
          /\ Cardinality(With(Owners', as', a)) = Cardinality(With(Owners, as, a)) + 1
          /\ \A b : b # a => With(Owners', as', b) = With(Owners, as, b)
      BY <2>1, <2>2, NewOwner
    <2>4. With(Owners, as, a) = {} BY <1>0, <2>1 DEF With
    <2>5. Cardinality(With(Owners', as', a)) = 1
      <3>1. Cardinality(With(Owners, as, a)) = 0 BY <2>4, FS_EmptySet
      <3>2. 0 + 1 = 1 OBVIOUS
      <3> QED BY <2>3, <3>1, <3>2
    <2>6. shared' \in [Spaces -> Nat] /\ shared'[a] = 0 /\ \A s \in asUsed : shared'[s] = shared[s]
      BY <1>0, <2>1, <2>2
    <2>7. ASSUME NEW s \in asUsed' PROVE shared'[s] + 1 = Cardinality(With(Owners', as', s))
      <3>1. CASE s = a BY <2>5, <2>6, <3>1
      <3>2. CASE s # a
        <4>1. s \in asUsed BY <2>2, <3>2
        <4> QED BY <1>0, <2>3, <2>6, <3>2, <4>1
      <3> QED BY <3>1, <3>2
    <2>8. asUsed' \in SUBSET Spaces BY <1>0, <2>1, <2>2
    <2> QED BY <2>2, <2>3, <2>6, <2>7, <2>8 DEF SpaceInv
  <1>2. CASE space # id
    <2> DEFINE a == as[ThreadByGlobalid(space)]
    <2>1. a \in asUsed /\ a \in Spaces BY <1>0, <1>2
    <2>2. /\ as' = [as EXCEPT ![thr] = a] /\ asUsed' = asUsed
          /\ shared' = [shared EXCEPT ![a] = @ + 1]
      BY <1>2 DEF ThreadSpace
    <2> HIDE DEF a
    <2>3. /\ as' \in [Tcbs -> Spaces \cup {Nil}]
          /\ {as'[t] : t \in Owners'} = asUsed \cup {a}
          /\ Cardinality(With(Owners', as', a)) = Cardinality(With(Owners, as, a)) + 1
          /\ \A b : b # a => With(Owners', as', b) = With(Owners, as, b)
      BY <2>1, <2>2, NewOwner
    <2>4. /\ shared' \in [Spaces -> Nat] /\ shared'[a] = shared[a] + 1
          /\ \A s \in asUsed : s # a => shared'[s] = shared[s]
      BY <1>0, <2>1, <2>2
    <2>5. ASSUME NEW s \in asUsed' PROVE shared'[s] + 1 = Cardinality(With(Owners', as', s))
      <3>1. CASE s = a BY <1>0, <2>1, <2>3, <2>4, <3>1
      <3>2. CASE s # a BY <1>0, <2>2, <2>3, <2>4, <3>2
      <3> QED BY <3>1, <3>2
    <2>6. asUsed \cup {a} = asUsed BY <2>1
    <2> QED BY <1>0, <2>2, <2>3, <2>4, <2>5, <2>6 DEF SpaceInv
  <1> QED BY <1>1, <1>2

\* as_destroy(): the space is freed exactly when its last thread goes.
LEMMA FreeStep ==
  ASSUME MapInv, SpaceInv, NEW thr \in Users, used' = used \ {thr}, AsDestroy(as[thr])
  PROVE  SpaceInv'
  <1> DEFINE a == as[thr]
             left == With(Owners, as, a) \ {thr}
  <1>0. /\ asUsed \in SUBSET Spaces /\ shared \in [Spaces -> Nat] /\ asUsed = {as[t] : t \in Owners}
        /\ \A s \in asUsed : shared[s] + 1 = Cardinality(With(Owners, as, s))
        /\ as' = as /\ as \in [Tcbs -> Spaces \cup {Nil}]
    BY DEF SpaceInv, AsDestroy
  <1>1. Owners' = Owners \ {thr} /\ thr \in Owners BY TableAssumption DEF Owners, Users, Root
  <1>2. a \in asUsed /\ a \in Spaces BY <1>0, <1>1
  <1>3. With(Owners', as', a) = left /\ thr \in With(Owners, as, a) BY <1>0, <1>1 DEF With
  <1>4. \A b : b # a => With(Owners', as', b) = With(Owners, as, b) BY <1>0, <1>1 DEF With
  <1>5. IsFiniteSet(left) /\ Cardinality(left) = shared[a]
    <2>1. IsFiniteSet(left) /\ Cardinality(left) = Cardinality(With(Owners, as, a)) - 1
      BY <1>3, OwnersFinite, FS_RemoveElement
    <2>2. shared[a] + 1 = Cardinality(With(Owners, as, a)) /\ shared[a] \in Nat BY <1>0, <1>2
    <2>3. Cardinality(With(Owners, as, a)) \in Nat BY OwnersFinite
    <2> DEFINE n == shared[a]
               m == Cardinality(With(Owners, as, a))
    <2>4. Cardinality(left) = m - 1 /\ n + 1 = m /\ n \in Nat /\ m \in Nat BY <2>1, <2>2, <2>3
    <2> HIDE DEF a, left, n, m
    <2>5. Cardinality(left) = n BY <2>4
    <2> QED BY <2>1, <2>5 DEF n
  <1>6. left = {} <=> shared[a] = 0 BY <1>5, FS_EmptySet
  <1>7. CASE shared[a] > 0
    <2>1. shared' = [shared EXCEPT ![a] = @ - 1] /\ asUsed' = asUsed BY <1>7 DEF AsDestroy
    <2> HIDE DEF a, left
    <2>2. left # {} BY <1>6, <1>7
    <2>3. /\ shared' \in [Spaces -> Nat] /\ shared'[a] = shared[a] - 1 /\ shared[a] \in Nat
          /\ \A s \in asUsed : s # a => shared'[s] = shared[s]
      BY <1>0, <1>2, <1>7, <2>1
    <2>4. {as'[t] : t \in Owners'} = asUsed
      <3>1. PICK u \in left : TRUE BY <2>2
      <3>2. u \in Owners' /\ as'[u] = a BY <1>3 DEF With
      <3>3. as[thr] = a BY DEF a
      <3> QED BY <1>0, <1>1, <3>2, <3>3
    <2>5. ASSUME NEW s \in asUsed' PROVE shared'[s] + 1 = Cardinality(With(Owners', as', s))
      <3>1. CASE s = a BY <1>3, <1>5, <2>3, <3>1
      <3>2. CASE s # a BY <1>0, <1>4, <2>1, <2>3, <3>2
      <3> QED BY <3>1, <3>2
    <2> QED BY <1>0, <2>1, <2>3, <2>4, <2>5 DEF SpaceInv
  <1>8. CASE ~(shared[a] > 0)
    <2>1. asUsed' = asUsed \ {a} /\ shared' = shared BY <1>8 DEF AsDestroy
    <2> HIDE DEF a, left
    <2>2. left = {}
      <3>1. shared[a] \in Nat BY <1>0, <1>2
      <3> QED BY <1>6, <1>8, <3>1
    <2>3. \A t \in Owners' : as'[t] # a BY <1>3, <2>2 DEF With
    <2>4. {as'[t] : t \in Owners'} = asUsed \ {a}
      <3>1. as[thr] = a BY DEF a
      <3> QED BY <1>0, <1>1, <2>3, <3>1
    <2>5. \A s \in asUsed' : shared'[s] + 1 = Cardinality(With(Owners', as', s))
      BY <1>0, <1>4, <2>1
    <2> QED BY <1>0, <2>1, <2>4, <2>5 DEF SpaceInv
  <1> QED BY <1>7, <1>8

-----------------------------------------------------------------------------
(* The tree of threads                                                     *)

TreeInv == WellFormed(Users, parent, child, sibling)

\* The children of p, and that the list of them ends.
LEMMA Children ==
  ASSUME TreeInv, NEW p \in Owners
  PROVE  /\ Chain(child[p]) = {t \in Users : parent[t] = p}
         /\ child[p] # Nil => /\ LastOf(child[p]) \in Users /\ parent[LastOf(child[p])] = p
                              /\ sibling[LastOf(child[p])] = Nil
         /\ child[p] = Nil => \A t \in Users : parent[t] # p
  <1> DEFINE K == {t \in Users : parent[t] = p}
  <1>1. /\ Chain(child[p]) = K
        /\ child[p] # Nil => \E z \in Users : parent[z] = p /\ sibling[z] = Nil
        /\ child[p] = Nil => \A t \in Users : parent[t] # p
    BY ChildrenListed DEF TreeInv, Owners, Chain
  <1>2. ASSUME child[p] # Nil
        PROVE  LastOf(child[p]) \in K /\ sibling[LastOf(child[p])] = Nil
    <2>1. \E z \in Chain(child[p]) : sibling[z] = Nil BY <1>1, <1>2
    <2> HIDE DEF K
    <2> QED BY <1>1, <2>1, Zenon DEF LastOf
  <1> QED BY <1>1, <1>2

\* "Place under" keeps the links a tree.
LEMMA AttachStep ==
  ASSUME MapInv, TreeInv, NEW c \in Owners, NEW thr \in Tcbs \ used, used' = used \cup {thr},
         Attach(thr, c)
  PROVE  TreeInv'
  <1> DEFINE z == LastOf(child[c])
  <1>1. Users' = Users \cup {thr} /\ thr \notin Users /\ thr # Root BY DEF MapInv, Users
  <1>2. /\ parent \in [Tcbs -> Link] /\ child \in [Tcbs -> Link] /\ sibling \in [Tcbs -> Link]
        /\ Users \subseteq Tcbs \ {Root} /\ Root \in Tcbs /\ Nil \notin Tcbs
        /\ c \in Users \cup {Root} /\ c \in Tcbs /\ c # thr
    BY <1>1, TreeTypes DEF TreeInv, Owners
  <1>3. child[c] # Nil => z \in Users /\ parent[z] = c /\ sibling[z] = Nil BY Children
  <1> HIDE DEF z
  <1>4. c \in Link /\ thr \in Link /\ Nil \in Link BY <1>2 DEF Link
  <1>5. parent' \in [Tcbs -> Link] /\ parent'[thr] = c /\ \A t \in Tcbs \ {thr} : parent'[t] = parent[t]
    BY <1>2, <1>4 DEF Attach
  <1>6. /\ child' \in [Tcbs -> Link] /\ child'[thr] = Nil
        /\ \A t \in Tcbs \ {thr} : child'[t] = IF t = c /\ child[c] = Nil THEN thr ELSE child[t]
    BY <1>2, <1>4 DEF Attach
  <1>7. /\ sibling' \in [Tcbs -> Link] /\ sibling'[thr] = Nil
        /\ \A t \in Tcbs \ {thr} : sibling'[t] = IF t = z /\ child[c] # Nil THEN thr ELSE sibling[t]
    <2>1. CASE child[c] # Nil
      <3>1. sibling' = [sibling EXCEPT ![thr] = Nil, ![z] = thr] BY <2>1 DEF Attach, z
      <3>2. z \in Users /\ z # thr /\ z \in Tcbs BY <1>1, <1>2, <1>3, <2>1
      <3> QED BY <1>2, <1>4, <2>1, <3>1, <3>2
    <2>2. CASE child[c] = Nil
      <3>1. sibling' = [sibling EXCEPT ![thr] = Nil] BY <2>2 DEF Attach
      <3> QED BY <1>2, <1>4, <2>2, <3>1
    <2> QED BY <2>1, <2>2
  <1>8. Appended(Users, parent, child, sibling, thr, c, z, parent', child', sibling')
    BY <1>3, <1>5, <1>6, <1>7 DEF Appended
  <1> QED BY <1>1, <1>2, <1>8, Attached DEF TreeInv

\* So does removing a thread that is not above the caller.
LEMMA DetachStep ==
  ASSUME MapInv, TreeInv, NEW c \in Owners, NEW thr \in Users, used' = used \ {thr},
         ~Below(c, thr), Detach(thr, c)
  PROVE  TreeInv'
  <1> DEFINE q == parent[thr]
             l == Unlinked(thr)
             kids == Chain(child[thr])
             prev == CHOOSE x \in Chain(child[q]) : sibling[x] = thr
             z == LastOf(child[thr])
             C1(t) == IF t = q /\ child[q] = thr THEN sibling[thr] ELSE child[t]
             S1(t) == IF t = prev /\ child[q] # thr THEN sibling[thr] ELSE sibling[t]
  <1>1. Users' = Users \ {thr} BY DEF Users
  <1>2. /\ parent \in [Tcbs -> Link] /\ child \in [Tcbs -> Link] /\ sibling \in [Tcbs -> Link]
        /\ Users \subseteq Tcbs \ {Root} /\ Root \in Tcbs /\ Nil \notin Tcbs
        /\ c \in Users \cup {Root} /\ c \in Tcbs /\ thr \in Tcbs /\ thr # Root
    BY TreeTypes DEF TreeInv, Owners
  <1>3. Tree(Users, parent, child, sibling) BY DEF TreeInv, WellFormed
  <1>4. q \in Owners /\ thr \in Owners /\ q \in Tcbs BY <1>2, <1>3 DEF Tree, Owners
  <1>5. kids = {t \in Users : parent[t] = thr} BY <1>4, Children
  <1>6. child[thr] # Nil => z \in Users /\ parent[z] = thr /\ sibling[z] = Nil
    BY <1>4, Children
  <1>7. child[thr] = Nil => \A t \in Users : parent[t] # thr BY <1>4, Children
  <1>8. ASSUME child[q] # thr PROVE prev \in Users /\ sibling[prev] = thr
    <2>1. Chain(child[q]) = {t \in Users : parent[t] = q} BY <1>4, Children
    <2>2. PICK u \in Users : sibling[u] = thr BY <1>3, <1>8 DEF Tree
    <2>3. parent[u] = q BY <1>2, <1>3, <2>2 DEF Tree
    <2>4. \E x \in Chain(child[q]) : sibling[x] = thr BY <2>1, <2>2, <2>3
    <2>5. prev \in Chain(child[q]) /\ sibling[prev] = thr
      <3> HIDE DEF q
      <3> QED BY <2>4, Zenon
    <2> QED BY <2>1, <2>5
  <1>9. c \in Link /\ Nil \in Link /\ child[thr] \in Link /\ sibling[thr] \in Link
    BY <1>2 DEF Link
  <1>10. /\ l.child \in [Tcbs -> Link] /\ \A t \in Tcbs : l.child[t] = C1(t)
         /\ l.sibling \in [Tcbs -> Link] /\ \A t \in Tcbs : l.sibling[t] = S1(t)
    <2>1. CASE child[q] = thr
      <3>1. l = [child |-> [child EXCEPT ![q] = sibling[thr]], sibling |-> sibling]
        BY <2>1 DEF Unlinked
      <3>2. l.child = [child EXCEPT ![q] = sibling[thr]] /\ l.sibling = sibling BY <3>1
      <3> HIDE DEF l
      <3> QED BY <1>2, <1>4, <1>9, <2>1, <3>2
    <2>2. CASE child[q] # thr
      <3>1. l = [child |-> child, sibling |-> [sibling EXCEPT ![prev] = sibling[thr]]]
        BY <2>2 DEF Unlinked
      <3>2. l.child = child /\ l.sibling = [sibling EXCEPT ![prev] = sibling[thr]] BY <3>1
      <3>3. prev \in Tcbs BY <1>2, <1>8, <2>2
      <3> HIDE DEF l, prev
      <3> QED BY <1>2, <1>4, <1>9, <2>2, <3>2, <3>3
    <2> QED BY <2>1, <2>2
  <1>11. C1(c) \in Link BY <1>2, <1>10
  <1> HIDE DEF prev, z, l, C1, S1
  <1>12. /\ parent' \in [Tcbs -> Link] /\ parent'[Root] = parent[Root]
         /\ \A t \in Users : parent'[t] = IF parent[t] = thr THEN c ELSE parent[t]
    <2>1. CASE child[thr] = Nil
      <3>1. parent' = parent BY <2>1 DEF Detach
      <3> QED BY <1>2, <1>7, <2>1, <3>1
    <2>2. CASE child[thr] # Nil
      <3>1. parent' = [t \in Tcbs |-> IF t \in kids THEN c ELSE parent[t]] BY <2>2 DEF Detach
      <3>2. Root \notin kids BY <1>2, <1>5
      <3> QED BY <1>2, <1>5, <1>9, <3>1, <3>2
    <2> QED BY <2>1, <2>2
  <1>13. /\ child' \in [Tcbs -> Link]
         /\ \A t \in Tcbs : child'[t] = IF t = c /\ child[thr] # Nil THEN child[thr] ELSE C1(t)
    <2>1. CASE child[thr] = Nil
      <3>1. child' = l.child BY <2>1 DEF Detach, l
      <3> QED BY <1>10, <2>1, <3>1
    <2>2. CASE child[thr] # Nil
      <3>1. child' = [l.child EXCEPT ![c] = child[thr]] BY <2>2 DEF Detach, l
      <3> QED BY <1>2, <1>9, <1>10, <2>2, <3>1
    <2> QED BY <2>1, <2>2
  <1>14. /\ sibling' \in [Tcbs -> Link]
         /\ \A t \in Tcbs : sibling'[t] = IF t = z /\ child[thr] # Nil THEN C1(c) ELSE S1(t)
    <2>1. CASE child[thr] = Nil
      <3>1. sibling' = l.sibling BY <2>1 DEF Detach, l
      <3> QED BY <1>10, <2>1, <3>1
    <2>2. CASE child[thr] # Nil
      <3>1. sibling' = [l.sibling EXCEPT ![z] = l.child[c]] BY <2>2 DEF Detach, l, z
      <3>2. l.child[c] = C1(c) /\ z \in Tcbs BY <1>2, <1>6, <1>10, <2>2
      <3> QED BY <1>10, <1>11, <2>2, <3>1, <3>2
    <2> QED BY <2>1, <2>2
  <1>15. Spliced(Users, parent, child, sibling, thr, c, prev, z, parent', child', sibling')
    <2>1. \A t \in Users \cup {Root} :
            child'[t] = IF t = c /\ child[thr] # Nil THEN child[thr] ELSE C1(t)
      BY <1>2, <1>13
    <2>2. \A t \in Users : sibling'[t] = IF t = z /\ child[thr] # Nil THEN C1(c) ELSE S1(t)
      BY <1>2, <1>14
    <2> QED BY <1>6, <1>7, <1>8, <1>12, <1>13, <1>14, <2>1, <2>2 DEF Spliced, C1, S1
  <1>16. thr \notin Reached(c, Along(parent)) BY DEF Below
  <1> QED BY <1>1, <1>2, <1>12, <1>15, <1>16, Detached DEF TreeInv

\* In a tree thread_select() finds what there is to find.
LEMMA SelectInv ==
  ASSUME TreeInv
  PROVE  SelectFindsRunnable
  <1>1. \A t \in Users : Below(t, Root) /\ t \in Chain(child[parent[t]])
    BY RootAbove DEF TreeInv, Below, Chain
  <1>2. IF runnable \cap Users = {} THEN ThreadSelect = Nil ELSE ThreadSelect \in runnable \cap Users
    BY SelectRight DEF TreeInv, ThreadSelect
  <1> QED BY <1>1, <1>2 DEF SelectFindsRunnable

-----------------------------------------------------------------------------
(* Theorems                                                                *)

IInv == MapInv /\ SpaceInv /\ TreeInv

LEMMA Untouched ==
  ASSUME IInv, UNCHANGED <<mapVars, treeVars, asVars>>
  PROVE  IInv'
  <1>1. /\ used' = used /\ tid' = tid /\ map' = map /\ count' = count
        /\ as' = as /\ asUsed' = asUsed /\ shared' = shared
        /\ parent' = parent /\ child' = child /\ sibling' = sibling
    BY DEF mapVars, treeVars, asVars
  <1>2. MapInv' BY <1>1 DEF IInv, MapInv, TidAt, Users
  <1>3. Owners' = Owners BY <1>1 DEF Owners, Users
  <1>4. SpaceInv' BY <1>1, <1>3 DEF IInv, SpaceInv
  <1>5. TreeInv'
    <2>1. Users' = Users BY <1>1 DEF Users
    <2> QED BY <1>1, <2>1 DEF IInv, TreeInv
  <1> QED BY <1>2, <1>4, <1>5 DEF IInv

LEMMA CreateStep ==
  ASSUME Disciplined, IInv, NEW c \in Owners, NEW id \in UserTids, NEW space \in UserTids \cup {RootTid},
         ThreadCreate(c, id, space)
  PROVE  IInv'
  <1> DEFINE thr == FirstFree(Tcbs, used)
             full == \/ used = Tcbs
                     \/ space = id /\ asUsed = Spaces
                     \/ space # id /\ ThreadByGlobalid(space) = Nil
  <1>1. CASE full
    <2>1. Fault BY <1>1 DEF ThreadCreate
    <2> QED BY <2>1, Untouched DEF Fault
  <1>2. CASE ~full
    <2>1. ~InUse(id) /\ (space # id => Live(space) \/ space = RootTid) BY DEF ThreadCreate
    <2>2. /\ used' = used \cup {thr} /\ tid' = [tid EXCEPT ![thr] = id]
          /\ ThreadMapInsert(id, thr) /\ Attach(thr, c) /\ ThreadSpace(thr, id, space)
      BY <1>2 DEF ThreadCreate
    <2>3. thr \in Tcbs \ used
      <3>1. Tcbs \in SUBSET Nat BY TableAssumption DEF Tcbs
      <3>2. Tcbs \ used # {} BY <1>2 DEF IInv, MapInv
      <3> QED BY <3>1, <3>2, FirstFreeFacts
    <2> HIDE DEF thr
    <2>4. MapInv' BY <2>1, <2>2, <2>3, InsertStep DEF IInv
    <2>5. space # id => ThreadByGlobalid(space) \in Owners
      <3> SUFFICES ASSUME space # id PROVE ThreadByGlobalid(space) \in Owners OBVIOUS
      <3>1. \E t \in Owners : t \in used /\ tid[t] = space
        BY <2>1 DEF Live, Owners, Users, IInv, MapInv
      <3> QED BY <3>1, ByGlobalidFinds DEF IInv
    <2>6. SpaceInv' BY <1>2, <2>2, <2>3, <2>5, SpaceStep DEF IInv
    <2>7. TreeInv' BY <2>2, <2>3, AttachStep DEF IInv
    <2> QED BY <2>4, <2>6, <2>7 DEF IInv
  <1> QED BY <1>1, <1>2

LEMMA DestroyStep ==
  ASSUME Disciplined, IInv, NEW c \in Owners, NEW id \in UserTids, ThreadDestroy(c, id)
  PROVE  IInv'
  <1>1. PICK thr \in Users : tid[thr] = id BY DEF ThreadDestroy, Live
  <1>2. thr \in used /\ ThreadByGlobalid(id) = thr BY <1>1, ByGlobalidFinds DEF Users, IInv
  <1>3. thr # Nil BY <1>2 DEF IInv, MapInv, Tcbs, Nil
  <1>4. /\ AsDestroy(as[thr]) /\ ThreadMapDelete(id) /\ used' = used \ {thr} /\ tid' = tid
        /\ Detach(thr, c) /\ ~Below(c, thr)
    BY <1>2, <1>3 DEF ThreadDestroy
  <1>5. MapInv' BY <1>1, <1>4, DeleteStep DEF IInv
  <1>6. SpaceInv' BY <1>4, FreeStep DEF IInv
  <1>7. TreeInv' BY <1>4, DetachStep DEF IInv
  <1> QED BY <1>5, <1>6, <1>7 DEF IInv

LEMMA InitInv == Init => IInv
  <1> SUFFICES ASSUME Init PROVE IInv OBVIOUS
  <1> USE DEF Idle, Root, Kernel
  <1>0. /\ MaxThreads \in Nat /\ MaxThreads >= 3 /\ MaxSpaces \in Nat /\ MaxSpaces >= 1
        /\ used = {1, 2, 3} /\ count = 3
    BY TableAssumption, ThreadsAssumption DEF Init
  <1>1. used \in SUBSET Tcbs /\ {Idle, Root, Kernel} \subseteq used /\ Users = {}
    BY <1>0 DEF Tcbs, Users
  <1>2. /\ tid \in [Tcbs -> Nat] /\ tid[Idle] = IdleTid
        /\ tid[Kernel] = KernelTid /\ tid[Root] = RootTid
    BY <1>0 DEF Init, Tcbs, IdleTid, KernelTid, RootTid
  <1>3. map[0] = Idle /\ map[1] = Kernel /\ map[2] = Root BY <1>0 DEF Init
  <1>4. map \in [Places -> Link]
    <2>1. Idle \in Link /\ Kernel \in Link /\ Root \in Link /\ Nil \in Link BY <1>0 DEF Link, Tcbs
    <2>2. map = [i \in Places |->
              CASE i = 0 -> Idle [] i = 1 -> Kernel [] i = 2 -> Root [] OTHER -> Nil]
      BY DEF Init, Places
    <2>3. ASSUME NEW i \in Places PROVE map[i] \in Link
      <3>1. CASE i = 0 BY <2>1, <1>3, <3>1
      <3>2. CASE i = 1 BY <2>1, <1>3, <3>2
      <3>3. CASE i = 2 BY <2>1, <1>3, <3>3
      <3>4. CASE i \notin {0, 1, 2}
        <4>1. map[i] = Nil BY <2>2, <3>4
        <4> QED BY <2>1, <4>1
      <3> QED BY <3>1, <3>2, <3>3, <3>4
    <2> QED BY <2>2, <2>3
  <1>5. count = Cardinality(used) /\ count \in Places
    <2>1. IsFiniteSet({1}) /\ Cardinality({1}) = 1 BY FS_Singleton
    <2>2. IsFiniteSet({1} \cup {2}) /\ Cardinality({1} \cup {2}) = 2 BY <2>1, FS_AddElement
    <2>3. Cardinality(({1} \cup {2}) \cup {3}) = 3 BY <2>2, FS_AddElement
    <2>4. used = ({1} \cup {2}) \cup {3} BY <1>0
    <2> QED BY <1>0, <2>3, <2>4 DEF Places
  <1>6. \A i \in 0..(count - 1) : i \in {0, 1, 2} BY <1>0
  <1>7. TidAt(0) = 0 /\ TidAt(1) = 1 /\ TidAt(2) = 2
    BY <1>2, <1>3 DEF TidAt, IdleTid, KernelTid, RootTid
  <1>8. \A i, j \in 0..(count - 1) : i < j => TidAt(i) < TidAt(j)
    BY <1>6, <1>7
  <1>9. /\ \A i \in 0..(count - 1) : map[i] \in used
        /\ \A t \in used : \E i \in 0..(count - 1) : map[i] = t
    BY <1>0, <1>3, <1>6
  <1>10. MapInv BY <1>1, <1>2, <1>4, <1>5, <1>8, <1>9 DEF MapInv
  <1>11. Owners = {Root} BY <1>1 DEF Owners
  <1>12. /\ as \in [Tcbs -> Spaces \cup {Nil}] /\ as[Root] = 1
         /\ asUsed = {1} /\ 1 \in Spaces /\ shared \in [Spaces -> Nat] /\ shared[1] = 0
    BY <1>0 DEF Init, Spaces, Tcbs
  <1>13. With(Owners, as, 1) = {Root} BY <1>11, <1>12 DEF With
  <1>14. Cardinality({Root}) = 1 BY FS_Singleton
  <1>15. asUsed = {as[t] : t \in Owners} BY <1>11, <1>12
  <1>16. \A a \in asUsed : shared[a] + 1 = Cardinality(With(Owners, as, a))
    <2> TAKE a \in asUsed
    <2>1. a = 1 /\ shared[a] = 0 BY <1>12
    <2>2. With(Owners, as, a) = {Root} BY <1>13, <2>1
    <2>3. Cardinality(With(Owners, as, a)) = 1 BY <1>14, <2>2
    <2>4. shared[a] + 1 = 1 BY <2>1
    <2> QED BY <2>3, <2>4
  <1>17. asUsed \in SUBSET Spaces BY <1>12
  <1>18. SpaceInv BY <1>12, <1>15, <1>16, <1>17 DEF SpaceInv
  <1>19. TreeInv
    <2>1. /\ parent = [t \in Tcbs |-> Nil] /\ child = parent /\ sibling = parent
          /\ Root \in Tcbs /\ Nil \in Link
      BY <1>0 DEF Init, Tcbs, Link
    <2>2. parent \in [Tcbs -> Link] /\ parent[Root] = Nil BY <2>1
    <2>3. Tree(Users, parent, child, sibling) BY <1>1, <2>1, <2>2 DEF Tree
    <2> DEFINE lo == [t \in Tcbs |-> 0]
               hi == [t \in Tcbs |-> 1]
    <2>4. lo \in [Tcbs -> -1..1] /\ hi \in [Tcbs -> -1..1] /\ lo[Root] < hi[Root] BY <2>1
    <2>5. Numbered(Users, parent, sibling, lo, hi, 1) BY <1>1, <2>4 DEF Numbered
    <2> QED BY <2>2, <2>3, <2>5 DEF TreeInv, WellFormed
  <1> QED BY <1>10, <1>18, <1>19 DEF IInv

LEMMA NextInv == Disciplined /\ IInv /\ [Next]_vars => IInv'
  <1> SUFFICES ASSUME Disciplined, IInv, [Next]_vars PROVE IInv' OBVIOUS
  <1>1. CASE \E c \in Users \cup {Root}, id \in UserTids, space \in UserTids \cup {RootTid} :
               ThreadCreate(c, id, space)
    BY <1>1, CreateStep DEF Owners
  <1>2. CASE \E c \in Users \cup {Root}, id \in UserTids : ThreadDestroy(c, id)
    BY <1>2, DestroyStep DEF Owners
  <1>4. CASE \E t \in Users : SetState(t) BY <1>4, Untouched DEF SetState
  <1>5. CASE UNCHANGED vars BY <1>5, Untouched DEF vars
  <1> QED BY <1>1, <1>2, <1>4, <1>5 DEF Next

\* As long as callers create threads with new ids while the tables have room
\* and destroy threads that exist, thread_map is sorted, lists the threads in
\* use and nothing else, and thread_by_globalid() finds each of them.
THEOREM MapIsComplete == Disciplined => (Spec => []MapFindsAll)
  <1> SUFFICES ASSUME Disciplined PROVE Spec => []MapFindsAll OBVIOUS
  <1>1. IInv => MapFindsAll
    <2> SUFFICES ASSUME IInv PROVE MapFindsAll OBVIOUS
    <2>1. count = Cardinality(used) BY DEF IInv, MapInv
    <2>2. {map[i] : i \in 0..(count - 1)} = used BY DEF IInv, MapInv
    <2>3. \A i, j \in 0..(count - 1) : i <= j => TidAt(i) <= TidAt(j)
      <3> TAKE i \in 0..(count - 1), j \in 0..(count - 1)
      <3>1. TidAt(i) \in Nat /\ TidAt(j) \in Nat BY TidAtNat DEF IInv
      <3>2. i < j => TidAt(i) < TidAt(j) BY DEF IInv, MapInv
      <3> QED BY <3>1, <3>2
    <2>4. \A t \in used : ThreadByGlobalid(tid[t]) = t BY ByGlobalidFinds DEF IInv
    <2> QED BY <2>1, <2>2, <2>3, <2>4 DEF MapFindsAll
  <1>2. IInv /\ [Next]_vars => IInv' BY NextInv
  <1> QED BY <1>1, <1>2, InitInv, PTL DEF Spec

\* Under the same discipline an address space is in use exactly as long as a
\* thread has it, and as->shared counts the threads beyond the first.
THEOREM SharersAreCounted == Disciplined => (Spec => []SpacesCounted)
  <1> SUFFICES ASSUME Disciplined PROVE Spec => []SpacesCounted OBVIOUS
  <1>1. IInv => SpacesCounted BY DEF IInv, SpaceInv, SpacesCounted, Owners, With
  <1>2. IInv /\ [Next]_vars => IInv' BY NextInv
  <1> QED BY <1>1, <1>2, InitInv, PTL DEF Spec

\* Under the same discipline the child, sibling and parent links are a tree below
\* root that has every user thread, and thread_select()'s walk over it returns a
\* runnable thread exactly when there is one.
THEOREM SelectIsComplete == Disciplined => (Spec => []SelectFindsRunnable)
  <1> SUFFICES ASSUME Disciplined PROVE Spec => []SelectFindsRunnable OBVIOUS
  <1>1. IInv => SelectFindsRunnable BY SelectInv DEF IInv
  <1>2. IInv /\ [Next]_vars => IInv' BY NextInv
  <1> QED BY <1>1, <1>2, InitInv, PTL DEF Spec
=============================================================================
