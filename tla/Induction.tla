----------------------------- MODULE Induction ------------------------------
(***************************************************************************)
(* Induction in a first-order form, over sets of numbers in place of       *)
(* predicates, and loops that go from one index of a table to the next,    *)
(* for the proofs about the kernel's loops and searches.                   *)
(***************************************************************************)
EXTENDS Integers, WellFoundedInduction, TLAPS

\* Every non-empty set of natural numbers has a least element.
LEMMA LeastNumber ==
  ASSUME NEW T \in SUBSET Nat, T # {}
  PROVE  \E m \in T : \A n \in T : m <= n
  <1> DEFINE R == {ss \in Nat \X Nat : ss[1] < ss[2]}
  <1>1. R = OpToRel(<, Nat) BY Zenon DEF OpToRel
  <1>2. IsWellFoundedOn(R, Nat) BY <1>1, NatLessThanWellFounded
  <1>3. PICK m \in T : \A n \in T : <<n, m>> \notin R
    <2> HIDE DEF R
    <2> QED BY <1>2, WFMin
  <1>4. ASSUME NEW n \in T PROVE m <= n
    <2>1. n \in Nat /\ m \in Nat OBVIOUS
    <2>2. <<n, m>> \in Nat \X Nat /\ <<n, m>>[1] = n /\ <<n, m>>[2] = m BY <2>1
    <2>3. ~(n < m) BY <1>3, <2>2
    <2> QED BY <2>1, <2>3
  <1> QED BY <1>4

\* So does one that is bounded a greatest.
LEMMA GreatestNumber ==
  ASSUME NEW T \in SUBSET Nat, T # {}, NEW b \in Nat, \A n \in T : n <= b
  PROVE  \E m \in T : \A n \in T : n <= m
  <1> DEFINE D == {b - n : n \in T}
  <1>0. \A n \in T : n \in Nat /\ n <= b OBVIOUS
  <1>1. D \in SUBSET Nat /\ D # {}
    <2>1. \A n \in T : b - n \in Nat BY <1>0
    <2>2. D \in SUBSET Nat BY <2>1, Zenon
    <2>3. PICK n \in T : TRUE OBVIOUS
    <2>4. b - n \in D BY <2>3, Zenon
    <2> QED BY <2>2, <2>4
  <1>2. PICK d \in D : \A e \in D : d <= e
    <2> HIDE DEF D
    <2> QED BY <1>1, LeastNumber
  <1>3. PICK m \in T : d = b - m BY <1>2
  <1>4. ASSUME NEW n \in T PROVE n <= m
    <2>1. b - n \in D BY Zenon
    <2>2. b - m <= b - n BY <1>2, <1>3, <2>1
    <2> QED BY <1>0, <2>2
  <1> QED BY <1>3, <1>4

\* A set that has 0 and, with a number below n, the next one, has all up to n.
LEMMA UpTo ==
  ASSUME NEW n \in Nat, NEW S, 0 \in S, \A i \in 0..(n - 1) : i \in S => i + 1 \in S
  PROVE  \A i \in 0..n : i \in S
  <1> DEFINE T == {i \in 0..n : i \notin S}
  <1> SUFFICES ASSUME T # {} PROVE FALSE OBVIOUS
  <1>1. T \in SUBSET Nat OBVIOUS
  <1>2. PICK m \in T : \A i \in T : m <= i BY <1>1, LeastNumber
  <1>3. m # 0 OBVIOUS
  <1>4. m - 1 \in 0..(n - 1) /\ m - 1 \notin T BY <1>2, <1>3
  <1>5. m - 1 \in S BY <1>4
  <1>6. (m - 1) + 1 \in S BY <1>4, <1>5
  <1> QED BY <1>2, <1>6

\* n + 1 places among 0..n that are all different are all of them.
LEMMA Pigeonholes ==
  ASSUME NEW n \in Nat, NEW at, \A i \in 0..n : at[i] \in 0..n,
         \A i, j \in 0..n : i < j => at[i] # at[j]
  PROVE  \A t \in 0..n : \E i \in 0..n : at[i] = t
  <1> DEFINE Apart(f, k) == \A i, j \in 0..k : i # j => f[i] # f[j]
             Onto(f, k) == \A t \in 0..k : \E i \in 0..k : f[i] = t
             S == {k \in Nat : \A f \in [0..k -> 0..k] : Apart(f, k) => Onto(f, k)}
  <1>1. 0 \in S OBVIOUS
  <1>2. ASSUME NEW k \in 0..(n - 1), k \in S PROVE k + 1 \in S
    <2>0. k + 1 \in Nat OBVIOUS
    <2> SUFFICES ASSUME NEW f \in [0..(k + 1) -> 0..(k + 1)], Apart(f, k + 1), NEW t \in 0..(k + 1)
                 PROVE  \E i \in 0..(k + 1) : f[i] = t
      BY <2>0, Zenon
    <2> DEFINE a == f[k + 1]
               g == [i \in 0..k |-> IF f[i] = k + 1 THEN a ELSE f[i]]
    <2>1. k \in Nat /\ a \in 0..(k + 1) /\ 0..k \subseteq 0..(k + 1) /\ k + 1 \in 0..(k + 1) OBVIOUS
    <2>2. \A i \in 0..k : f[i] \in 0..(k + 1) /\ f[i] # a /\ i # k + 1 BY <2>1
    <2>3. g \in [0..k -> 0..k]
      <3>1. ASSUME NEW i \in 0..k PROVE g[i] \in 0..k
        <4>1. f[i] \in 0..(k + 1) /\ f[i] # a BY <2>2
        <4> QED BY <2>1, <4>1
      <3> QED BY <3>1
    <2>4. Apart(g, k) BY <2>1, <2>2
    <2>5. Onto(g, k) BY <1>2, <2>3, <2>4
    <2>6. CASE t = a BY <2>1, <2>6
    <2>7. CASE t # a
      <3>1. CASE t # k + 1
        <4>1. t \in 0..k BY <2>1, <3>1
        <4>2. PICK i \in 0..k : g[i] = t BY <2>5, <4>1
        <4> QED BY <2>1, <2>7, <4>2
      <3>2. CASE t = k + 1
        <4>1. a \in 0..k BY <2>1, <2>7, <3>2
        <4>2. PICK i \in 0..k : g[i] = a BY <2>5, <4>1
        <4> QED BY <2>1, <2>2, <3>2, <4>2
      <3> QED BY <3>1, <3>2
    <2> QED BY <2>6, <2>7
  <1>3. n \in S
    <2> HIDE DEF S
    <2>1. \A i \in 0..n : i \in S BY <1>1, <1>2, UpTo
    <2> QED BY <2>1
  <1> DEFINE f == [i \in 0..n |-> at[i]]
  <1>4. f \in [0..n -> 0..n] OBVIOUS
  <1>5. Apart(f, n)
    <2> SUFFICES ASSUME NEW i \in 0..n, NEW j \in 0..n, i # j PROVE at[i] # at[j] OBVIOUS
    <2>1. i < j \/ j < i OBVIOUS
    <2> QED BY <2>1
  <1>6. Onto(f, n) BY <1>3, <1>4, <1>5
  <1> QED BY <1>6

\* Of some things that have bounded numbers, one comes first.
LEMMA FirstOne ==
  ASSUME NEW A, NEW B \in SUBSET A, B # {}, NEW m \in Nat, NEW lo \in [A -> -m..m]
  PROVE  \E t \in B : \A u \in B : lo[t] <= lo[u]
  <1> DEFINE T == {lo[t] + m : t \in B}
  <1>1. T \in SUBSET Nat /\ T # {} OBVIOUS
  <1>2. PICK n \in T : \A k \in T : n <= k BY <1>1, LeastNumber
  <1>3. PICK t \in B : n = lo[t] + m BY <1>2
  <1>4. ASSUME NEW u \in B PROVE lo[t] <= lo[u]
    <2>1. lo[t] + m <= lo[u] + m BY <1>2, <1>3
    <2>2. lo[t] \in Int /\ lo[u] \in Int OBVIOUS
    <2> QED BY <2>1, <2>2
  <1> QED BY <1>4

\* ... and one last.
LEMMA LastOne ==
  ASSUME NEW A, NEW B \in SUBSET A, B # {}, NEW m \in Nat, NEW lo \in [A -> -m..m]
  PROVE  \E t \in B : \A u \in B : lo[u] <= lo[t]
  <1> DEFINE T == {m - lo[t] : t \in B}
  <1>1. T \in SUBSET Nat /\ T # {} OBVIOUS
  <1>2. PICK n \in T : \A k \in T : n <= k BY <1>1, LeastNumber
  <1>3. PICK t \in B : n = m - lo[t] BY <1>2
  <1>4. ASSUME NEW u \in B PROVE lo[u] <= lo[t]
    <2>1. m - lo[t] <= m - lo[u] BY <1>2, <1>3
    <2>2. lo[t] \in Int /\ lo[u] \in Int OBVIOUS
    <2> QED BY <2>1, <2>2
  <1> QED BY <1>4

-----------------------------------------------------------------------------
(* A loop that goes from i to next[i]                                      *)

\* Where the loop is after i rounds, from x on.
IsLoop(at, N, x, next) == at = [i \in 0..N |-> IF i = 0 THEN x ELSE next[at[i - 1]]]

LEMMA LoopExists ==
  ASSUME NEW N \in Nat, NEW x, NEW next
  PROVE  \E at : IsLoop(at, N, x, next)
  <1> DEFINE Step(g, i) == IF i = 0 THEN x ELSE next[g[i - 1]]
             S == {n \in Nat : \E g : g = [i \in 0..n |-> Step(g, i)]}
  <1>2. 0 \in S
    <2> DEFINE g == [i \in 0..0 |-> x]
    <2>1. g = [i \in 0..0 |-> Step(g, i)] BY SMT
    <2> QED BY <2>1
  <1>3. ASSUME NEW n \in 0..(N - 1), n \in S PROVE n + 1 \in S
    <2>0. n \in Nat OBVIOUS
    <2>1. PICK g : g = [i \in 0..n |-> Step(g, i)] BY <1>3
    <2> DEFINE h == [i \in 0..(n + 1) |-> IF i = n + 1 THEN next[g[n]] ELSE g[i]]
    <2>2. h = [i \in 0..(n + 1) |-> Step(h, i)]
      <3> SUFFICES ASSUME NEW i \in 0..(n + 1) PROVE h[i] = Step(h, i) BY Zenon
      <3>1. CASE i = 0 BY <3>1, <2>0, <2>1
      <3>2. CASE i = n + 1 BY <3>2, <2>0, <2>1
      <3>3. CASE i # 0 /\ i # n + 1
        <4>1. i \in 1..n BY <3>3, <2>0
        <4> QED BY <4>1, <2>0, <2>1
      <3> QED BY <3>1, <3>2, <3>3
    <2>3. n + 1 \in Nat BY <2>0
    <2> QED BY <2>2, <2>3, Zenon
  <1>4. N \in S
    <2> HIDE DEF S
    <2>1. \A i \in 0..N : i \in S BY <1>2, <1>3, UpTo
    <2> QED BY <2>1
  <1> QED BY <1>4, Zenon DEF IsLoop

\* R is the least set that has x and, with a place, the next one, and is within D.
LeastClosed(R, D, x, next) ==
  /\ x \in R /\ R \subseteq D /\ \A y \in R : next[y] \in R
  /\ \A S : (x \in S /\ \A y \in S : next[y] \in S) => R \subseteq S

\* A loop over places 0..N that stays in D passes the least closed set.
LEMMA LoopFacts ==
  ASSUME NEW N \in Nat, NEW D \in SUBSET (0..N), NEW x \in D, NEW next, \A y \in D : next[y] \in D,
         NEW at, IsLoop(at, N, x, next), NEW R, R = {at[n] : n \in 0..N}
  PROVE  LeastClosed(R, D, x, next)
  <1>1. at[0] = x /\ \A n \in 1..N : at[n] = next[at[n - 1]] BY DEF IsLoop
  <1>2. R = {at[n] : n \in 0..N} OBVIOUS
  <1>3. ASSUME NEW S, x \in S, \A y \in S : next[y] \in S PROVE R \subseteq S
    <2> DEFINE T == {n \in 0..N : at[n] \in S}
    <2>1. 0 \in T BY <1>1, <1>3
    <2>2. ASSUME NEW i \in 0..(N - 1), i \in T PROVE i + 1 \in T
      <3>1. i + 1 \in 1..N /\ (i + 1) - 1 = i OBVIOUS
      <3>2. at[i + 1] = next[at[i]] BY <1>1, <3>1
      <3>3. at[i + 1] \in S BY <1>3, <2>2, <3>2
      <3> QED BY <3>1, <3>3
    <2> HIDE DEF T
    <2>3. \A i \in 0..N : i \in T BY <2>1, <2>2, UpTo
    <2> QED BY <1>2, <2>3 DEF T
  <1>4. x \in R BY <1>1, <1>2
  <1>5. R \subseteq D BY <1>3
  <1>6. \A n \in 0..(N - 1) : next[at[n]] \in R
    <2> TAKE n \in 0..(N - 1)
    <2>1. n + 1 \in 1..N /\ n + 1 \in 0..N /\ (n + 1) - 1 = n OBVIOUS
    <2> QED BY <1>1, <1>2, <2>1
  <1>7. next[at[N]] \in R
    <2>1. CASE \E i, j \in 0..N : i < j /\ at[i] = at[j]
      <3>1. PICK i \in 0..N, j \in 0..N : i < j /\ at[i] = at[j] BY <2>1
      <3> DEFINE S == {at[n] : n \in 0..(j - 1)}
      <3>2. x \in S BY <1>1, <3>1
      <3>3. ASSUME NEW n \in 0..(j - 1) PROVE next[at[n]] \in S
        <4>1. n + 1 \in 1..N /\ (n + 1) - 1 = n BY <3>1
        <4>2. next[at[n]] = at[n + 1] BY <1>1, <4>1
        <4>3. CASE n = j - 1
          <5>1. n + 1 = j /\ i \in 0..(j - 1) BY <3>1, <4>3
          <5> QED BY <3>1, <4>2, <5>1
        <4>4. CASE n # j - 1
          <5>1. n + 1 \in 0..(j - 1) BY <3>1, <4>4
          <5> QED BY <4>2, <5>1
        <4> QED BY <4>3, <4>4
      <3>4. \A y \in S : next[y] \in S BY <3>3
      <3>5. S \subseteq R
        <4>1. 0..(j - 1) \subseteq 0..N BY <3>1
        <4> QED BY <1>2, <4>1
      <3> HIDE DEF S
      <3>6. R \subseteq S BY <1>3, <3>2, <3>4
      <3>7. at[N] \in R BY <1>2
      <3> QED BY <3>4, <3>5, <3>6, <3>7
    <2>2. CASE \A i, j \in 0..N : i < j => at[i] # at[j]
      <3>1. \A n \in 0..N : at[n] \in D /\ at[n] \in 0..N BY <1>2, <1>5
      <3>2. \A t \in 0..N : \E n \in 0..N : at[n] = t BY <2>2, <3>1, Pigeonholes
      <3>3. N \in 0..N OBVIOUS
      <3>4. at[N] \in D BY <3>1, <3>3
      <3>5. next[at[N]] \in D BY <3>4
      <3> QED BY <1>2, <3>2, <3>5
    <2> QED BY <2>1, <2>2
  <1>8. ASSUME NEW y \in R PROVE next[y] \in R
    <2>1. PICK n \in 0..N : y = at[n] BY <1>2
    <2>2. n = N \/ n \in 0..(N - 1) OBVIOUS
    <2> QED BY <1>6, <1>7, <2>1, <2>2
  <1> QED BY <1>3, <1>4, <1>5, <1>8 DEF LeastClosed
=============================================================================
