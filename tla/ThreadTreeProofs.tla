-------------------------- MODULE ThreadTreeProofs --------------------------
(***************************************************************************)
(* Proofs about ThreadTree, for a table of any size: the loops along the   *)
(* links pass what they are meant to and end, creating and destroying a    *)
(* thread keeps the links a tree, and the walk of thread_select() finds a  *)
(* runnable thread if the tree has one.                                    *)
(***************************************************************************)
EXTENDS ThreadTree, Induction

-----------------------------------------------------------------------------
(* Loops over links                                                        *)

\* A loop that stays in a set of TCBs: what it passes is the least set that has x
\* and, with a TCB, the next one.
LEMMA ReachedFacts ==
  ASSUME NEW D \in SUBSET Link, NEW x \in D, NEW next, \A y \in D : next[y] \in D
  PROVE  /\ x \in Reached(x, next) /\ Reached(x, next) \subseteq D
         /\ \A y \in Reached(x, next) : next[y] \in Reached(x, next)
         /\ \A S : (x \in S /\ \A y \in S : next[y] \in S) => Reached(x, next) \subseteq S
  <1> DEFINE N == MaxThreads
             at == Rounds(x, next)
             R == Reached(x, next)
  <1>1. N \in Nat /\ Link = 0..N BY TableAssumption DEF Link, Tcbs, Nil
  <1>2. IsLoop(at, N, x, next)
    <2>1. \E g : IsLoop(g, N, x, next) BY <1>1, LoopExists
    <2> QED BY <2>1, Zenon DEF Rounds, IsLoop
  <1>3. R = {at[n] : n \in 0..N} BY DEF Reached
  <1>4. D \in SUBSET (0..N) BY <1>1
  <1> HIDE DEF N, at, R
  <1>5. LeastClosed(R, D, x, next) BY <1>1, <1>2, <1>3, <1>4, LoopFacts
  <1> QED BY <1>5, Zenon DEF R, LeastClosed

\* One round on, it still passes what it passed, but where it was.
LEMMA ReachedNext ==
  ASSUME NEW D \in SUBSET Link, NEW x \in D, NEW next, \A y \in D : next[y] \in D
  PROVE  Reached(x, next) = {x} \cup Reached(next[x], next)
  <1> DEFINE R == Reached(x, next)
             Q == Reached(next[x], next)
  <1>1. /\ x \in R /\ \A y \in R : next[y] \in R
        /\ \A S : (x \in S /\ \A y \in S : next[y] \in S) => R \subseteq S
    BY ReachedFacts
  <1>2. /\ next[x] \in Q /\ \A y \in Q : next[y] \in Q
        /\ \A S : (next[x] \in S /\ \A y \in S : next[y] \in S) => Q \subseteq S
    BY ReachedFacts
  <1> HIDE DEF R, Q
  <1>3. Q \subseteq R BY <1>1, <1>2
  <1>4. R \subseteq {x} \cup Q
    <2> DEFINE S == {x} \cup Q
    <2>1. x \in S /\ \A y \in S : next[y] \in S BY <1>2
    <2> HIDE DEF S
    <2>2. R \subseteq S BY <1>1, <2>1
    <2> QED BY <2>2 DEF S
  <1> QED BY <1>1, <1>3, <1>4 DEF R, Q

\* It ends in one place.
LEMMA OneEnd ==
  ASSUME NEW D \in SUBSET Link, NEW x \in D, NEW next, \A y \in D : next[y] \in D,
         NEW e \in Reached(x, next), next[e] = e
  PROVE  EndOf(x, next) = e
  <1>1. /\ x \in Reached(x, next) /\ Reached(x, next) \subseteq D
        /\ \A S : (x \in S /\ \A y \in S : next[y] \in S) => Reached(x, next) \subseteq S
    BY ReachedFacts
  <1> DEFINE S == {y \in D : e \in Reached(y, next)}
  <1>2. x \in S OBVIOUS
  <1>3. ASSUME NEW y \in S PROVE next[y] \in S
    <2>1. y \in D /\ next[y] \in D /\ e \in Reached(y, next) OBVIOUS
    <2>2. Reached(y, next) = {y} \cup Reached(next[y], next) BY <2>1, ReachedNext
    <2>3. CASE e \in Reached(next[y], next) BY <2>1, <2>3
    <2>4. CASE e = y BY <2>1, <2>4
    <2> QED BY <2>1, <2>2, <2>3, <2>4
  <1>4. Reached(x, next) \subseteq S
    <2> HIDE DEF S
    <2> QED BY <1>1, <1>2, <1>3
  <1>5. ASSUME NEW y \in Reached(x, next), next[y] = y PROVE y = e
    <2>1. y \in D /\ e \in Reached(y, next) BY <1>4
    <2>2. \A T : (y \in T /\ \A z \in T : next[z] \in T) => Reached(y, next) \subseteq T
      BY <2>1, ReachedFacts
    <2>3. y \in {y} /\ \A z \in {y} : next[z] \in {y} BY <1>5
    <2>4. Reached(y, next) \subseteq {y} BY <2>2, <2>3, Zenon
    <2> QED BY <2>1, <2>4
  <1>6. EndOf(x, next) \in Reached(x, next) /\ next[EndOf(x, next)] = EndOf(x, next)
    BY Zenon DEF EndOf
  <1> QED BY <1>5, <1>6

-----------------------------------------------------------------------------
(* The tree, for threads U and links P (parent), C (child), S (sibling)    *)

Tree(U, P, C, S) ==
  /\ U \subseteq Tcbs \ {Root}
  /\ P \in [Tcbs -> Link] /\ C \in [Tcbs -> Link] /\ S \in [Tcbs -> Link]
  /\ \A t \in U : P[t] \in U \cup {Root}
  /\ \A t \in U \cup {Root} : C[t] # Nil => C[t] \in U /\ P[C[t]] = t
  /\ \A t \in U : S[t] # Nil => S[t] \in U /\ P[S[t]] = P[t] /\ C[P[t]] # S[t]
  /\ \A t \in U : C[P[t]] = t \/ \E u \in U : S[u] = t
  /\ \A t, u \in U : S[t] # Nil /\ S[t] = S[u] => t = u

\* The threads numbered from lo to hi, as a walk over the tree meets and leaves
\* them: a thread's numbers are within its parent's and before its sibling's.
Numbered(U, P, S, lo, hi, m) ==
  /\ lo \in [Tcbs -> -m..m] /\ hi \in [Tcbs -> -m..m]
  /\ lo[Root] < hi[Root]
  /\ \A t \in U : lo[P[t]] < lo[t] /\ lo[t] < hi[t] /\ hi[t] < hi[P[t]]
  /\ \A t \in U : S[t] # Nil => hi[t] <= lo[S[t]]

\* The chain that starts at a thread's child is that of its children, and it ends.
LEMMA ChainIsChildren ==
  ASSUME NEW U, NEW P, NEW C, NEW S, Tree(U, P, C, S),
         NEW m \in Nat, NEW lo, NEW hi, Numbered(U, P, S, lo, hi, m), NEW p \in U \cup {Root}
  PROVE  /\ Reached(C[p], Along(S)) \ {Nil} = {t \in U : P[t] = p}
         /\ C[p] # Nil => \E z \in U : P[z] = p /\ S[z] = Nil
  <1> DEFINE K == {t \in U : P[t] = p}
             D == K \cup {Nil}
             next == Along(S)
             R == Reached(C[p], next)
  <1>0. MaxThreads \in Nat /\ MaxThreads >= 3 BY TableAssumption
  <1>1. D \in SUBSET Link /\ Nil \notin K /\ p \in Tcbs
    <2>1. U \subseteq Tcbs BY DEF Tree
    <2>2. Nil \notin Tcbs /\ Root \in Tcbs BY <1>0 DEF Tcbs, Nil, Root
    <2> QED BY <2>1, <2>2 DEF Link
  <1>2. C[p] \in D BY <1>1 DEF Tree
  <1>3. next[Nil] = Nil /\ \A t \in K : next[t] = S[t]
    BY <1>1 DEF Along, Link
  <1>4. \A t \in K : S[t] \in D BY DEF Tree
  <1>5. \A y \in D : next[y] \in D BY <1>3, <1>4
  <1> HIDE DEF next
  <1>6. C[p] \in R /\ R \subseteq D /\ \A y \in R : next[y] \in R
    <2>1. D \in SUBSET Link BY <1>1
    <2> DEFINE c == C[p]
    <2>2. c \in D BY <1>2
    <2> HIDE DEF D, c
    <2>3. /\ c \in Reached(c, next) /\ Reached(c, next) \subseteq D
          /\ \A y \in Reached(c, next) : next[y] \in Reached(c, next)
      BY <1>5, <2>1, <2>2, ReachedFacts
    <2> QED BY <2>3 DEF c
  <1> HIDE DEF R
  <1>7. K \subseteq R
    <2> DEFINE B == K \ R
    <2> SUFFICES ASSUME B # {} PROVE FALSE OBVIOUS
    <2>1. lo \in [Tcbs -> -m..m] BY DEF Numbered
    <2>2. B \in SUBSET Tcbs BY DEF Tree
    <2>3. PICK t \in B : \A u \in B : lo[t] <= lo[u] BY <2>1, <2>2, FirstOne
    <2>4. t \in U /\ P[t] = p /\ t \notin R OBVIOUS
    <2>5. C[p] # t BY <1>6, <2>4
    <2>6. PICK u \in U : S[u] = t BY <2>4, <2>5 DEF Tree
    <2>7. t # Nil BY <1>1, <2>4
    <2>8. P[u] = p BY <2>4, <2>6, <2>7 DEF Tree
    <2>9. u \in K BY <2>8
    <2>10. lo[u] < hi[u] /\ hi[u] <= lo[t] BY <2>6, <2>7 DEF Numbered
    <2>11. hi[u] \in Int /\ lo[u] \in Int /\ lo[t] \in Int BY <2>2, <2>4 DEF Numbered, Tree
    <2>12. ~(lo[t] <= lo[u]) BY <2>10, <2>11
    <2>13. u \in R BY <2>3, <2>9, <2>12
    <2> QED BY <1>3, <1>6, <2>4, <2>6, <2>9, <2>13
  <1>8. R \ {Nil} = K BY <1>1, <1>6, <1>7
  <1>9. ASSUME C[p] # Nil PROVE \E z \in U : P[z] = p /\ S[z] = Nil
    <2>1. K # {} BY <1>2, <1>9
    <2>2. lo \in [Tcbs -> -m..m] /\ K \in SUBSET Tcbs BY DEF Numbered, Tree
    <2>3. PICK z \in K : \A u \in K : lo[u] <= lo[z] BY <2>1, <2>2, LastOne
    <2>4. CASE S[z] # Nil
      <3>1. S[z] \in K BY <1>4, <2>4
      <3>2. lo[z] < hi[z] /\ hi[z] <= lo[S[z]] BY <2>4 DEF Numbered
      <3>3. hi[z] \in Int /\ lo[z] \in Int /\ lo[S[z]] \in Int BY <2>2, <3>1 DEF Numbered
      <3> QED BY <2>3, <3>1, <3>2, <3>3
    <2> QED BY <2>4
  <1> QED BY <1>8, <1>9 DEF R, next

\* What thread_create() makes of the links: thr becomes a child of c, behind z if
\* c has children.
Appended(U, P, C, S, thr, c, z, P2, C2, S2) ==
  /\ P2 \in [Tcbs -> Link] /\ C2 \in [Tcbs -> Link] /\ S2 \in [Tcbs -> Link]
  /\ C[c] # Nil => z \in U /\ P[z] = c /\ S[z] = Nil
  /\ P2[thr] = c /\ C2[thr] = Nil /\ S2[thr] = Nil
  /\ \A t \in Tcbs \ {thr} : P2[t] = P[t]
  /\ \A t \in Tcbs \ {thr} : C2[t] = IF t = c /\ C[c] = Nil THEN thr ELSE C[t]
  /\ \A t \in Tcbs \ {thr} : S2[t] = IF t = z /\ C[c] # Nil THEN thr ELSE S[t]

\* The links stay a tree.
LEMMA AttachTree ==
  ASSUME NEW U, NEW P, NEW C, NEW S, Tree(U, P, C, S),
         NEW thr \in Tcbs, thr \notin U, thr # Root, NEW c \in U \cup {Root},
         NEW z, NEW P2, NEW C2, NEW S2, Appended(U, P, C, S, thr, c, z, P2, C2, S2)
  PROVE  Tree(U \cup {thr}, P2, C2, S2)
  <1> DEFINE V == U \cup {thr}
  <1> USE DEF Appended
  <1>0. /\ U \subseteq Tcbs \ {Root} /\ Root \in Tcbs /\ Nil \notin Tcbs /\ thr # Nil /\ Nil # Root
    BY TableAssumption DEF Tree, Tcbs, Nil, Root
  <1>1. /\ \A t \in U : P[t] \in U \cup {Root}
        /\ \A t \in U \cup {Root} : C[t] # Nil => C[t] \in U /\ P[C[t]] = t
        /\ \A t \in U : S[t] # Nil => S[t] \in U /\ P[S[t]] = P[t] /\ C[P[t]] # S[t]
        /\ \A t \in U : C[P[t]] = t \/ \E u \in U : S[u] = t
        /\ \A t, u \in U : S[t] # Nil /\ S[t] = S[u] => t = u
    BY DEF Tree
  <1>2. /\ \A t \in U : P2[t] = P[t]
        /\ \A t \in U \cup {Root} : C2[t] = IF t = c /\ C[c] = Nil THEN thr ELSE C[t]
        /\ \A t \in U : S2[t] = IF t = z /\ C[c] # Nil THEN thr ELSE S[t]
    BY <1>0
  <1>3. \A t \in V : P2[t] \in V \cup {Root} BY <1>1, <1>2
  <1>4. ASSUME NEW t \in V \cup {Root}, C2[t] # Nil PROVE C2[t] \in V /\ P2[C2[t]] = t
    <2>1. t \in U \cup {Root} BY <1>4
    <2>2. CASE t = c /\ C[c] = Nil BY <1>2, <2>1, <2>2
    <2>3. CASE ~(t = c /\ C[c] = Nil)
      <3>1. C2[t] = C[t] BY <1>2, <2>1, <2>3
      <3>2. C[t] \in U /\ P[C[t]] = t BY <1>1, <1>4, <2>1, <3>1
      <3> QED BY <1>2, <3>1, <3>2
    <2> QED BY <2>2, <2>3
  <1>5. ASSUME NEW t \in V, S2[t] # Nil
        PROVE  S2[t] \in V /\ P2[S2[t]] = P2[t] /\ C2[P2[t]] # S2[t]
    <2>1. t \in U BY <1>5
    <2>2. CASE t = z /\ C[c] # Nil
      <3>1. S2[t] = thr /\ P2[t] = c BY <1>2, <2>1, <2>2
      <3>2. C2[c] = C[c] /\ C[c] \in U BY <1>1, <1>2, <2>2
      <3> QED BY <3>1, <3>2
    <2>3. CASE ~(t = z /\ C[c] # Nil)
      <3>1. S2[t] = S[t] BY <1>2, <2>1, <2>3
      <3>2. S[t] \in U /\ P[S[t]] = P[t] /\ C[P[t]] # S[t] /\ P[t] \in U \cup {Root}
        BY <1>1, <1>5, <2>1, <3>1
      <3>3. P2[S[t]] = P[t] /\ P2[t] = P[t] BY <1>2, <2>1, <3>2
      <3>4. C2[P[t]] # S[t] BY <1>2, <3>2
      <3> QED BY <3>1, <3>2, <3>3, <3>4
    <2> QED BY <2>2, <2>3
  <1>6. ASSUME NEW t \in V PROVE C2[P2[t]] = t \/ \E u \in V : S2[u] = t
    <2>1. CASE t = thr
      <3>1. CASE C[c] = Nil BY <1>2, <2>1, <3>1
      <3>2. CASE C[c] # Nil BY <1>2, <2>1, <3>2
      <3> QED BY <3>1, <3>2
    <2>2. CASE t \in U
      <3>1. P2[t] = P[t] /\ P[t] \in U \cup {Root} /\ t # Nil BY <1>0, <1>1, <1>2, <2>2
      <3>2. CASE C[P[t]] = t
        <4>1. ~(P[t] = c /\ C[c] = Nil) BY <3>1, <3>2
        <4> QED BY <1>2, <3>1, <3>2, <4>1
      <3>3. CASE \E u \in U : S[u] = t
        <4>1. PICK u \in U : S[u] = t BY <3>3
        <4>2. ~(u = z /\ C[c] # Nil) BY <3>1, <4>1
        <4>3. S2[u] = t BY <1>2, <4>1, <4>2
        <4> QED BY <4>3
      <3> QED BY <1>1, <2>2, <3>2, <3>3
    <2> QED BY <2>1, <2>2
  <1>7. ASSUME NEW t \in V, NEW u \in V, S2[t] # Nil, S2[t] = S2[u] PROVE t = u
    <2>1. t \in U /\ u \in U BY <1>7
    <2>2. \A v \in U : S[v] # thr BY <1>0, <1>1
    <2>3. S2[t] = (IF t = z /\ C[c] # Nil THEN thr ELSE S[t])
          /\ S2[u] = (IF u = z /\ C[c] # Nil THEN thr ELSE S[u])
      BY <1>2, <2>1
    <2>4. CASE t = z /\ C[c] # Nil BY <1>7, <2>1, <2>2, <2>3, <2>4
    <2>5. CASE ~(t = z /\ C[c] # Nil)
      <3>1. S2[t] = S[t] BY <2>3, <2>5
      <3>2. S[u] = S[t] BY <1>7, <2>1, <2>2, <2>3, <3>1
      <3> QED BY <1>1, <1>7, <2>1, <3>1, <3>2
    <2> QED BY <2>4, <2>5
  <1>8. V \subseteq Tcbs \ {Root} BY <1>0
  <1> HIDE DEF V
  <1>9. Tree(V, P2, C2, S2) BY <1>3, <1>4, <1>5, <1>6, <1>7, <1>8 DEF Tree
  <1> QED BY <1>9 DEF V

\* The numbers from the caller's last one on make room.
LEMMA AttachNumbers ==
  ASSUME NEW U, NEW P, NEW C, NEW S, Tree(U, P, C, S),
         NEW m \in Nat, NEW lo, NEW hi, Numbered(U, P, S, lo, hi, m),
         NEW thr \in Tcbs, thr \notin U, thr # Root, NEW c \in U \cup {Root},
         NEW z, NEW P2, NEW C2, NEW S2, Appended(U, P, C, S, thr, c, z, P2, C2, S2)
  PROVE  \E n \in Nat : \E lo2, hi2 : Numbered(U \cup {thr}, P2, S2, lo2, hi2, n)
  <1> DEFINE H == hi[c]
             f(v) == IF v < H THEN v ELSE v + 2
             lo2 == [t \in Tcbs |-> IF t = thr THEN H ELSE f(lo[t])]
             hi2 == [t \in Tcbs |-> IF t = thr THEN H + 1 ELSE f(hi[t])]
             n == m + 2
             V == U \cup {thr}
  <1> USE DEF Appended
  <1>0. /\ U \subseteq Tcbs \ {Root} /\ Root \in Tcbs /\ Nil \notin Tcbs
        /\ \A t \in U : P[t] \in U \cup {Root}
        /\ \A t \in U : S[t] # Nil => S[t] \in U
    BY TableAssumption DEF Tree, Tcbs, Nil, Root
  <1>1. /\ lo \in [Tcbs -> -m..m] /\ hi \in [Tcbs -> -m..m] /\ lo[Root] < hi[Root]
        /\ \A t \in U : lo[P[t]] < lo[t] /\ lo[t] < hi[t] /\ hi[t] < hi[P[t]]
        /\ \A t \in U : S[t] # Nil => hi[t] <= lo[S[t]]
    BY DEF Numbered
  <1>2. c \in Tcbs /\ c # thr /\ H \in -m..m /\ lo[c] < H BY <1>0, <1>1
  <1> HIDE DEF H
  <1>3. n \in Nat /\ \A v \in -m..m : f(v) \in -n..n OBVIOUS
  <1>4. \A v, w \in Int : (v < w => f(v) < f(w)) /\ (v <= w => f(v) <= f(w)) BY <1>2
  <1>5. \A t \in Tcbs : lo[t] \in Int /\ hi[t] \in Int BY <1>1
  <1>6. f(H) = H + 2 /\ \A v \in Int : v < H => f(v) = v BY <1>2
  <1> HIDE DEF f
  <1>7. lo2 \in [Tcbs -> -n..n] /\ hi2 \in [Tcbs -> -n..n]
    <2>1. H \in -n..n /\ H + 1 \in -n..n BY <1>2
    <2> HIDE DEF n
    <2> QED BY <1>1, <1>3, <2>1
  <1>8. /\ \A t \in Tcbs \ {thr} : lo2[t] = f(lo[t]) /\ hi2[t] = f(hi[t])
        /\ lo2[thr] = H /\ hi2[thr] = H + 1
    OBVIOUS
  <1> HIDE DEF lo2, hi2, n
  <1>9. lo2[Root] < hi2[Root] BY <1>0, <1>1, <1>4, <1>5, <1>8
  <1>10. ASSUME NEW t \in V
         PROVE  lo2[P2[t]] < lo2[t] /\ lo2[t] < hi2[t] /\ hi2[t] < hi2[P2[t]]
    <2>1. CASE t = thr
      <3>1. lo2[c] = lo[c] /\ hi2[c] = H + 2 BY <1>2, <1>5, <1>6, <1>8 DEF H
      <3> QED BY <1>2, <1>8, <2>1, <3>1
    <2>2. CASE t \in U
      <3>1. P2[t] = P[t] /\ P[t] \in Tcbs \ {thr} /\ t \in Tcbs \ {thr} BY <1>0, <2>2
      <3> QED BY <1>1, <1>4, <1>5, <1>8, <2>2, <3>1
    <2> QED BY <2>1, <2>2
  <1>11. ASSUME NEW t \in V, S2[t] # Nil PROVE hi2[t] <= lo2[S2[t]]
    <2>1. t \in U /\ t \in Tcbs \ {thr} BY <1>0, <1>11
    <2>2. CASE t = z /\ C[c] # Nil
      <3>1. S2[t] = thr /\ hi[t] < H BY <1>1, <2>1, <2>2 DEF H
      <3> QED BY <1>2, <1>5, <1>6, <1>8, <2>1, <3>1
    <2>3. CASE ~(t = z /\ C[c] # Nil)
      <3>1. S2[t] = S[t] /\ S[t] \in Tcbs \ {thr} BY <1>0, <1>11, <2>1, <2>3
      <3> QED BY <1>1, <1>4, <1>5, <1>8, <1>11, <2>1, <3>1
    <2> QED BY <2>2, <2>3
  <1>12. Numbered(V, P2, S2, lo2, hi2, n)
    <2> HIDE DEF V
    <2> QED BY <1>7, <1>9, <1>10, <1>11 DEF Numbered
  <1> QED BY <1>3, <1>12, Zenon

\* What thread_destroy() makes of the links: thr, a child of q behind prev if it is
\* not the first, is unlinked, and its children, the last of which is z, are put
\* before those of c.
Spliced(U, P, C, S, thr, c, prev, z, P2, C2, S2) ==
  LET q == P[thr]
      C1(t) == IF t = q /\ C[q] = thr THEN S[thr] ELSE C[t]
      S1(t) == IF t = prev /\ C[q] # thr THEN S[thr] ELSE S[t]
  IN  /\ P2 \in [Tcbs -> Link] /\ C2 \in [Tcbs -> Link] /\ S2 \in [Tcbs -> Link]
      /\ \A t \in U : P2[t] = IF P[t] = thr THEN c ELSE P[t]
      /\ \A t \in U \cup {Root} : C2[t] = IF t = c /\ C[thr] # Nil THEN C[thr] ELSE C1(t)
      /\ \A t \in U : S2[t] = IF t = z /\ C[thr] # Nil THEN C1(c) ELSE S1(t)
      /\ C[q] # thr => prev \in U /\ S[prev] = thr
      /\ C[thr] # Nil => z \in U /\ P[z] = thr /\ S[z] = Nil
      /\ C[thr] = Nil => \A t \in U : P[t] # thr

LEMMA DetachTree ==
  ASSUME NEW U, NEW P, NEW C, NEW S, Tree(U, P, C, S),
         NEW thr \in U, NEW c \in U \cup {Root}, c # thr, P[thr] # thr,
         \A t \in U : S[t] # t,
         NEW prev, NEW z, NEW P2, NEW C2, NEW S2, Spliced(U, P, C, S, thr, c, prev, z, P2, C2, S2)
  PROVE  Tree(U \ {thr}, P2, C2, S2)
  <1> DEFINE V == U \ {thr}
             q == P[thr]
             k == C[thr]
             C1(t) == IF t = q /\ C[q] = thr THEN S[thr] ELSE C[t]
             S1(t) == IF t = prev /\ C[q] # thr THEN S[thr] ELSE S[t]
  <1>0. U \subseteq Tcbs \ {Root} /\ Nil \notin U /\ Nil # Root
    BY TableAssumption DEF Tree, Tcbs, Nil, Root
  <1>1. /\ \A t \in U : P[t] \in U \cup {Root}
        /\ \A t \in U \cup {Root} : C[t] # Nil => C[t] \in U /\ P[C[t]] = t
        /\ \A t \in U : S[t] # Nil => S[t] \in U /\ P[S[t]] = P[t] /\ C[P[t]] # S[t]
        /\ \A t \in U : C[P[t]] = t \/ \E u \in U : S[u] = t
        /\ \A t, u \in U : S[t] # Nil /\ S[t] = S[u] => t = u
    BY DEF Tree
  <1>2. /\ \A t \in U : P2[t] = IF P[t] = thr THEN c ELSE P[t]
        /\ \A t \in U \cup {Root} : C2[t] = IF t = c /\ k # Nil THEN k ELSE C1(t)
        /\ \A t \in U : S2[t] = IF t = z /\ k # Nil THEN C1(c) ELSE S1(t)
        /\ C[q] # thr => prev \in U /\ S[prev] = thr
        /\ k # Nil => z \in U /\ P[z] = thr /\ S[z] = Nil
        /\ k = Nil => \A t \in U : P[t] # thr
    BY DEF Spliced
  <1>3. q \in U \cup {Root} /\ q # thr /\ thr # Nil BY <1>0, <1>1
  <1>4. k # Nil => k \in V /\ P[k] = thr /\ z \in V BY <1>1, <1>2, <1>3
  <1>5. C[q] # thr => prev \in V /\ P[prev] = q
    <2> SUFFICES ASSUME C[q] # thr PROVE prev \in V /\ P[prev] = q OBVIOUS
    <2>1. prev \in U /\ S[prev] = thr BY <1>2
    <2> QED BY <1>1, <1>3, <2>1
  <1>6. S[thr] # Nil => S[thr] \in V /\ P[S[thr]] = q /\ C[q] # S[thr] BY <1>1
  \* The list of q without thr.
  <1>7. ASSUME NEW t \in V \cup {Root}, C1(t) # Nil PROVE C1(t) \in V /\ P[C1(t)] = t
    <2>1. CASE t = q /\ C[q] = thr BY <1>6, <1>7, <2>1
    <2>2. CASE ~(t = q /\ C[q] = thr)
      <3>1. C1(t) = C[t] BY <2>2
      <3>2. C[t] \in U /\ P[C[t]] = t BY <1>1, <1>7, <3>1
      <3>3. C[t] # thr BY <2>2, <3>2
      <3> QED BY <3>1, <3>2, <3>3
    <2> QED BY <2>1, <2>2
  <1>8. ASSUME NEW t \in V, ~(t = prev /\ C[q] # thr) PROVE S[t] # thr
    <2> SUFFICES ASSUME S[t] = thr PROVE FALSE OBVIOUS
    <2>1. P[t] = q /\ C[q] # thr BY <1>1, <1>3
    <2>2. t = prev BY <1>1, <1>2, <1>3, <2>1
    <2> QED BY <1>8, <2>1, <2>2
  <1>9. \A t \in V : S[t] # Nil => S[t] # S[thr] BY <1>1
  <1>10. \A t \in V : P2[t] \in V \cup {Root} BY <1>1, <1>2
  <1>11. \A t \in V : P[t] # thr => P2[t] = P[t] BY <1>2
  <1>12. \A t \in V : P[t] = thr => P2[t] = c /\ k # Nil BY <1>2
  <1>13. ASSUME NEW t \in V \cup {Root}, C2[t] # Nil PROVE C2[t] \in V /\ P2[C2[t]] = t
    <2>1. CASE t = c /\ k # Nil
      <3>1. C2[t] = k BY <1>2, <2>1
      <3> QED BY <1>4, <1>12, <2>1, <3>1
    <2>2. CASE ~(t = c /\ k # Nil)
      <3>1. C2[t] = C1(t) BY <1>2, <2>2
      <3>2. C1(t) \in V /\ P[C1(t)] = t /\ t # thr BY <1>0, <1>3, <1>7, <1>13, <3>1
      <3> HIDE DEF C1
      <3> QED BY <1>11, <3>1, <3>2
    <2> QED BY <2>1, <2>2
  <1>14. ASSUME NEW t \in V, S2[t] # Nil
         PROVE  S2[t] \in V /\ P2[S2[t]] = P2[t] /\ C2[P2[t]] # S2[t]
    <2>1. CASE t = z /\ k # Nil
      <3>1. S2[t] = C1(c) /\ P2[t] = c /\ C2[c] = k BY <1>2, <2>1
      <3>2. C1(c) \in V /\ P[C1(c)] = c BY <1>7, <1>14, <3>1
      <3> HIDE DEF C1
      <3>3. P2[C1(c)] = c BY <1>11, <3>2
      <3> QED BY <1>4, <2>1, <3>1, <3>2, <3>3
    <2>2. CASE ~(t = z /\ k # Nil) /\ t = prev /\ C[q] # thr
      <3>1. S2[t] = S[thr] BY <1>2, <2>2
      <3>2. S[thr] \in V /\ P[S[thr]] = q /\ C[q] # S[thr] /\ P[t] = q
        BY <1>5, <1>6, <1>14, <2>2, <3>1
      <3>3. P2[S[thr]] = q /\ P2[t] = q BY <1>3, <1>11, <2>2, <3>2
      <3>4. C2[q] = IF q = c /\ k # Nil THEN k ELSE C[q] BY <1>2, <1>3, <2>2
      <3>5. C2[q] # S[thr] BY <1>3, <1>4, <3>2, <3>4
      <3> QED BY <3>1, <3>2, <3>3, <3>5
    <2>3. CASE ~(t = z /\ k # Nil) /\ ~(t = prev /\ C[q] # thr)
      <3>1. S2[t] = S[t] BY <1>2, <2>3
      <3>2. S[t] \in V /\ P[S[t]] = P[t] /\ C[P[t]] # S[t] BY <1>1, <1>8, <1>14, <2>3, <3>1
      <3>3. P2[S[t]] = P2[t] BY <1>2, <3>2
      <3>4. CASE P[t] = thr
        <4>1. C2[c] = k /\ P2[t] = c BY <1>2, <1>12, <3>4
        <4> QED BY <3>1, <3>2, <3>3, <3>4, <4>1
      <3>5. CASE P[t] # thr
        <4> DEFINE r == P[t]
        <4>1. P2[t] = r /\ r \in U \cup {Root} BY <1>1, <1>11, <3>5
        <4>2. CASE r = c /\ k # Nil
          <5>1. C2[r] = k BY <1>2, <4>1, <4>2
          <5> QED BY <1>4, <3>1, <3>2, <3>3, <3>5, <4>1, <4>2, <5>1
        <4>3. CASE ~(r = c /\ k # Nil)
          <5>1. C2[r] = C1(r) BY <1>2, <4>1, <4>3
          <5>2. C1(r) # S[t] BY <1>9, <1>14, <3>1, <3>2
          <5> HIDE DEF C1, r
          <5> QED BY <3>1, <3>2, <3>3, <4>1, <5>1, <5>2
        <4> QED BY <4>2, <4>3
      <3> QED BY <3>4, <3>5
    <2> QED BY <2>1, <2>2, <2>3
  <1>15. ASSUME NEW t \in V PROVE C2[P2[t]] = t \/ \E u \in V : S2[u] = t
    <2>0. t \in U /\ t # Nil BY <1>0
    <2>1. CASE P[t] = thr
      <3>1. P2[t] = c /\ k # Nil /\ C2[c] = k BY <1>2, <1>12, <2>1
      <3>2. CASE C[thr] = t BY <3>1, <3>2
      <3>3. CASE C[thr] # t
        <4>1. PICK u \in U : S[u] = t BY <1>1, <2>0, <2>1, <3>3
        <4>2. P[u] = thr /\ u \in V BY <1>1, <1>3, <2>0, <2>1, <4>1
        <4>3. u # z /\ ~(u = prev /\ C[q] # thr) BY <1>2, <1>3, <1>5, <2>0, <3>1, <4>1, <4>2
        <4>4. S2[u] = t BY <1>2, <4>1, <4>3
        <4> QED BY <4>2, <4>4
      <3> QED BY <3>2, <3>3
    <2>2. CASE P[t] # thr /\ C[P[t]] = t
      <3> DEFINE r == P[t]
      <3>1. P2[t] = r /\ r \in U \cup {Root} /\ C1(r) = t BY <1>1, <1>2, <2>0, <2>2
      <3>2. CASE r = c /\ k # Nil
        <4>1. S2[z] = C1(c) /\ z \in V BY <1>2, <1>4, <3>2
        <4> QED BY <3>1, <3>2, <4>1
      <3>3. CASE ~(r = c /\ k # Nil)
        <4>1. C2[r] = C1(r) BY <1>2, <3>1, <3>3
        <4> QED BY <3>1, <4>1
      <3> QED BY <3>2, <3>3
    <2>3. CASE P[t] # thr /\ C[P[t]] # t
      <3>1. PICK u \in U : S[u] = t BY <1>1, <2>0, <2>3
      <3>2. CASE u = thr
        <4>1. P[t] = q /\ P2[t] = q BY <1>1, <1>11, <2>0, <2>3, <3>1, <3>2
        <4>2. CASE C[q] = thr
          <5>1. C1(q) = t BY <3>1, <3>2, <4>2
          <5>2. CASE q = c /\ k # Nil
            <6>1. S2[z] = C1(c) /\ z \in V BY <1>2, <1>4, <5>2
            <6> QED BY <5>1, <5>2, <6>1
          <5>3. CASE ~(q = c /\ k # Nil)
            <6>1. C2[q] = C1(q) BY <1>2, <1>3, <5>3
            <6> QED BY <4>1, <5>1, <6>1
          <5> QED BY <5>2, <5>3
        <4>3. CASE C[q] # thr
          <5>1. prev \in V /\ P[prev] = q BY <1>5, <4>3
          <5>2. ~(prev = z /\ k # Nil) BY <1>2, <1>3, <5>1
          <5>3. S2[prev] = S[thr] BY <1>2, <4>3, <5>1, <5>2
          <5> QED BY <3>1, <3>2, <5>1, <5>3
        <4> QED BY <4>2, <4>3
      <3>3. CASE u # thr
        <4>1. ~(u = z /\ k # Nil) BY <1>2, <2>0, <3>1
        <4>2. ~(u = prev /\ C[q] # thr) BY <1>2, <3>1
        <4>3. S2[u] = t BY <1>2, <3>1, <4>1, <4>2
        <4> QED BY <3>3, <4>3
      <3> QED BY <3>2, <3>3
    <2> QED BY <2>1, <2>2, <2>3
  <1>16. ASSUME NEW t \in V, ~(t = z /\ k # Nil), S2[t] # Nil PROVE ~(k # Nil /\ S2[t] = C1(c))
    <2> SUFFICES ASSUME k # Nil, S2[t] = C1(c) PROVE FALSE OBVIOUS
    <2>1. C1(c) # Nil BY <1>16
    <2>2. CASE c = q /\ C[q] = thr
      <3>1. C1(c) = S[thr] /\ S2[t] = S[t] BY <1>2, <1>16, <2>2
      <3> QED BY <1>9, <1>16, <3>1
    <2>3. CASE ~(c = q /\ C[q] = thr)
      <3>1. C1(c) = C[c] /\ P[C[c]] = c BY <1>1, <2>1, <2>3
      <3>2. CASE t = prev /\ C[q] # thr
        <4>1. S2[t] = S[thr] BY <1>2, <1>16, <3>2
        <4> QED BY <1>6, <1>16, <3>1, <4>1
      <3>3. CASE ~(t = prev /\ C[q] # thr)
        <4>1. S2[t] = S[t] BY <1>2, <1>16, <3>3
        <4>2. P[S[t]] = P[t] /\ C[P[t]] # S[t] BY <1>1, <1>16, <4>1
        <4> QED BY <3>1, <4>1, <4>2
      <3> QED BY <3>2, <3>3
    <2> QED BY <2>2, <2>3
  <1>17. ASSUME NEW t \in V, NEW u \in V, S2[t] # Nil, S2[t] = S2[u] PROVE t = u
    <2>1. CASE t = z /\ k # Nil
      <3>1. S2[t] = C1(c) BY <1>2, <2>1
      <3> HIDE DEF C1
      <3> QED BY <1>16, <1>17, <2>1, <3>1
    <2>2. CASE u = z /\ k # Nil
      <3>1. S2[u] = C1(c) BY <1>2, <2>2
      <3> HIDE DEF C1
      <3> QED BY <1>16, <1>17, <2>2, <3>1
    <2>3. CASE ~(t = z /\ k # Nil) /\ ~(u = z /\ k # Nil)
      <3>1. S2[t] = S1(t) /\ S2[u] = S1(u) BY <1>2, <2>3
      <3>2. CASE t = prev /\ C[q] # thr
        <4>1. S2[u] = S[thr] BY <1>17, <3>1, <3>2
        <4>2. CASE u # prev
          <5>1. S2[u] = S[u] BY <3>1, <4>2
          <5> QED BY <1>9, <1>17, <4>1, <5>1
        <4> QED BY <3>2, <4>2
      <3>3. CASE u = prev /\ C[q] # thr
        <4>1. S2[t] = S[thr] BY <1>17, <3>1, <3>3
        <4>2. CASE t # prev
          <5>1. S2[t] = S[t] BY <3>1, <4>2
          <5> QED BY <1>9, <1>17, <4>1, <5>1
        <4> QED BY <3>3, <4>2
      <3>4. CASE ~(t = prev /\ C[q] # thr) /\ ~(u = prev /\ C[q] # thr)
        <4>1. S2[t] = S[t] /\ S2[u] = S[u] BY <3>1, <3>4
        <4>2. S[t] # Nil /\ S[t] = S[u] /\ t \in U /\ u \in U BY <1>17, <4>1
        <4> QED BY <1>1, <4>2
      <3> QED BY <3>2, <3>3, <3>4
    <2> QED BY <2>1, <2>2, <2>3
  <1>18. V \subseteq Tcbs \ {Root} /\ P2 \in [Tcbs -> Link] /\ C2 \in [Tcbs -> Link]
         /\ S2 \in [Tcbs -> Link]
    BY <1>0 DEF Spliced
  <1> HIDE DEF V, C1, S1, q, k
  <1>19. Tree(V, P2, C2, S2) BY <1>10, <1>13, <1>14, <1>15, <1>17, <1>18 DEF Tree
  <1> QED BY <1>19 DEF V

\* The threads below thr move to the numbers behind the caller's first one, which
\* make room for them.
LEMMA DetachNumbers ==
  ASSUME NEW U, NEW P, NEW C, NEW S, Tree(U, P, C, S),
         NEW m \in Nat, NEW lo, NEW hi, Numbered(U, P, S, lo, hi, m),
         NEW thr \in U, NEW c \in U \cup {Root}, c # thr,
         NEW B \in SUBSET (U \ {thr}), c \notin B,
         \A t \in U \ {thr} : t \in B <=> P[t] \in B \cup {thr},
         NEW prev, NEW z, NEW P2, NEW C2, NEW S2, Spliced(U, P, C, S, thr, c, prev, z, P2, C2, S2)
  PROVE  \E n \in Nat : \E lo2, hi2 : Numbered(U \ {thr}, P2, S2, lo2, hi2, n)
  <1> DEFINE V == U \ {thr}
             q == P[thr]
             a == lo[thr]
             w == hi[thr] - a
             L == lo[c]
             f(v) == IF v <= L THEN v ELSE v + w
             g(v) == v - a + L
             lo2 == [t \in Tcbs |-> IF t \in B THEN g(lo[t]) ELSE f(lo[t])]
             hi2 == [t \in Tcbs |-> IF t \in B THEN g(hi[t]) ELSE f(hi[t])]
             n == m + m + m
             C1(t) == IF t = q /\ C[q] = thr THEN S[thr] ELSE C[t]
  <1>0. /\ U \subseteq Tcbs \ {Root} /\ Root \in Tcbs /\ Nil \notin U /\ Nil # Root
        /\ \A t \in U : P[t] \in U \cup {Root}
        /\ \A t \in U \cup {Root} : C[t] # Nil => C[t] \in U /\ P[C[t]] = t
        /\ \A t \in U : S[t] # Nil => S[t] \in U /\ P[S[t]] = P[t] /\ C[P[t]] # S[t]
    BY TableAssumption DEF Tree, Tcbs, Nil, Root
  <1>1. /\ lo \in [Tcbs -> -m..m] /\ hi \in [Tcbs -> -m..m] /\ lo[Root] < hi[Root]
        /\ \A t \in U : lo[P[t]] < lo[t] /\ lo[t] < hi[t] /\ hi[t] < hi[P[t]]
        /\ \A t \in U : S[t] # Nil => hi[t] <= lo[S[t]]
    BY DEF Numbered
  <1>2. /\ \A t \in U : P2[t] = IF P[t] = thr THEN c ELSE P[t]
        /\ \A t \in U : S2[t] = IF t = z /\ C[thr] # Nil THEN C1(c)
                                ELSE IF t = prev /\ C[q] # thr THEN S[thr] ELSE S[t]
        /\ C[q] # thr => prev \in U /\ S[prev] = thr
        /\ C[thr] # Nil => z \in U /\ P[z] = thr /\ S[z] = Nil
    BY DEF Spliced
  <1>3. \A t \in Tcbs : lo[t] \in -m..m /\ hi[t] \in -m..m BY <1>1
  <1>4. c \in Tcbs /\ thr \in Tcbs /\ a \in -m..m /\ L \in -m..m /\ hi[thr] \in -m..m /\ a < hi[thr]
        /\ L < hi[c]
    BY <1>0, <1>1
  <1>5. w \in Int /\ w > 0 /\ w <= m + m BY <1>4
  <1> HIDE DEF a, L
  <1>6. n \in Nat /\ \A v \in -m..m : f(v) \in -n..n /\ g(v) \in -n..n BY <1>4, <1>5
  <1> HIDE DEF w
  <1>7. /\ \A v, x \in Int : (v < x => f(v) < f(x)) /\ (v <= x => f(v) <= f(x))
        /\ \A v, x \in Int : (v < x => g(v) < g(x)) /\ (v <= x => g(v) <= g(x))
    BY <1>4, <1>5
  <1>8. /\ f(L) = L /\ \A v \in Int : v > L => f(v) > L + w
        /\ \A v \in Int : v > a => g(v) > L
    BY <1>4, <1>5
  <1>9. \A v \in Int : v < hi[thr] => g(v) < L + w BY <1>4 DEF w
  <1>10. \A t \in Tcbs : lo[t] \in Int /\ hi[t] \in Int BY <1>3
  <1>11. lo2 \in [Tcbs -> -n..n] /\ hi2 \in [Tcbs -> -n..n]
    <2> HIDE DEF f, g, n
    <2> QED BY <1>3, <1>6
  <1> HIDE DEF f, g
  <1>12. /\ \A t \in Tcbs : t \in B => lo2[t] = g(lo[t]) /\ hi2[t] = g(hi[t])
         /\ \A t \in Tcbs : t \notin B => lo2[t] = f(lo[t]) /\ hi2[t] = f(hi[t])
    OBVIOUS
  <1> HIDE DEF lo2, hi2, n
  <1>13. lo2[Root] < hi2[Root] BY <1>0, <1>1, <1>7, <1>10, <1>12
  <1>14. L + w \in Int BY <1>4, <1>5
  <1>15. ASSUME NEW t \in V
         PROVE  lo2[P2[t]] < lo2[t] /\ lo2[t] < hi2[t] /\ hi2[t] < hi2[P2[t]]
    <2>1. t \in Tcbs /\ P[t] \in Tcbs BY <1>0
    <2>2. lo[P[t]] < lo[t] /\ lo[t] < hi[t] /\ hi[t] < hi[P[t]] BY <1>1
    <2>3. CASE P[t] = thr
      <3>1. P2[t] = c /\ t \in B BY <1>2, <2>3
      <3>2. lo2[c] = L /\ hi2[c] > L + w BY <1>4, <1>8, <1>10, <1>12 DEF L
      <3>3. lo2[t] > L /\ hi2[t] < L + w BY <1>8, <1>9, <1>10, <1>12, <2>1, <2>2, <2>3, <3>1 DEF a
      <3>4. lo2[t] < hi2[t] BY <1>7, <1>10, <1>12, <2>1, <2>2, <3>1
      <3>5. lo2[t] \in Int /\ hi2[t] \in Int /\ hi2[c] \in Int /\ L \in Int
        BY <1>4, <1>6, <1>11, <2>1
      <3> QED BY <1>14, <3>1, <3>2, <3>3, <3>4, <3>5
    <2>4. CASE P[t] # thr
      <3>1. P2[t] = P[t] /\ (t \in B <=> P[t] \in B) BY <1>2, <2>4
      <3> QED BY <1>7, <1>10, <1>12, <2>1, <2>2, <3>1
    <2> QED BY <2>3, <2>4
  <1>16. ASSUME NEW t \in V, S2[t] # Nil PROVE hi2[t] <= lo2[S2[t]]
    <2>1. t \in Tcbs /\ t \in U BY <1>0
    <2>2. CASE t = z /\ C[thr] # Nil
      <3>1. S2[t] = C1(c) /\ P[t] = thr BY <1>2, <2>2
      <3>2. C1(c) \in U \ B /\ lo[C1(c)] > L
        <4>1. CASE c = q /\ C[q] = thr
          <5>1. C1(c) = S[thr] /\ S[thr] # Nil BY <1>16, <3>1, <4>1
          <5>2. S[thr] \in U /\ P[S[thr]] = q /\ hi[thr] <= lo[S[thr]] BY <1>0, <1>1, <5>1
          <5>3. lo[q] < lo[thr] BY <1>1
          <5>4. S[thr] # thr BY <1>4, <1>10, <5>2 DEF a
          <5>5. S[thr] \notin B BY <4>1, <5>2, <5>4
          <5>6. lo[S[thr]] \in Int /\ lo[q] \in Int /\ lo[thr] \in Int /\ hi[thr] \in Int
            BY <1>0, <1>10, <5>2
          <5>7. lo[S[thr]] > lo[q] BY <1>4, <5>2, <5>3, <5>6 DEF a
          <5> QED BY <4>1, <5>1, <5>2, <5>5, <5>7 DEF L
        <4>2. CASE ~(c = q /\ C[q] = thr)
          <5>1. C1(c) = C[c] /\ C[c] # Nil BY <1>16, <3>1, <4>2
          <5>2. C[c] \in U /\ P[C[c]] = c BY <1>0, <5>1
          <5>3. C[c] # thr BY <4>2, <5>2
          <5>4. C[c] \notin B BY <5>2, <5>3
          <5> QED BY <1>1, <1>0, <1>10, <5>1, <5>2, <5>4 DEF L
        <4> QED BY <4>1, <4>2
      <3> DEFINE y == C1(c)
      <3>3. y \in Tcbs /\ y \notin B /\ lo[y] > L /\ S2[t] = y BY <1>0, <3>1, <3>2
      <3> HIDE DEF C1, y
      <3>4. lo2[y] > L + w BY <1>8, <1>10, <1>12, <3>3
      <3>5. t \in B /\ hi[t] < hi[thr] BY <1>1, <3>1
      <3>6. hi2[t] < L + w BY <1>9, <1>10, <1>12, <2>1, <3>5
      <3>7. hi2[t] \in Int /\ lo2[y] \in Int BY <1>6, <1>11, <2>1, <3>3
      <3> QED BY <1>14, <3>3, <3>4, <3>6, <3>7
    <2>3. CASE ~(t = z /\ C[thr] # Nil) /\ t = prev /\ C[q] # thr
      <3>1. S2[t] = S[thr] /\ S[t] = thr BY <1>2, <2>3
      <3>2. S[thr] \in U /\ P[S[thr]] = q /\ P[t] = q BY <1>0, <1>16, <2>1, <3>1
      <3>3. hi[t] <= lo[thr] /\ lo[thr] < hi[thr] /\ hi[thr] <= lo[S[thr]]
        BY <1>0, <1>1, <1>16, <2>1, <3>1
      <3>4. S[thr] # thr /\ S[thr] \in Tcbs BY <1>0, <1>10, <3>2, <3>3
      <3>5. t \in B <=> S[thr] \in B BY <3>2, <3>4
      <3>6. hi[t] <= lo[S[thr]] BY <1>0, <1>10, <2>1, <3>3, <3>4
      <3> QED BY <1>7, <1>10, <1>12, <2>1, <3>1, <3>4, <3>5, <3>6
    <2>4. CASE ~(t = z /\ C[thr] # Nil) /\ ~(t = prev /\ C[q] # thr)
      <3>1. S2[t] = S[t] BY <1>2, <2>1, <2>4
      <3>2. S[t] \in U /\ P[S[t]] = P[t] /\ C[P[t]] # S[t] /\ hi[t] <= lo[S[t]]
        BY <1>0, <1>1, <1>16, <2>1, <3>1
      <3>3. CASE S[t] # thr
        <4>1. t \in B <=> S[t] \in B BY <3>2, <3>3
        <4>2. S[t] \in Tcbs BY <1>0, <3>2
        <4> QED BY <1>7, <1>10, <1>12, <2>1, <3>1, <3>2, <4>1, <4>2
      <3>4. CASE S[t] = thr
        <4>1. C[q] # thr BY <3>2, <3>4
        <4>2. t = prev
          <5>1. prev \in U /\ S[prev] = thr BY <1>2, <4>1
          <5>2. S[t] # Nil /\ S[t] = S[prev] BY <1>16, <3>1, <3>4, <5>1
          <5> QED BY <2>1, <5>1, <5>2 DEF Tree
        <4> QED BY <2>4, <4>1, <4>2
      <3> QED BY <3>3, <3>4
    <2> QED BY <2>2, <2>3, <2>4
  <1>17. Numbered(V, P2, S2, lo2, hi2, n)
    <2> HIDE DEF V
    <2> QED BY <1>11, <1>13, <1>15, <1>16 DEF Numbered
  <1> QED BY <1>6, <1>17, Zenon

\* The links of the threads U are a tree below root that can be numbered.
WellFormed(U, P, C, S) ==
  /\ Tree(U, P, C, S) /\ P[Root] = Nil
  /\ \E m \in Nat : \E lo, hi : Numbered(U, P, S, lo, hi, m)

LEMMA TreeTypes ==
  ASSUME NEW U, NEW P, NEW C, NEW S, WellFormed(U, P, C, S)
  PROVE  /\ P \in [Tcbs -> Link] /\ C \in [Tcbs -> Link] /\ S \in [Tcbs -> Link]
         /\ U \subseteq Tcbs \ {Root} /\ Root \in Tcbs /\ Nil \notin Tcbs
  <1>1. Root \in Tcbs /\ Nil \notin Tcbs BY TableAssumption DEF Tcbs, Nil, Root
  <1> QED BY <1>1 DEF WellFormed, Tree

\* The children of p, and that the list of them ends.
LEMMA ChildrenListed ==
  ASSUME NEW U, NEW P, NEW C, NEW S, WellFormed(U, P, C, S), NEW p \in U \cup {Root}
  PROVE  /\ Reached(C[p], Along(S)) \ {Nil} = {t \in U : P[t] = p}
         /\ C[p] # Nil => \E z \in U : P[z] = p /\ S[z] = Nil
         /\ C[p] = Nil => \A t \in U : P[t] # p
  <1>1. PICK m \in Nat : \E lo, hi : Numbered(U, P, S, lo, hi, m) BY DEF WellFormed
  <1>2. PICK lo, hi : Numbered(U, P, S, lo, hi, m) BY <1>1
  <1>3. Tree(U, P, C, S) BY DEF WellFormed
  <1>4. /\ Reached(C[p], Along(S)) \ {Nil} = {t \in U : P[t] = p}
        /\ C[p] # Nil => \E z \in U : P[z] = p /\ S[z] = Nil
    BY <1>2, <1>3, ChainIsChildren
  <1>5. ASSUME C[p] = Nil PROVE \A t \in U : P[t] # p
    <2>1. Nil \in Link /\ {Nil} \in SUBSET Link BY DEF Link
    <2>2. Along(S)[Nil] = Nil BY <2>1 DEF Along
    <2>3. Reached(Nil, Along(S)) \subseteq {Nil} BY <2>1, <2>2, ReachedFacts
    <2> QED BY <1>4, <1>5, <2>3
  <1> QED BY <1>4, <1>5

\* x is above t: t itself, or above its parent.
LEMMA Above ==
  ASSUME NEW U, NEW P, NEW C, NEW S, WellFormed(U, P, C, S), NEW t \in Tcbs, NEW x \in Tcbs
  PROVE  /\ x \in Reached(x, Along(P))
         /\ x \in Reached(t, Along(P)) <=> t = x \/ (P[t] \in Tcbs /\ x \in Reached(P[t], Along(P)))
  <1> DEFINE next == Along(P)
  <1>1. Nil \in Link /\ t \in Link /\ x \in Link /\ Link \in SUBSET Link /\ x # Nil /\ t # Nil
    BY TreeTypes DEF Link
  <1>2. next[Nil] = Nil /\ \A y \in Tcbs : next[y] = P[y] BY TreeTypes DEF Along, Link
  <1>3. \A y \in Link : next[y] \in Link BY <1>1, <1>2, TreeTypes DEF Link
  <1> HIDE DEF next
  <1>4. x \in Reached(x, next) BY <1>1, <1>3, ReachedFacts
  <1>5. Reached(t, next) = {t} \cup Reached(P[t], next) BY <1>1, <1>2, <1>3, ReachedNext
  <1>6. Reached(Nil, next) \subseteq {Nil}
    <2>1. {Nil} \in SUBSET Link BY <1>1
    <2> QED BY <1>2, <2>1, ReachedFacts
  <1>7. P[t] \in Tcbs \/ P[t] = Nil BY TreeTypes DEF Link
  <1> QED BY <1>1, <1>4, <1>5, <1>6, <1>7 DEF next

\* thread_create() keeps the tree.
LEMMA Attached ==
  ASSUME NEW U, NEW P, NEW C, NEW S, WellFormed(U, P, C, S),
         NEW thr \in Tcbs, thr \notin U, thr # Root, NEW c \in U \cup {Root},
         NEW z, NEW P2, NEW C2, NEW S2, Appended(U, P, C, S, thr, c, z, P2, C2, S2)
  PROVE  WellFormed(U \cup {thr}, P2, C2, S2)
  <1>1. Tree(U, P, C, S) BY DEF WellFormed
  <1>2. Tree(U \cup {thr}, P2, C2, S2) BY <1>1, AttachTree
  <1>3. PICK m \in Nat : \E lo, hi : Numbered(U, P, S, lo, hi, m) BY DEF WellFormed
  <1>4. PICK lo, hi : Numbered(U, P, S, lo, hi, m) BY <1>3
  <1>5. \E n \in Nat : \E lo2, hi2 : Numbered(U \cup {thr}, P2, S2, lo2, hi2, n)
    BY <1>1, <1>4, AttachNumbers, Zenon
  <1>6. P2[Root] = Nil BY TreeTypes DEF WellFormed, Appended
  <1> QED BY <1>2, <1>5, <1>6 DEF WellFormed

\* thread_destroy() keeps the tree, if thr is not the caller or above it.
LEMMA Detached ==
  ASSUME NEW U, NEW P, NEW C, NEW S, WellFormed(U, P, C, S),
         NEW thr \in U, NEW c \in U \cup {Root}, thr \notin Reached(c, Along(P)),
         NEW prev, NEW z, NEW P2, NEW C2, NEW S2,
         Spliced(U, P, C, S, thr, c, prev, z, P2, C2, S2), P2[Root] = P[Root]
  PROVE  WellFormed(U \ {thr}, P2, C2, S2)
  <1>1. /\ P \in [Tcbs -> Link] /\ C \in [Tcbs -> Link] /\ S \in [Tcbs -> Link]
        /\ U \subseteq Tcbs \ {Root} /\ Root \in Tcbs /\ Nil \notin Tcbs
        /\ c \in Tcbs /\ thr \in Tcbs /\ thr # Root
    BY TreeTypes
  <1>2. Tree(U, P, C, S) /\ \A t \in U : P[t] \in U \cup {Root} BY DEF WellFormed, Tree
  <1>3. PICK m \in Nat : \E lo, hi : Numbered(U, P, S, lo, hi, m) BY DEF WellFormed
  <1>4. PICK lo, hi : Numbered(U, P, S, lo, hi, m) BY <1>3
  <1>5. /\ lo \in [Tcbs -> -m..m] /\ hi \in [Tcbs -> -m..m]
        /\ \A t \in U : lo[P[t]] < lo[t] /\ lo[t] < hi[t]
        /\ \A t \in U : S[t] # Nil => hi[t] <= lo[S[t]]
    BY <1>4 DEF Numbered
  <1>6. \A t \in Tcbs : lo[t] \in Int /\ hi[t] \in Int BY <1>5
  <1>7. P[thr] # thr BY <1>1, <1>5, <1>6
  <1>8. ASSUME NEW t \in U PROVE S[t] # t
    <2>1. t \in Tcbs /\ t # Nil BY <1>1
    <2> QED BY <1>5, <1>6, <2>1
  <1>9. c # thr BY <1>1, Above
  <1>10. Tree(U \ {thr}, P2, C2, S2) BY <1>2, <1>7, <1>8, <1>9, DetachTree
  <1> DEFINE Below(t) == thr \in Reached(t, Along(P))
             B == {t \in U : Below(t)} \ {thr}
  <1>11. B \in SUBSET (U \ {thr}) /\ c \notin B OBVIOUS
  <1>12. ~Below(Root)
    <2>1. P[Root] \notin Tcbs BY <1>1 DEF WellFormed
    <2> QED BY <1>1, <2>1, Above
  <1>13. ASSUME NEW t \in U \ {thr} PROVE t \in B <=> P[t] \in B \cup {thr}
    <2>1. t \in Tcbs /\ P[t] \in U \cup {Root} /\ P[t] \in Tcbs BY <1>1, <1>2
    <2>2. Below(t) <=> Below(P[t]) BY <1>1, <2>1, Above
    <2>3. Below(thr) BY <1>1, Above
    <2> HIDE DEF Below
    <2> QED BY <1>12, <2>1, <2>2, <2>3
  <1> HIDE DEF B
  <1>14. \E n \in Nat : \E lo2, hi2 : Numbered(U \ {thr}, P2, S2, lo2, hi2, n)
    BY <1>2, <1>4, <1>9, <1>11, <1>13, DetachNumbers
  <1>15. P2[Root] = Nil BY DEF WellFormed
  <1> QED BY <1>10, <1>14, <1>15 DEF WellFormed

-----------------------------------------------------------------------------
(* thread_select()                                                         *)

\* The climb: from a thread whose subtree is done, the next one, with a higher
\* number; from the last C of x it is the same as from x.
LEMMA Climbs ==
  ASSUME NEW U, NEW P, NEW C, NEW S, WellFormed(U, P, C, S), NEW m \in Nat, NEW lo, NEW hi, Numbered(U, P, S, lo, hi, m),
         NEW x \in U
  PROVE  /\ ClimbFrom(P, S, x) \in U \cup {Nil}
         /\ ClimbFrom(P, S, x) # Nil => lo[x] < lo[ClimbFrom(P, S, x)]
         /\ P[x] \in U =>
              ClimbFrom(P, S, x) = IF S[P[x]] # Nil THEN S[P[x]]
                             ELSE ClimbFrom(P, S, P[x])
  <1> DEFINE top(y) == y = Nil \/ P[y] = Root
             up == [y \in Link |-> IF top(y) \/ S[P[y]] # Nil THEN y ELSE P[y]]
  <1>1. /\ U \subseteq Tcbs \ {Root} /\ Root \in Tcbs /\ Nil \notin Tcbs /\ U \in SUBSET Link
    BY TreeTypes DEF Link
  <1>2. /\ \A t \in U : P[t] \in U \cup {Root}
        /\ \A t \in U : S[t] # Nil => S[t] \in U
    BY DEF WellFormed, Tree
  <1>3. /\ lo \in [Tcbs -> -m..m] /\ hi \in [Tcbs -> -m..m]
        /\ \A t \in U : lo[P[t]] < lo[t] /\ lo[t] < hi[t] /\ hi[t] < hi[P[t]]
        /\ \A t \in U : S[t] # Nil => hi[t] <= lo[S[t]]
    BY DEF Numbered
  <1>4. \A t \in Tcbs : lo[t] \in Int /\ hi[t] \in Int BY <1>3
  <1>5. \A t \in U : up[t] = IF P[t] = Root \/ S[P[t]] # Nil THEN t ELSE P[t]
    BY <1>1
  <1>6. \A y : ClimbFrom(P, S, y) = IF top(EndOf(y, up)) THEN Nil ELSE S[P[EndOf(y, up)]]
    BY DEF ClimbFrom
  <1> HIDE DEF up
  <1>7. \A t \in U : up[t] \in U BY <1>2, <1>5
  <1>8. ASSUME NEW y \in U
        PROVE  /\ EndOf(y, up) \in Reached(y, up) /\ EndOf(y, up) \in U
               /\ up[EndOf(y, up)] = EndOf(y, up)
    <2> DEFINE R == Reached(y, up)
    <2>1. y \in R /\ R \subseteq U /\ \A t \in R : up[t] \in R BY <1>1, <1>7, ReachedFacts
    <2> HIDE DEF R
    <2>2. PICK e \in R : \A u \in R : lo[e] <= lo[u]
      <3>1. R \in SUBSET Tcbs /\ R # {} BY <1>1, <2>1
      <3> QED BY <1>3, <3>1, FirstOne
    <2>3. up[e] = e
      <3> SUFFICES ASSUME up[e] # e PROVE FALSE OBVIOUS
      <3>1. up[e] = P[e] /\ up[e] \in R /\ e \in U BY <1>5, <2>1
      <3>2. lo[P[e]] < lo[e] /\ lo[e] <= lo[P[e]] BY <1>3, <2>2, <3>1
      <3>3. lo[P[e]] \in Int /\ lo[e] \in Int BY <1>1, <1>4, <2>1, <3>1
      <3> QED BY <3>2, <3>3
    <2>4. EndOf(y, up) = e BY <1>1, <1>7, <2>3, OneEnd DEF R
    <2> QED BY <2>1, <2>3, <2>4 DEF R
  <1> DEFINE e == EndOf(x, up)
             R == Reached(x, up)
  <1>9. e \in R /\ e \in U /\ up[e] = e BY <1>8
  <1>10. hi[x] <= hi[e]
    <2> DEFINE H == {t \in U : hi[x] <= hi[t]}
    <2>1. x \in H BY <1>1, <1>4
    <2>2. ASSUME NEW t \in H PROVE up[t] \in H
      <3>1. CASE up[t] = t BY <3>1
      <3>2. CASE up[t] # t
        <4>1. up[t] = P[t] /\ P[t] \in U BY <1>5, <1>7, <3>2
        <4>2. hi[t] < hi[P[t]] /\ hi[x] <= hi[t] BY <1>3
        <4>3. hi[t] \in Int /\ hi[x] \in Int /\ hi[P[t]] \in Int BY <1>1, <1>4, <4>1
        <4> QED BY <4>1, <4>2, <4>3
      <3> QED BY <3>1, <3>2
    <2> HIDE DEF H
    <2>3. R \subseteq H BY <1>1, <1>7, <2>1, <2>2, ReachedFacts
    <2> QED BY <1>9, <2>3 DEF H
  <1> HIDE DEF R
  <1>11. e # Nil BY <1>1, <1>9
  <1>12. ClimbFrom(P, S, x) = IF P[e] = Root THEN Nil ELSE S[P[e]] BY <1>6, <1>11
  <1>13. CASE P[e] = Root
    <2>1. ClimbFrom(P, S, x) = Nil BY <1>12, <1>13
    <2>2. ASSUME P[x] \in U
          PROVE  ClimbFrom(P, S, x) = IF S[P[x]] # Nil THEN S[P[x]]
                                ELSE ClimbFrom(P, S, P[x])
      <3>1. x # e /\ P[x] # Root BY <1>1, <1>13, <2>2
      <3>2. up[x] # x
        <4> SUFFICES ASSUME up[x] = x PROVE FALSE OBVIOUS
        <4>1. x \in R BY <1>1, <1>7, ReachedFacts DEF R
        <4>2. EndOf(x, up) = x BY <1>1, <1>7, <4>1, OneEnd DEF R
        <4> QED BY <3>1, <4>2
      <3>3. up[x] = P[x] /\ S[P[x]] = Nil BY <1>5, <3>2
      <3>4. EndOf(P[x], up) = e
        <4>1. e \in Reached(P[x], up)
          <5>1. R = {x} \cup Reached(P[x], up) BY <1>1, <1>7, <3>3, ReachedNext DEF R
          <5> QED BY <1>9, <3>1, <5>1
        <4> HIDE DEF e
        <4> QED BY <1>1, <1>7, <1>9, <2>2, <4>1, OneEnd
      <3> HIDE DEF e
      <3>5. ClimbFrom(P, S, P[x]) = Nil BY <1>6, <1>13, <3>4
      <3> QED BY <2>1, <3>3, <3>5
    <2> QED BY <2>1, <2>2
  <1>14. CASE P[e] # Root
    <2> DEFINE y == S[P[e]]
    <2>1. ClimbFrom(P, S, x) = y BY <1>12, <1>14
    <2>2. P[e] \in U /\ y # Nil
      <3>1. P[e] \in U BY <1>2, <1>9, <1>14
      <3>2. P[e] # e
        <4>1. lo[P[e]] < lo[e] /\ lo[e] \in Int BY <1>1, <1>3, <1>4, <1>9
        <4> QED BY <4>1
      <3> HIDE DEF e
      <3> QED BY <1>5, <1>9, <1>14, <3>1, <3>2
    <2>3. y \in U /\ hi[P[e]] <= lo[y] BY <1>2, <1>3, <2>2
    <2>4. lo[x] < lo[y]
      <3>1. lo[x] < hi[x] /\ hi[e] < hi[P[e]] BY <1>3, <1>9
      <3>2. lo[x] \in Int /\ hi[x] \in Int /\ hi[e] \in Int /\ hi[P[e]] \in Int /\ lo[y] \in Int
        BY <1>1, <1>4, <1>9, <2>2, <2>3
      <3> HIDE DEF e, y
      <3> QED BY <1>10, <2>3, <3>1, <3>2
    <2>5. ASSUME P[x] \in U
          PROVE  ClimbFrom(P, S, x) = IF S[P[x]] # Nil THEN S[P[x]]
                                ELSE ClimbFrom(P, S, P[x])
      <3>1. P[x] # Root BY <1>1, <2>5
      <3>2. CASE up[x] = x
        <4>1. x \in R BY <1>1, <1>7, ReachedFacts DEF R
        <4>2. e = x BY <1>1, <1>7, <3>2, <4>1, OneEnd DEF R
        <4> HIDE DEF e
        <4> QED BY <2>1, <2>2, <4>2
      <3>3. CASE up[x] # x
        <4>1. up[x] = P[x] /\ S[P[x]] = Nil BY <1>5, <3>3
        <4>2. e # x BY <1>9, <3>3
        <4>3. e \in Reached(P[x], up)
          <5>1. R = {x} \cup Reached(P[x], up) BY <1>1, <1>7, <4>1, ReachedNext DEF R
          <5> QED BY <1>9, <4>2, <5>1
        <4> HIDE DEF e
        <4>4. EndOf(P[x], up) = e BY <1>1, <1>7, <1>9, <2>5, <4>3, OneEnd
        <4>5. ClimbFrom(P, S, P[x]) = y BY <1>6, <1>11, <1>14, <4>4
        <4> QED BY <2>1, <4>1, <4>5
      <3> QED BY <3>2, <3>3
    <2> HIDE DEF y
    <2> QED BY <2>1, <2>3, <2>4, <2>5
  <1> QED BY <1>13, <1>14

\* Where the walk goes when the threads below x are done.
Exit(P, S, x) == IF S[x] # Nil THEN S[x] ELSE ClimbFrom(P, S, x)

LEMMA WalkFacts ==
  ASSUME NEW U, NEW P, NEW C, NEW S, WellFormed(U, P, C, S), NEW m \in Nat, NEW lo, NEW hi, Numbered(U, P, S, lo, hi, m),
         NEW x \in U
  PROVE  /\ WalkNext(P, C, S, x) = IF C[x] # Nil THEN C[x] ELSE Exit(P, S, x)
         /\ WalkNext(P, C, S, x) \in U \cup {Nil}
         /\ WalkNext(P, C, S, x) # Nil => lo[x] < lo[WalkNext(P, C, S, x)]
         /\ S[x] = Nil /\ P[x] \in U => Exit(P, S, x) = Exit(P, S, P[x])
  <1>1. /\ ClimbFrom(P, S, x) \in U \cup {Nil}
        /\ ClimbFrom(P, S, x) # Nil => lo[x] < lo[ClimbFrom(P, S, x)]
        /\ P[x] \in U =>
             ClimbFrom(P, S, x) = IF S[P[x]] # Nil THEN S[P[x]]
                            ELSE ClimbFrom(P, S, P[x])
    BY Climbs
  <1>2. WalkNext(P, C, S, x) = IF C[x] # Nil THEN C[x] ELSE Exit(P, S, x) BY DEF WalkNext, Exit
  <1>3. C[x] # Nil => C[x] \in U /\ lo[x] < lo[C[x]]
    <2> SUFFICES ASSUME C[x] # Nil PROVE C[x] \in U /\ lo[x] < lo[C[x]] OBVIOUS
    <2>1. C[x] \in U /\ P[C[x]] = x BY DEF WellFormed, Tree
    <2>2. lo[P[C[x]]] < lo[C[x]] BY <2>1 DEF Numbered
    <2> QED BY <2>1, <2>2
  <1>4. S[x] # Nil => S[x] \in U /\ lo[x] < lo[S[x]]
    <2> SUFFICES ASSUME S[x] # Nil PROVE S[x] \in U /\ lo[x] < lo[S[x]] OBVIOUS
    <2>1. S[x] \in U /\ x \in Tcbs /\ S[x] \in Tcbs BY DEF WellFormed, Tree
    <2>2. lo[x] < hi[x] /\ hi[x] <= lo[S[x]] BY DEF Numbered
    <2>3. lo[x] \in Int /\ hi[x] \in Int /\ lo[S[x]] \in Int BY <2>1 DEF Numbered
    <2> QED BY <2>1, <2>2, <2>3
  <1>5. /\ Exit(P, S, x) \in U \cup {Nil}
        /\ Exit(P, S, x) # Nil => lo[x] < lo[Exit(P, S, x)]
        /\ S[x] = Nil /\ P[x] \in U => Exit(P, S, x) = Exit(P, S, P[x])
    BY <1>1, <1>4 DEF Exit
  <1> HIDE DEF Exit
  <1> QED BY <1>2, <1>3, <1>5

\* If the walk meets no run thread, it meets all threads.
LEMMA WalkMeetsAll ==
  ASSUME NEW U, NEW P, NEW C, NEW S, WellFormed(U, P, C, S), NEW R, C[Root] # Nil => C[Root] \in R,
         \A x \in R \cap U : WalkNext(P, C, S, x) # Nil => WalkNext(P, C, S, x) \in R
  PROVE  U \subseteq R
  <1>1. PICK m \in Nat : \E lo, hi : Numbered(U, P, S, lo, hi, m) BY DEF WellFormed
  <1>2. PICK lo, hi : Numbered(U, P, S, lo, hi, m) BY <1>1
  <1>3. U \subseteq Tcbs \ {Root} /\ Nil \notin Tcbs /\ lo \in [Tcbs -> -m..m]
    BY <1>2, TreeTypes DEF Numbered
  <1>4. \A t \in Tcbs : lo[t] \in Int BY <1>3
  <1>5. \A x \in U :
          /\ WalkNext(P, C, S, x) = IF C[x] # Nil THEN C[x] ELSE Exit(P, S, x)
          /\ S[x] = Nil /\ P[x] \in U => Exit(P, S, x) = Exit(P, S, P[x])
    BY <1>2, WalkFacts
  <1>6. /\ \A t \in U : P[t] \in U \cup {Root}
        /\ \A t \in U \cup {Root} : C[t] # Nil => C[t] \in U /\ P[C[t]] = t
        /\ \A t \in U : S[t] # Nil => S[t] \in U /\ P[S[t]] = P[t]
        /\ \A t \in U : C[P[t]] = t \/ \E u \in U : S[u] = t
    BY DEF WellFormed, Tree
  <1>7. /\ \A t \in U : lo[P[t]] < lo[t]
        /\ \A t \in U : S[t] # Nil => lo[t] < lo[S[t]]
    <2>1. \A t \in U : lo[P[t]] < lo[t] BY <1>2 DEF Numbered
    <2>2. ASSUME NEW t \in U, S[t] # Nil PROVE lo[t] < lo[S[t]]
      <3>1. lo[t] < hi[t] /\ hi[t] <= lo[S[t]] BY <1>2, <2>2 DEF Numbered
      <3>2. lo[t] \in Int /\ hi[t] \in Int /\ lo[S[t]] \in Int
        BY <1>2, <1>3, <1>6, <2>2 DEF Numbered
      <3> QED BY <3>1, <3>2
    <2> QED BY <2>1, <2>2
  <1>8. \A x \in R \cap U : Exit(P, S, x) # Nil => Exit(P, S, x) \in R
    <2> DEFINE B == {x \in R \cap U : Exit(P, S, x) # Nil /\ Exit(P, S, x) \notin R}
    <2> SUFFICES ASSUME B # {} PROVE FALSE OBVIOUS
    <2>1. B \in SUBSET Tcbs BY <1>3
    <2>2. PICK x \in B : \A u \in B : lo[u] <= lo[x] BY <1>3, <2>1, LastOne
    <2>3. x \in R /\ x \in U /\ Exit(P, S, x) # Nil /\ Exit(P, S, x) \notin R BY <2>2
    <2>4. C[x] # Nil BY <1>5, <2>3
    <2> DEFINE K == {t \in R \cap U : P[t] = x}
    <2>5. C[x] \in K
      <3>1. WalkNext(P, C, S, x) = C[x] BY <1>5, <2>3, <2>4
      <3> QED BY <1>6, <2>3, <2>4, <3>1
    <2>6. K \in SUBSET Tcbs /\ K # {} BY <1>3, <2>5
    <2>7. PICK l \in K : \A u \in K : lo[u] <= lo[l] BY <1>3, <2>6, LastOne
    <2>8. l \in U /\ l \in R /\ P[l] = x /\ l \in Tcbs /\ x \in Tcbs BY <1>3, <2>3
    <2>9. l \notin B
      <3>1. lo[x] < lo[l] BY <1>7, <2>8
      <3>2. ~(lo[l] <= lo[x]) BY <1>4, <2>8, <3>1
      <3> HIDE DEF B
      <3> QED BY <2>2, <3>2
    <2>10. Exit(P, S, l) = Nil \/ Exit(P, S, l) \in R BY <2>8, <2>9
    <2>11. CASE S[l] # Nil
      <3>1. Exit(P, S, l) = S[l] /\ S[l] \in U /\ P[S[l]] = x
        BY <1>6, <2>8, <2>11 DEF Exit
      <3>2. S[l] \in K BY <2>10, <2>11, <3>1
      <3>3. lo[l] < lo[S[l]] /\ lo[S[l]] <= lo[l] BY <1>7, <2>7, <2>8, <2>11, <3>2
      <3>4. lo[l] \in Int /\ lo[S[l]] \in Int BY <1>3, <1>4, <2>8, <3>1
      <3> QED BY <3>3, <3>4
    <2>12. CASE S[l] = Nil
      <3>1. Exit(P, S, l) = Exit(P, S, x) BY <1>5, <2>3, <2>8, <2>12
      <3> QED BY <2>3, <2>10, <3>1
    <2> QED BY <2>11, <2>12
  <1> DEFINE B == U \ R
  <1> SUFFICES ASSUME B # {} PROVE FALSE OBVIOUS
  <1>9. B \in SUBSET Tcbs BY <1>3
  <1>10. PICK t \in B : \A u \in B : lo[t] <= lo[u] BY <1>3, <1>9, FirstOne
  <1>11. t \in U /\ t \notin R /\ t # Nil BY <1>3
  <1>12. CASE C[P[t]] = t
    <2>1. CASE P[t] = Root BY <1>11, <1>12, <2>1
    <2>2. CASE P[t] # Root
      <3>1. P[t] \in U BY <1>6, <1>11, <2>2
      <3>2. lo[P[t]] < lo[t] /\ lo[t] \in Int /\ lo[P[t]] \in Int
        BY <1>3, <1>4, <1>7, <1>11, <3>1
      <3>3. P[t] \in R BY <1>10, <3>1, <3>2
      <3>4. WalkNext(P, C, S, P[t]) = t BY <1>5, <1>11, <1>12, <3>1
      <3> QED BY <1>11, <3>1, <3>3, <3>4
    <2> QED BY <2>1, <2>2
  <1>13. CASE C[P[t]] # t
    <2>1. PICK u \in U : S[u] = t BY <1>6, <1>11, <1>13
    <2>2. lo[u] < lo[t] /\ lo[t] \in Int /\ lo[u] \in Int BY <1>3, <1>4, <1>7, <1>11, <2>1
    <2>3. u \in R BY <1>10, <2>2
    <2>4. Exit(P, S, u) = t BY <1>11, <2>1 DEF Exit
    <2> QED BY <1>8, <1>11, <2>3, <2>4
  <1> QED BY <1>12, <1>13

LEMMA SelectRight ==
  ASSUME NEW U, NEW P, NEW C, NEW S, NEW run, WellFormed(U, P, C, S)
  PROVE  IF run \cap U = {} THEN Select(P, C, S, run) = Nil ELSE Select(P, C, S, run) \in run \cap U
  <1> DEFINE D == U \cup {Nil}
             next == [x \in Link |-> IF x = Nil \/ x \in run THEN x ELSE WalkNext(P, C, S, x)]
             R == Reached(C[Root], next)
  <1>1. PICK m \in Nat : \E lo, hi : Numbered(U, P, S, lo, hi, m) BY DEF WellFormed
  <1>2. PICK lo, hi : Numbered(U, P, S, lo, hi, m) BY <1>1
  <1>3. /\ U \subseteq Tcbs \ {Root} /\ Nil \notin Tcbs /\ lo \in [Tcbs -> -m..m]
        /\ D \in SUBSET Link
    BY <1>2, TreeTypes DEF Numbered, Link
  <1>4. \A t \in Tcbs : lo[t] \in Int BY <1>3
  <1>5. \A x \in U :
          /\ WalkNext(P, C, S, x) \in U \cup {Nil}
          /\ WalkNext(P, C, S, x) # Nil => lo[x] < lo[WalkNext(P, C, S, x)]
    BY <1>2, WalkFacts
  <1>6. next[Nil] = Nil /\ \A x \in U : next[x] = IF x \in run THEN x ELSE WalkNext(P, C, S, x)
    BY <1>3
  <1>7. C[Root] \in D BY DEF WellFormed, Tree
  <1>8. Select(P, C, S, run) = EndOf(C[Root], next) BY DEF Select
  <1> HIDE DEF next
  <1>9. \A y \in D : next[y] \in D BY <1>5, <1>6
  <1>10. C[Root] \in R /\ R \subseteq D /\ \A y \in R : next[y] \in R
    <2> DEFINE c == C[Root]
    <2>1. D \in SUBSET Link /\ c \in D BY <1>3, <1>7
    <2> HIDE DEF D, c
    <2>2. /\ c \in Reached(c, next) /\ Reached(c, next) \subseteq D
          /\ \A y \in Reached(c, next) : next[y] \in Reached(c, next)
      BY <1>9, <2>1, ReachedFacts
    <2> QED BY <2>2 DEF c
  <1>11. ASSUME NEW e \in R, next[e] = e PROVE Select(P, C, S, run) = e
    <2> HIDE DEF D
    <2> QED BY <1>3, <1>7, <1>8, <1>9, <1>11, OneEnd
  <1> HIDE DEF R
  <1>12. Select(P, C, S, run) = Nil \/ Select(P, C, S, run) \in run \cap U
    <2>1. CASE Nil \in R BY <1>6, <1>11, <2>1
    <2>2. CASE Nil \notin R
      <3>1. R \subseteq U /\ R \in SUBSET Tcbs /\ R # {} BY <1>3, <1>10, <2>2
      <3>2. PICK e \in R : \A u \in R : lo[u] <= lo[e] BY <1>3, <3>1, LastOne
      <3>3. e \in U /\ next[e] \in R /\ next[e] \in U BY <1>10, <3>1
      <3>4. CASE e \in run
        <4>1. next[e] = e BY <1>6, <3>3, <3>4
        <4> QED BY <1>11, <3>3, <3>4, <4>1
      <3>5. CASE e \notin run
        <4>1. next[e] = WalkNext(P, C, S, e) /\ next[e] # Nil BY <1>3, <1>6, <3>3, <3>5
        <4>2. lo[e] < lo[next[e]] /\ lo[next[e]] <= lo[e] BY <1>5, <3>2, <3>3, <4>1
        <4>3. lo[e] \in Int /\ lo[next[e]] \in Int BY <1>3, <1>4, <3>3
        <4> QED BY <4>2, <4>3
      <3> QED BY <3>4, <3>5
    <2> QED BY <2>1, <2>2
  <1>13. ASSUME Select(P, C, S, run) = Nil PROVE run \cap U = {}
    <2>1. ASSUME NEW x \in R \cap U PROVE x \notin run
      <3> SUFFICES ASSUME x \in run PROVE FALSE OBVIOUS
      <3>1. next[x] = x BY <1>6
      <3>2. Select(P, C, S, run) = x BY <1>11, <3>1
      <3> QED BY <1>3, <1>13, <3>2
    <2>2. \A x \in R \cap U : WalkNext(P, C, S, x) \in R BY <1>6, <1>10, <2>1
    <2>3. U \subseteq R BY <1>10, <2>2, WalkMeetsAll
    <2> QED BY <2>1, <2>3
  <1> QED BY <1>3, <1>12, <1>13

\* Root is above every thread, which is among the children of its parent.
LEMMA RootAbove ==
  ASSUME NEW U, NEW P, NEW C, NEW S, WellFormed(U, P, C, S), NEW t \in U
  PROVE  Root \in Reached(t, Along(P)) /\ t \in Reached(C[P[t]], Along(S)) \ {Nil}
  <1>1. PICK m \in Nat : \E lo, hi : Numbered(U, P, S, lo, hi, m) BY DEF WellFormed
  <1>2. PICK lo, hi : Numbered(U, P, S, lo, hi, m) BY <1>1
  <1>3. U \subseteq Tcbs \ {Root} /\ Root \in Tcbs /\ lo \in [Tcbs -> -m..m]
    BY <1>2, TreeTypes DEF Numbered
  <1>4. \A x \in U : P[x] \in U \cup {Root} /\ lo[P[x]] < lo[x]
    BY <1>2 DEF Numbered, WellFormed, Tree
  <1> DEFINE B == {x \in U : Root \notin Reached(x, Along(P))}
  <1>5. B = {}
    <2> SUFFICES ASSUME B # {} PROVE FALSE OBVIOUS
    <2>1. B \in SUBSET Tcbs BY <1>3
    <2>2. PICK x \in B : \A u \in B : lo[x] <= lo[u] BY <1>3, <2>1, FirstOne
    <2>3. x \in U /\ Root \notin Reached(x, Along(P)) /\ x \in Tcbs /\ P[x] \in Tcbs BY <1>3, <1>4
    <2>4. Root \notin Reached(P[x], Along(P)) BY <1>3, <2>3, Above
    <2>5. P[x] # Root BY <1>3, <2>4, Above
    <2>6. P[x] \in B BY <1>4, <2>3, <2>4, <2>5
    <2>7. lo[P[x]] < lo[x] /\ lo[x] <= lo[P[x]] BY <1>4, <2>2, <2>3, <2>6
    <2>8. lo[x] \in Int /\ lo[P[x]] \in Int BY <1>3, <2>3
    <2> QED BY <2>7, <2>8
  <1>6. P[t] \in U \cup {Root} BY <1>4
  <1>7. Reached(C[P[t]], Along(S)) \ {Nil} = {u \in U : P[u] = P[t]} BY <1>6, ChildrenListed
  <1> QED BY <1>5, <1>7
=============================================================================
