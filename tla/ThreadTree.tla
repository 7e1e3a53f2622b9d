----------------------------- MODULE ThreadTree -----------------------------
(***************************************************************************)
(* The tree of threads: TCBs linked by t_parent, t_child and t_sibling, the *)
(* loops of kernel/thread.c along these links, and the walk by which the   *)
(* scheduler selects a thread.                                             *)
(***************************************************************************)
EXTENDS Integers

CONSTANT MaxThreads  \* CONFIG_MAX_THREADS

ASSUME TableAssumption == MaxThreads \in Nat /\ MaxThreads >= 3

Nil == 0
Tcbs == 1..MaxThreads     \* indices of thread_table, in order of allocation
Root == 2
Link == Tcbs \cup {Nil}

-----------------------------------------------------------------------------
(* Loops                                                                   *)

\* Where a loop that goes from one TCB to the next is after n rounds, from x on,
\* and what it passes: after as many rounds as there are TCBs it is where it has
\* been before.
Rounds(x, next) ==
  LET at[n \in 0..MaxThreads] == IF n = 0 THEN x ELSE next[at[n - 1]] IN at
Reached(x, next) == LET at == Rounds(x, next) IN {at[n] : n \in 0..MaxThreads}

\* Where such a loop ends.
EndOf(x, next) == CHOOSE y \in Reached(x, next) : next[y] = y

Along(link) == [x \in Link |-> IF x = Nil THEN Nil ELSE link[x]]

-----------------------------------------------------------------------------
(* thread_select(root), for the links parent, child and sibling            *)

\* Mutant: the walk ends at the last thread of a subtree.
ClimbFromMut(parent, sibling, thr) == Nil

\* Up from thr, until there is a sibling to go on with; Nil at the end.
ClimbFrom(parent, sibling, thr) ==
  LET top(x) == x = Nil \/ parent[x] = Root
      up == [x \in Link |-> IF top(x) \/ sibling[parent[x]] # Nil THEN x ELSE parent[x]]
      end == EndOf(thr, up)
  IN  IF top(end) THEN Nil ELSE sibling[parent[end]]

\* The thread to look at after thr.
WalkNext(parent, child, sibling, thr) ==
  IF child[thr] # Nil THEN child[thr]
  ELSE IF sibling[thr] # Nil THEN sibling[thr]
  ELSE ClimbFrom(parent, sibling, thr)

Select(parent, child, sibling, runnable) ==
  EndOf(child[Root],
        [x \in Link |-> IF x = Nil \/ x \in runnable THEN x
                        ELSE WalkNext(parent, child, sibling, x)])
=============================================================================
