------------------------------- MODULE Pool -------------------------------
(***************************************************************************)
(* What a kernel table promises its callers, without its bitmap: a fixed   *)
(* set of elements, each of which has at most one owner.                   *)
(***************************************************************************)
CONSTANTS Elements, NULL
VARIABLES held, ret, intr

PoolTypeOK == held \subseteq Elements /\ ret \in Elements \cup {NULL} /\ intr \in BOOLEAN

PoolInit == held = {} /\ ret = NULL /\ intr = FALSE

\* An allocation hands out an element that nobody owns.
Grant == \E e \in Elements \ held : held' = held \cup {e} /\ ret' = e /\ intr' \in BOOLEAN

\* It may fail only when every element is owned, when the caller asked for one
\* that is (Refuse), or when an exception got between the load and the store.
Fail == ret' = NULL /\ UNCHANGED held /\ intr' \in BOOLEAN /\ (held = Elements \/ intr')

Refuse(e) == e \in held /\ ret' = NULL /\ UNCHANGED held /\ intr' \in BOOLEAN

Return(e) == e \in held /\ held' = held \ {e} /\ ret' = NULL /\ intr' = FALSE

PoolNext == Grant \/ Fail \/ \E e \in Elements : Refuse(e) \/ Return(e)

PoolSpec == PoolInit /\ [][PoolNext]_<<held, ret, intr>>
=============================================================================
