------------------------------ MODULE Threads -------------------------------
(***************************************************************************)
(* Thread control: the table of TCBs, the map from ids to TCBs that is     *)
(* searched by bisection, the tree of threads that the scheduler walks,    *)
(* and the address spaces that threads share.                              *)
(*                                                                         *)
(* A system call is one action (the kernel thread runs it to its end).     *)
(* With Disciplined = TRUE the callers create threads with unused ids      *)
(* while the tables have room, name existing spaces, and destroy existing  *)
(* threads that are neither themselves nor above them; the kernel checks   *)
(* none of this.                                                           *)
(***************************************************************************)
EXTENDS ThreadTree, FiniteSets

CONSTANTS
  MaxSpaces,   \* CONFIG_MAX_ADRESS_SPACES
  UserTids,    \* thread numbers of user threads (>= THREAD_SYS)
  Disciplined

Spaces == 1..MaxSpaces    \* indices of as_table
IdleTid == 0
KernelTid == 1
RootTid == 2
Idle == 1
Kernel == 3

ASSUME ThreadsAssumption ==
  /\ MaxSpaces \in Nat \ {0}
  /\ UserTids \subseteq {n \in Nat : n > RootTid}
  /\ Disciplined \in BOOLEAN

VARIABLES
  used,      \* entries of thread_table in use
  tid,       \* t_globalid of each TCB, also of those no longer in use
  map,       \* thread_map, and the word behind it
  count,     \* thread_count
  parent, child, sibling,
  runnable,  \* user threads in state T_RUNNABLE
  as,        \* the address space of each TCB
  asUsed,    \* entries of as_table in use
  shared,    \* as->shared
  fault      \* the kernel has used a null pointer

treeVars == <<parent, child, sibling>>
mapVars == <<used, tid, map, count>>
asVars == <<as, asUsed, shared>>
vars == <<mapVars, treeVars, runnable, asVars, fault>>

Users == used \ {Idle, Kernel, Root}

TypeOK ==
  /\ used \in SUBSET Tcbs
  /\ tid \in [Tcbs -> UserTids \cup {IdleTid, KernelTid, RootTid}]
  /\ map \in [0..MaxThreads -> Link]
  /\ count \in 0..MaxThreads
  /\ parent \in [Tcbs -> Link] /\ child \in [Tcbs -> Link] /\ sibling \in [Tcbs -> Link]
  /\ runnable \in SUBSET Tcbs
  /\ as \in [Tcbs -> Spaces \cup {Nil}]
  /\ asUsed \in SUBSET Spaces
  /\ shared \in [Spaces -> 0..MaxThreads]
  /\ fault \in BOOLEAN

\* create_idle_thread(), create_root_thread() and create_kernel_thread() ran.
Init ==
  /\ used = {Idle, Root, Kernel}
  /\ tid = [t \in Tcbs |-> IF t = Root THEN RootTid ELSE IF t = Kernel THEN KernelTid ELSE IdleTid]
  /\ map = [i \in 0..MaxThreads |->
              CASE i = 0 -> Idle [] i = 1 -> Kernel [] i = 2 -> Root [] OTHER -> Nil]
  /\ count = 3
  /\ parent = [t \in Tcbs |-> Nil] /\ child = parent /\ sibling = parent
  /\ runnable = {}
  /\ as = [t \in Tcbs |-> IF t = Root THEN 1 ELSE Nil]
  /\ asUsed = {1}
  /\ shared = [a \in Spaces |-> 0]
  /\ fault = FALSE

-----------------------------------------------------------------------------
(* thread_map                                                              *)

TidAt(i) == tid[map[i]]

Places == 0..MaxThreads

\* The loop of thread_map_search(): what it returns, as a function of <<from, to>>.
Bisect(id) ==
  LET bisect[r \in Places \X Places] ==
        LET from == r[1]
            to == r[2]
            mid == from + (to - from) \div 2
        IN  IF to - from <= 1 THEN to
            ELSE IF TidAt(mid) > id THEN bisect[<<from, mid>>]
            ELSE IF TidAt(mid) < id THEN bisect[<<mid, to>>]
            ELSE mid
  IN  bisect

\* thread_map_search(id, 0, thread_count): the first place whose thread
\* number is not below id.
ThreadMapSearch(id) == IF count = 0 \/ TidAt(0) >= id THEN 0 ELSE Bisect(id)[<<0, count>>]

\* thread_by_globalid(): the place found may be the one behind the last, and
\* what a deleted thread left there is looked at like any other entry.
ThreadByGlobalid(id) ==
  LET thr == map[ThreadMapSearch(id)]
  IN  IF thr # Nil /\ tid[thr] = id THEN thr ELSE Nil

\* thread_map_insert()
ThreadMapInsert(id, thr) ==
  LET i == ThreadMapSearch(id) IN
  /\ map' = [j \in 0..MaxThreads |->
               CASE j = i -> thr
                 [] i < j /\ j <= count -> map[j - 1]
                 [] OTHER -> map[j]]
  /\ count' = count + 1

\* Mutant: the entries before the deleted one are not kept apart from it.
ThreadMapDeleteMut(id) ==
  LET i == ThreadMapSearch(id) IN
  /\ count' = count - 1
  /\ map' = [j \in 0..MaxThreads |-> IF i < j /\ j < count - 1 THEN map[j + 1] ELSE map[j]]

\* thread_map_delete()
ThreadMapDelete(id) ==
  LET i == ThreadMapSearch(id) IN
  /\ count' = count - 1
  /\ map' = IF count = 1 THEN map
            ELSE [j \in 0..MaxThreads |->
                    IF i <= j /\ j < count - 1 THEN map[j + 1] ELSE map[j]]

-----------------------------------------------------------------------------
(* The tree                                                                *)

\* The siblings from t on, and the last of them.
Chain(t) == Reached(t, Along(sibling)) \ {Nil}
LastOf(t) == CHOOSE x \in Chain(t) : sibling[x] = Nil

\* "Place under": the end of the caller's children.
Attach(thr, caller) ==
  /\ parent' = [parent EXCEPT ![thr] = caller]
  /\ IF child[caller] # Nil
       THEN /\ child' = [child EXCEPT ![thr] = Nil]
            /\ sibling' = [sibling EXCEPT ![thr] = Nil, ![LastOf(child[caller])] = thr]
       ELSE /\ child' = [child EXCEPT ![thr] = Nil, ![caller] = thr]
            /\ sibling' = [sibling EXCEPT ![thr] = Nil]

\* The links after thr is taken from its parent's children.
Unlinked(thr) ==
  LET p == parent[thr]
      prev == CHOOSE x \in Chain(child[p]) : sibling[x] = thr
  IN  IF child[p] = thr
        THEN [child |-> [child EXCEPT ![p] = sibling[thr]], sibling |-> sibling]
        ELSE [child |-> child, sibling |-> [sibling EXCEPT ![prev] = sibling[thr]]]

\* ... and its own children are put before the caller's.
Detach(thr, caller) ==
  LET l    == Unlinked(thr)
      kids == Chain(child[thr])
  IN  IF child[thr] = Nil
        THEN child' = l.child /\ sibling' = l.sibling /\ UNCHANGED parent
        ELSE /\ parent' = [t \in Tcbs |-> IF t \in kids THEN caller ELSE parent[t]]
             /\ sibling' = [l.sibling EXCEPT ![LastOf(child[thr])] = l.child[caller]]
             /\ child' = [l.child EXCEPT ![caller] = child[thr]]

\* thread_select(root)
ThreadSelect == Select(parent, child, sibling, runnable)

-----------------------------------------------------------------------------
(* System calls                                                            *)

\* ktable_alloc(): the first free entry.
FirstFree(table, inUse) == CHOOSE i \in table \ inUse : \A j \in table \ inUse : i <= j

Live(id) == \E t \in Users : tid[t] = id
InUse(id) == \E t \in used : tid[t] = id

Below(t, x) == x \in Reached(t, Along(parent))

Fault == fault' = TRUE /\ UNCHANGED <<mapVars, treeVars, runnable, asVars>>

\* Mutant: the sharer is counted at the thread's own place.
ThreadSpaceMut(thr, id, space) ==
  LET a == IF space = id THEN FirstFree(Spaces, asUsed) ELSE as[ThreadByGlobalid(space)] IN
  /\ as' = [as EXCEPT ![thr] = a]
  /\ asUsed' = asUsed \cup {a}
  /\ shared' = [shared EXCEPT ![a] = @ + 1]

\* thread_space(): a space of its own, or the one of another thread.
ThreadSpace(thr, id, space) ==
  IF space = id
    THEN LET a == FirstFree(Spaces, asUsed) IN
         /\ as' = [as EXCEPT ![thr] = a]
         /\ asUsed' = asUsed \cup {a}
         /\ shared' = [shared EXCEPT ![a] = 0]
    ELSE LET a == as[ThreadByGlobalid(space)] IN
         /\ as' = [as EXCEPT ![thr] = a]
         /\ shared' = [shared EXCEPT ![a] = @ + 1]
         /\ UNCHANGED asUsed

\* sys_thread_control(), creation: thread_create() and thread_space().  When a
\* table is full, or there is no thread to share a space with, the null
\* pointer that stands for the failure is used.
ThreadCreate(caller, id, space) ==
  /\ ~fault
  /\ Disciplined => /\ ~InUse(id) /\ used # Tcbs
                    /\ IF space = id THEN asUsed # Spaces ELSE Live(space) \/ space = RootTid
  /\ IF \/ used = Tcbs
        \/ space = id /\ asUsed = Spaces
        \/ space # id /\ ThreadByGlobalid(space) = Nil
       THEN Fault
       ELSE LET thr == FirstFree(Tcbs, used) IN
            /\ used' = used \cup {thr}
            /\ tid' = [tid EXCEPT ![thr] = id]
            /\ ThreadMapInsert(id, thr)
            /\ Attach(thr, caller)
            /\ ThreadSpace(thr, id, space)
            /\ runnable' = runnable \ {thr}
            /\ UNCHANGED fault

\* as_destroy()
AsDestroy(a) ==
  /\ IF shared[a] > 0
       THEN shared' = [shared EXCEPT ![a] = @ - 1] /\ UNCHANGED asUsed
       ELSE asUsed' = asUsed \ {a} /\ UNCHANGED shared
  /\ UNCHANGED as

\* sys_thread_control(), removal: thread_free_space() and thread_destroy().
ThreadDestroy(caller, id) ==
  /\ ~fault
  /\ Disciplined => Live(id) /\ ~Below(caller, ThreadByGlobalid(id))
  /\ LET thr == ThreadByGlobalid(id) IN
     IF thr = Nil
       THEN Fault
       ELSE /\ AsDestroy(as[thr])
            /\ Detach(thr, caller)
            /\ ThreadMapDelete(id)
            /\ used' = used \ {thr}
            /\ UNCHANGED <<tid, runnable, fault>>

\* The other system calls and the timer block and resume user threads.
SetState(t) ==
  /\ ~fault
  /\ runnable' = IF t \in runnable THEN runnable \ {t} ELSE runnable \cup {t}
  /\ UNCHANGED <<mapVars, treeVars, asVars, fault>>

Next ==
  \/ \E c \in Users \cup {Root}, id \in UserTids, space \in UserTids \cup {RootTid} :
       ThreadCreate(c, id, space)
  \/ \E c \in Users \cup {Root}, id \in UserTids : ThreadDestroy(c, id)
  \/ \E t \in Users : SetState(t)

Spec == Init /\ [][Next]_vars

-----------------------------------------------------------------------------
(* Properties.                                                             *)

\* The map is "always sorted, so we can use binary search on it"
\* (kernel/thread.c:38) and lists the TCBs in use, each once; searching it for a
\* thread's id finds that thread: no insertion or removal shifts an entry out of it.
MapFindsAll ==
  /\ count = Cardinality(used) /\ {map[i] : i \in 0..(count - 1)} = used
  /\ \A i, j \in 0..(count - 1) : i <= j => TidAt(i) <= TidAt(j)
  /\ \A t \in used : ThreadByGlobalid(tid[t]) = t

\* "NOTE: all threads are derived from root" (kernel/thread.c): every user
\* thread hangs, by the child and sibling links, below the parent it names, and
\* root is above it.  So thread_select() finds a runnable thread exactly when
\* there is one: its walk neither misses a subtree nor wanders into TCBs that
\* are not in use.
SelectFindsRunnable ==
  /\ \A t \in Users : Below(t, Root) /\ t \in Chain(child[parent[t]])
  /\ LET thr == ThreadSelect
     IN  IF runnable \cap Users = {} THEN thr = Nil ELSE thr \in runnable \cap Users

\* An address space is in use exactly as long as a thread has it, and its
\* count of further sharers is right: as_destroy() neither frees the space of
\* a living thread nor keeps one that nobody has.
SpacesCounted ==
  /\ asUsed = {as[t] : t \in Users \cup {Root}}
  /\ \A a \in asUsed : shared[a] + 1 = Cardinality({t \in Users \cup {Root} : as[t] = a})

=============================================================================
