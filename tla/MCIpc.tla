------------------------------- MODULE MCIpc -------------------------------
(***************************************************************************)
(* IPC among threads that the root thread has created: two of them with    *)
(* every kind of call, or three that start and send words to each other.   *)
(* `beat` turns with every pass of ipc_deliver().                          *)
(***************************************************************************)
EXTENDS Ipc

VARIABLES scope, beat

MCPager == [t \in Ids |-> Root]

Callers == IF scope = "two" THEN {1, 2} ELSE Ids
From == IF scope = "two" THEN Sources \ {3} ELSE Ids \cup {ANY, NIL}

\* The calls of the scope.
Call ==
  \/ \E c \in Callers, from \in From, kind \in Kinds :
       \E to \in IF scope = "two" THEN Targets \ {NIL, 3} ELSE Ids :
         /\ scope = "three" => kind = (IF to # c /\ tcb[to].state = "INACTIVE" /\ c = Root
                                         THEN "start" ELSE "words")
         /\ SysIpc(c, to, from, "none", kind)
  \/ \E c \in Callers, from \in From :
       \E timeout \in IF scope = "two" THEN Timeouts ELSE {"none"} :
         /\ scope = "three" => from # NIL
         /\ SysIpc(c, NIL, from, timeout, "words")
  \/ \E t \in Ids : IpcTimeout(t)

MCNext ==
  /\ UNCHANGED scope
  /\ \/ IpcDeliver /\ beat' = 1 - beat
     \/ Call /\ UNCHANGED beat

MCInit == Init /\ scope \in {"two", "three"} /\ beat = 0

\* The periodic ipc_deliver() runs again and again.
MCSpec ==
  /\ MCInit /\ [][MCNext]_<<vars, scope, beat>>
  /\ []<>(beat = 0) /\ []<>(beat = 1)
=============================================================================
