-------------------------------- MODULE Ipc --------------------------------
(***************************************************************************)
(* Synchronous IPC: sys_ipc(), do_ipc(), the periodic ipc_deliver() and    *)
(* the sleep timeout ipc_timeout().                                        *)
(*                                                                         *)
(* Each handler runs in the kernel thread and is one action: the switching *)
(* core shows that nothing preempts it (Kernel, KernelNotPreempted).  Any  *)
(* runnable thread may trap next.  A message is abstracted to its sender   *)
(* and to what the kernel looks at: whether it has the form of a start     *)
(* message and whether it is longer than the message registers.            *)
(***************************************************************************)
EXTENDS Integers, Sequences, Functions

CONSTANTS
  N,          \* threads have the ids 1..N, in the order of thread_map
  Root,       \* the id of the root thread
  Pager,      \* per thread: utcb->t_pager
  NIL, ANY,   \* L4_NILTHREAD, L4_ANYTHREAD
  LOG,        \* TID_TO_GLOBALID(THREAD_LOG)
  ABSENT,     \* an id that no thread has
  Kinds,      \* the kinds of message that threads send
  Timeouts,   \* the timeout arguments that threads pass
  TableSize   \* entries of ktimer_event_table left for sleep events

Ids == 1..N

ASSUME IpcAssumption ==
  /\ N \in Nat /\ Root \in Ids /\ TableSize \in Nat
  /\ Pager \in [Ids -> Ids]
  /\ {NIL, ANY, LOG, ABSENT} \cap Ids = {}
  \* The message tag, as far as the kernel reads it: MR0 = 3 is the start
  \* protocol's, and n_untyped + n_typed + 1 may exceed IPC_MR_COUNT.
  /\ {"start", "words"} \subseteq Kinds /\ Kinds \subseteq {"start", "words", "overflow"}
  \* No timeout, one that rounds to no ktimer tick, a longer one.
  /\ Timeouts \subseteq {"none", "short", "long"}
  /\ NIL # ANY /\ NIL # LOG /\ NIL # ABSENT /\ ANY # LOG /\ ANY # ABSENT /\ LOG # ABSENT

States == {"INACTIVE", "RUNNABLE", "SVC_BLOCKED", "RECV_BLOCKED", "SEND_BLOCKED"}

Targets == Ids \cup {NIL, LOG, ABSENT}
Sources == Ids \cup {NIL, ANY}

VARIABLES
  tcb,      \* per thread: state, ipc_from, and whether it has a context (ctx.sp)
  call,     \* per thread: R0 and R1 of its last trap, the two phases of the call
  intended, \* per thread: utcb->intended_receiver
  mr,       \* per thread: message registers, [from, kind]
  timed,    \* per thread: ipc_timeout events in the timer list
  leaked,   \* table entries allocated for no event
  moved     \* history: the transfers of the last step, as <<from, to>>

vars == <<tcb, call, intended, mr, timed, leaked, moved>>

TypeOK ==
  /\ tcb \in [Ids -> [state : States, ipc_from : Sources, ctx : BOOLEAN]]
  /\ call \in [Ids -> [to : Targets, from : Sources]]
  /\ intended \in [Ids -> Targets]
  /\ mr \in [Ids -> [from : Ids, kind : Kinds]]
  /\ timed \in [Ids -> 0..TableSize]
  /\ leaked \in 0..TableSize
  /\ moved \in Seq(Ids \X Ids)

NoCall == [to |-> NIL, from |-> NIL]
Unused(t) == [from |-> t, kind |-> "words"]

\* Root runs; the others are created and not started.
Init ==
  /\ tcb = [t \in Ids |-> [state |-> IF t = Root THEN "RUNNABLE" ELSE "INACTIVE",
                           ipc_from |-> NIL, ctx |-> t = Root]]
  /\ call = [t \in Ids |-> NoCall]
  /\ intended = [t \in Ids |-> NIL]
  /\ mr = [t \in Ids |-> Unused(t)]
  /\ timed = [t \in Ids |-> 0]
  /\ leaked = 0
  /\ moved = <<>>

-----------------------------------------------------------------------------
(* A step's working state: what do_ipc() reads and writes.                 *)

Now == [tcb |-> tcb, call |-> call, mr |-> mr, moved |-> <<>>]

SetState(k, t, st) == [k EXCEPT !.tcb[t].state = st]

\* Variant: a sender with a receive phase keeps its state.
DoIpcMut(k, c, from, to, rcv) ==
  IF k.mr[from].kind = "overflow" THEN k
  ELSE LET copied == [k EXCEPT !.mr[to] = k.mr[from],
                               !.moved = Append(k.moved, <<from, to>>)]
       IN  IF ~k.tcb[to].ctx \/ ~k.tcb[from].ctx
             THEN SetState(copied, c, "RUNNABLE")
             ELSE [copied EXCEPT
                     !.tcb[to].state = "RUNNABLE",
                     !.tcb[to].ipc_from = NIL,
                     !.tcb[from].state = IF rcv = NIL THEN "RUNNABLE" ELSE @]

\* do_ipc(from, to) called while c is the caller; rcv is from's receive phase.
DoIpc(k, c, from, to, rcv) ==
  IF k.mr[from].kind = "overflow" THEN k
  ELSE LET copied == [k EXCEPT !.mr[to] = k.mr[from],
                               !.moved = Append(k.moved, <<from, to>>)]
       IN  IF ~k.tcb[to].ctx \/ ~k.tcb[from].ctx
             THEN SetState(copied, c, "RUNNABLE")
             ELSE [copied EXCEPT
                     !.tcb[to].state = "RUNNABLE",
                     !.tcb[to].ipc_from = NIL,
                     !.tcb[from].state = IF rcv = NIL THEN "RUNNABLE" ELSE "RECV_BLOCKED",
                     !.tcb[from].ipc_from = IF rcv # NIL THEN rcv
                                            ELSE IF from = to THEN NIL
                                            ELSE k.tcb[from].ipc_from]

\* The end of a step.  Only a call whose send phase is not over has a trap
\* frame and message registers that the kernel will still read.
Commit(k) ==
  LET sending(t) == k.tcb[t].state \in {"SEND_BLOCKED", "SVC_BLOCKED"}
  IN  /\ tcb' = k.tcb
      /\ call' = [t \in Ids |-> IF sending(t) THEN k.call[t] ELSE NoCall]
      /\ mr' = [t \in Ids |-> IF sending(t) THEN k.mr[t] ELSE Unused(t)]
      /\ moved' = k.moved

\* Thread c has loaded its message registers and trapped: the state in which
\* sys_ipc() starts.
Trapped(c, to, from, kind) ==
  [SetState(Now, c, "SVC_BLOCKED") EXCEPT
     !.call[c] = [to |-> to, from |-> from],
     !.mr[c] = [from |-> c, kind |-> kind]]

\* ktimer_event_create(): takes a table entry, if there is one, and then
\* schedules it, which fails for a time of no tick and keeps the entry.
EventCreate(c, timeout) ==
  LET full == SumFunction(timed) + leaked = TableSize
  IN  /\ timed' = IF full \/ timeout = "short" THEN timed ELSE [timed EXCEPT ![c] = @ + 1]
      /\ leaked' = IF full \/ timeout = "long" THEN leaked ELSE leaked + 1

\* sys_ipc(), no destination and a timeout: sleep, whether or not the event
\* was created.
SysIpcSleep(c, k, timeout) ==
  /\ Commit(SetState(k, c, "INACTIVE"))
  /\ EventCreate(c, timeout)
  /\ UNCHANGED intended

\* Variant: the start protocol forgets thread_init_ctx().
SysIpcSendMut(c, k, to, from) ==
  LET waiting == to \in Ids /\ (k.tcb[to].state = "RECV_BLOCKED" \/ to = c)
      paged   == to \in Ids /\ k.tcb[to].state = "INACTIVE" /\ Pager[to] = c
  IN  /\ UNCHANGED <<timed, leaked>>
      /\ IF waiting THEN Commit(DoIpc(k, c, c, to, from)) /\ UNCHANGED intended
         ELSE IF paged /\ k.mr[c].kind = "start"
           THEN /\ Commit(SetState(SetState(k, c, "RUNNABLE"), to, "RUNNABLE"))
                /\ UNCHANGED intended
         ELSE /\ Commit(SetState(k, c, "SEND_BLOCKED"))
              /\ intended' = [intended EXCEPT ![c] = to]

\* sys_ipc(), a destination.
SysIpcSend(c, k, to, from) ==
  LET waiting == to \in Ids /\ (k.tcb[to].state = "RECV_BLOCKED" \/ to = c)
      paged   == to \in Ids /\ k.tcb[to].state = "INACTIVE" /\ Pager[to] = c
  IN  /\ UNCHANGED <<timed, leaked>>
      /\ IF to = LOG THEN Commit(SetState(k, c, "RUNNABLE")) /\ UNCHANGED intended
         ELSE IF waiting THEN Commit(DoIpc(k, c, c, to, from)) /\ UNCHANGED intended
         ELSE IF paged /\ k.mr[c].kind = "start"
           THEN /\ Commit([SetState(SetState(k, c, "RUNNABLE"), to, "RUNNABLE")
                             EXCEPT !.tcb[to].ctx = TRUE])
                /\ UNCHANGED intended
         ELSE IF paged
           THEN Commit(SetState(DoIpc(k, c, c, to, from), to, "INACTIVE")) /\ UNCHANGED intended
         ELSE /\ Commit(SetState(k, c, "SEND_BLOCKED"))
              /\ intended' = [intended EXCEPT ![c] = to]

\* sys_ipc(), neither: wait for `from`; without one the thread is left in
\* the send state.
SysIpcReceive(c, k, from) ==
  /\ Commit(IF from # NIL
              THEN [SetState(k, c, "RECV_BLOCKED") EXCEPT !.tcb[c].ipc_from = from]
              ELSE SetState(k, c, "SEND_BLOCKED"))
  /\ UNCHANGED <<intended, timed, leaked>>

SysIpc(c, to, from, timeout, kind) ==
  /\ tcb[c].state = "RUNNABLE"
  /\ LET k == Trapped(c, to, from, kind)
     IN  IF to = NIL /\ timeout # "none" THEN SysIpcSleep(c, k, timeout)
         ELSE IF to # NIL THEN SysIpcSend(c, k, to, from)
         ELSE SysIpcReceive(c, k, from)

\* Variant: the expired event stays in the list.
IpcTimeoutMut(t) ==
  /\ timed[t] > 0
  /\ Commit(SetState(Now, t, "RUNNABLE"))
  /\ UNCHANGED <<intended, timed, leaked>>

\* ipc_timeout(): the thread becomes runnable whatever it is doing.
IpcTimeout(t) ==
  /\ timed[t] > 0
  /\ timed' = [timed EXCEPT ![t] = @ - 1]
  /\ Commit(SetState(Now, t, "RUNNABLE"))
  /\ UNCHANGED <<intended, leaked>>

\* Variant: blocked senders are not looked at.
DeliverOneMut(k, t) ==
  LET f  == k.tcb[t].ipc_from
  IN  IF k.tcb[t].state = "RECV_BLOCKED" /\ f \in Ids /\ k.tcb[f].state = "SEND_BLOCKED"
        THEN DoIpc(k, t, f, t, k.call[f].from)
        ELSE k

\* One iteration of ipc_deliver(), for the thread in thread_map[i].  An id
\* that no thread has never reads as blocked.  `caller` is whoever trapped
\* last; it matters only to a thread without a context, and blocked threads
\* have one.
DeliverOne(k, t) ==
  LET st == k.tcb[t].state
      f  == k.tcb[t].ipc_from
      to == intended[t]
  IN  IF st = "RECV_BLOCKED" /\ f \in Ids /\ k.tcb[f].state = "SEND_BLOCKED"
        THEN DoIpc(k, t, f, t, k.call[f].from)
      ELSE IF st = "SEND_BLOCKED" /\ to \in Ids /\ k.tcb[to].state = "RECV_BLOCKED"
        THEN DoIpc(k, t, t, to, k.call[t].from)
      ELSE k

\* The working state of ipc_deliver() after its first i iterations.
Delivered[i \in 0..N] == IF i = 0 THEN Now ELSE DeliverOne(Delivered[i - 1], i)

\* ipc_deliver(), the whole pass over the thread map.
IpcDeliver ==
  /\ \E k \in {Delivered[N]} : Commit(k)
  /\ UNCHANGED <<intended, timed, leaked>>

\* The timeout is read only of a call without a destination.
Next ==
  \/ \E c \in Ids, to \in Targets \ {NIL}, from \in Sources, kind \in Kinds :
       SysIpc(c, to, from, "none", kind)
  \/ \E c \in Ids, from \in Sources, timeout \in Timeouts, kind \in Kinds :
       SysIpc(c, NIL, from, timeout, kind)
  \/ \E t \in Ids : IpcTimeout(t)
  \/ IpcDeliver

Spec == Init /\ [][Next]_vars

-----------------------------------------------------------------------------
(* Properties.                                                             *)

\* One call transfers at most one message and receives at most one: a pass of
\* ipc_deliver() meets the same threads several times, as senders, as
\* receivers and, after a transfer, in a new state.
OneTransferPerCall ==
  [][\A i, j \in DOMAIN moved' :
       i # j => moved'[i][1] # moved'[j][1] /\ moved'[i][2] # moved'[j][2]]_vars

\* Only a thread that was never started lacks a context, so do_ipc()'s test
\* of ctx.sp never applies to a blocked thread, and a thread that waits to
\* receive names a partner, so that ipc_deliver() can find it.
BlockedHasContext ==
  \A t \in Ids :
    /\ tcb[t].state # "INACTIVE" => tcb[t].ctx
    /\ tcb[t].state = "RECV_BLOCKED" => tcb[t].ipc_from # NIL

\* A blocked phase ends only by a transfer in that phase, or when one of the
\* thread's own sleep events expires.
PhaseEndsWithTransfer ==
  [][\A t \in Ids :
       tcb'[t].state # tcb[t].state =>
         \/ /\ tcb[t].state = "RECV_BLOCKED" => \E i \in DOMAIN moved' : moved'[i][2] = t
            /\ tcb[t].state = "SEND_BLOCKED" => \E i \in DOMAIN moved' : moved'[i][1] = t
         \/ timed'[t] < timed[t]]_vars

\* A sender and a receiver that wait for each other do not do so for ever, if
\* the message fits the message registers: neither side looks for the other
\* when it blocks, the periodic ipc_deliver() has to bring them together.
Rendezvous ==
  \A f \in Ids : \A t \in Ids \ {f} :
    LET met == /\ tcb[f].state = "SEND_BLOCKED" /\ intended[f] = t /\ mr[f].kind # "overflow"
               /\ tcb[t].state = "RECV_BLOCKED" /\ tcb[t].ipc_from \in {f, ANY}
    IN  met ~> ~met

\* "To thread who is waiting for us or sends to myself" (ipc.c:159): a
\* message that sys_ipc() transfers at once goes to a thread that waits for
\* this sender or for anyone.
SentToWaiting ==
  [][\A i \in DOMAIN moved' :
       LET f == moved'[i][1]
           t == moved'[i][2]
       IN  tcb[f].state = "RUNNABLE" /\ tcb[t].state = "RECV_BLOCKED" =>
             tcb[t].ipc_from \in {f, ANY}]_vars
=============================================================================
