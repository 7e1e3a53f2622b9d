------------------------------- MODULE KTimer -------------------------------
(***************************************************************************)
(* The kernel timer: a list of events, each with its distance (delta) from *)
(* the one before, and a countdown that SysTick decrements.                *)
(*                                                                         *)
(* Scheduling and the event handler run in the kernel thread and are one   *)
(* action each: a tick is much longer than either.  (What happens when an  *)
(* expiry nevertheless falls between the handler and the clearing of its   *)
(* softirq is the switching core's run timer_expiry_lost.)                 *)
(***************************************************************************)
EXTENDS Integers, Sequences

CONSTANTS
  Deliver,   \* the periodic event whose handler is ipc_deliver()
  Sleeps,    \* entries of ktimer_event_table for ipc_timeout() events
  Mod,       \* uint32_t is modelled as 0..Mod-1
  MinTicks,  \* CONFIG_KTIMER_MINTICKS
  MaxTicks,  \* KTIMER_MAXTICKS
  First,     \* ticks of the first ipc_deliver() event (64)
  Period,    \* what ipc_deliver() returns (4096)
  SleepTicks \* the sleeping times that threads ask for, in ticks

ASSUME KTimerAssumption ==
  /\ Deliver \notin Sleeps
  /\ Mod \in Nat /\ MinTicks \in 1..Mod /\ MaxTicks \in 1..(Mod - 1)
  /\ First \in 1..(Mod - 1) /\ Period \in MinTicks..(Mod - 1)
  /\ SleepTicks \subseteq 0..(Mod - 1)

Events == Sleeps \cup {Deliver}
Word == 0..(Mod - 1)

VARIABLES
  queue,    \* event_queue, first event first
  enabled,  \* ktimer_enabled
  delta,    \* ktimer_delta
  time,     \* ktimer_time
  flag,     \* the KTE softirq is pending
  table,    \* entries of ktimer_event_table that are in use
  ran       \* history: events that the last handler ran

vars == <<queue, enabled, delta, time, flag, table, ran>>

TypeOK ==
  /\ queue \in Seq([ev : Events, delta : Word])
  /\ enabled \in BOOLEAN /\ flag \in BOOLEAN
  /\ delta \in Word
  /\ time \in 0..Mod
  /\ table \in SUBSET Events
  /\ ran \in SUBSET Events

\* main() has created the ipc_deliver() event.
Init ==
  /\ queue = <<[ev |-> Deliver, delta |-> First]>>
  /\ enabled = TRUE /\ delta = First /\ time = 0
  /\ flag = FALSE
  /\ table = {Deliver}
  /\ ran = {}

-----------------------------------------------------------------------------
(* Pure parts: k is a record of the list and the countdown.                *)

Now == [queue |-> queue, enabled |-> enabled, delta |-> delta, time |-> time]

\* A uint32_t value read as a long.
Signed(x) == IF 2 * x >= Mod THEN x - Mod ELSE x

\* Mutant: the timer is loaded and not switched on.
KtimerEnableMut(k, ticks) ==
  IF k.enabled THEN k ELSE [k EXCEPT !.delta = ticks, !.time = 0]

\* ktimer_enable(): does nothing while the timer is running.
KtimerEnable(k, ticks) ==
  IF k.enabled THEN k
  ELSE [k EXCEPT !.delta = ticks, !.time = 0, !.enabled = TRUE]

\* etime: the distance of the i-th event from the head's start.
Etime(q) ==
  LET etime[i \in 0..Len(q)] == IF i = 0 THEN 0 ELSE (etime[i - 1] + q[i].delta) % Mod
  IN  etime

\* The number of events that stay before a new one.
Place(q, ticks) ==
  IF ticks < q[1].delta THEN 0
  ELSE CHOOSE i \in 1..Len(q) :
         /\ i = Len(q) \/ ticks <= Etime(q)[i + 1]
         /\ \A j \in 1..(i - 1) : ticks > Etime(q)[j + 1]

\* ktimer_event_recalc(): every event from here on, not only the next.
Recalc(q, d) == [i \in DOMAIN q |-> [q[i] EXCEPT !.delta = (@ - d) % Mod]]

\* Mutant: the link to the next event is overwritten before it is saved.
InsertMut(q, ticks, ev) ==
  SubSeq(q, 1, Place(q, ticks)) \o <<[ev |-> ev, delta |-> MinTicks]>>

\* The list with a new event in it.  Its distance is a long: ticks from which
\* more than their number was subtracted are negative, and become 0.
Insert(q, ticks, ev) ==
  LET i == Place(q, ticks)
      d == Signed(IF i = 0 THEN ticks ELSE (ticks - Etime(q)[i]) % Mod)
      m == IF d < MinTicks THEN 0 ELSE d
  IN  SubSeq(q, 1, i) \o <<[ev |-> ev, delta |-> m]>>
        \o Recalc(SubSeq(q, i + 1, Len(q)), m)

\* ktimer_event_schedule()
EventSchedule(k, arg, ev) ==
  LET ticks == (arg - k.time) % Mod
      early == k.queue = <<>> \/ ticks < k.queue[1].delta
      q     == IF k.queue = <<>> THEN <<[ev |-> ev, delta |-> ticks]>>
                                 ELSE Insert(k.queue, ticks, ev)
  IN  IF arg = 0 THEN k
      ELSE [(IF early THEN KtimerEnable(k, ticks) ELSE k) EXCEPT !.queue = q]

\* The events ktimer_event_handler() runs: the first, and those at distance
\* zero behind it.
ChainLength(q) ==
  CHOOSE n \in 1..Len(q) :
    /\ \A i \in 2..n : q[i].delta = 0
    /\ n = Len(q) \/ q[n + 1].delta # 0

Commit(k) ==
  /\ queue' = k.queue /\ enabled' = k.enabled /\ delta' = k.delta /\ time' = k.time

-----------------------------------------------------------------------------

\* ktimer_event_create() for a sleeping thread.  A full table, and a time of
\* no tick, are reported by a result that sys_ipc() ignores; in the second
\* case the table entry stays in use.
EventCreate(ticks) ==
  /\ \E e \in Sleeps \ table :
       /\ table' = table \cup {e}
       /\ Commit(EventSchedule(Now, ticks, e))
  /\ ran' = {}
  /\ UNCHANGED flag

\* __ktimer_handler(), one tick.
KtimerHandler ==
  /\ IF enabled /\ delta > 0
       THEN IF delta = 1
              THEN enabled' = FALSE /\ time' = 0 /\ delta' = 0 /\ flag' = TRUE
              ELSE time' = time + 1 /\ delta' = delta - 1 /\ UNCHANGED <<enabled, flag>>
       ELSE UNCHANGED <<enabled, time, delta, flag>>
  /\ ran' = {}
  /\ UNCHANGED <<queue, table>>

\* ktimer_enter_tickless(): the idle thread sleeps n ticks, at most up to the
\* one before the expiry, and accounts for them itself.
EnterTickless ==
  /\ enabled /\ ~flag
  /\ \E n \in 1..(IF delta <= MaxTicks THEN delta - 1 ELSE MaxTicks - 1) :
       /\ time' = time + n
       /\ delta' = delta - n
  /\ ran' = {}
  /\ UNCHANGED <<queue, enabled, flag, table>>

\* Mutant: every event is scheduled again.
RunEventMut(k, e) == EventSchedule(k, Period, e.ev)

\* One event of the chain: ipc_deliver() is scheduled again, a sleep event
\* is over and its entry is freed.
RunEvent(k, e) ==
  IF e.ev = Deliver THEN EventSchedule(k, Period, e.ev) ELSE k

\* "walk chain" of ktimer_event_handler(): the state after its first i events.
Walked(k, chain) ==
  LET walked[i \in 0..Len(chain)] == IF i = 0 THEN k ELSE RunEvent(walked[i - 1], chain[i])
  IN  walked

\* ktimer_event_handler(), called for the KTE softirq.
EventHandler ==
  /\ flag /\ flag' = FALSE
  /\ IF queue = <<>>
       THEN /\ enabled' = FALSE /\ ran' = {}
            /\ UNCHANGED <<queue, delta, time, table>>
       ELSE LET n     == ChainLength(queue)
                chain == SubSeq(queue, 1, n)
                rest  == [Now EXCEPT !.queue = SubSeq(queue, n + 1, Len(queue))]
                evs   == {chain[i].ev : i \in 1..n}
            IN  /\ \E done \in {Walked(rest, chain)[n]} :
                     Commit(IF done.queue = <<>> THEN done
                            ELSE KtimerEnable(done, done.queue[1].delta))
                /\ ran' = evs
                /\ table' = table \ (evs \ {Deliver})

Next ==
  \/ \E ticks \in SleepTicks : EventCreate(ticks)
  \/ KtimerHandler \/ EnterTickless \/ EventHandler

Spec == Init /\ [][Next]_vars

\* Time passes, and the kernel thread runs the softirq.
FairSpec == Spec /\ WF_vars(KtimerHandler) /\ WF_vars(EventHandler)

-----------------------------------------------------------------------------
(* Properties.                                                             *)

Queued == {queue[i].ev : i \in DOMAIN queue}

\* Every event is on the list at most once and its table entry is in use:
\* taking a chain off the list, freeing its entries and putting its periodic
\* event back duplicates none and leaves no freed entry on the list.  As
\* ipc_deliver()'s event is always there, ktimer_event_handler() never takes
\* its branch marked "That is bug if we are here".  And the countdown never stops
\* with events on the list: ktimer_enable() is reached on every path that leaves
\* one behind, or the softirq is pending.
ListMatchesTable ==
  /\ queue # <<>> => flag \/ (enabled /\ delta > 0)
  /\ \A i, j \in DOMAIN queue : queue[i].ev = queue[j].ev => i = j
  /\ Deliver \in Queued /\ Queued \subseteq table

\* A sleep event leaves the list only by being run, and only an expiry of the
\* timer runs any.
LeavesByRunning == [][(Queued \ Queued') \subseteq ran' /\ (ran' # {} => flag)]_vars

\* The timer expires again and again, whatever sleeping times are asked for.
KeepsExpiring == []<>flag

\* "Threads that are blocked during IPC can be unblocked either by completing
\* their IPC or aborting it due to a timeout" (Documentation/ktimer.txt): a
\* timeout on the list is run eventually.
TimeoutsRun == \A e \in Sleeps : e \in Queued ~> e \in ran

=============================================================================
