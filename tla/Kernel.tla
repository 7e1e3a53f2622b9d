------------------------------- MODULE Kernel -------------------------------
(***************************************************************************)
(* The switching core of the F9 microkernel: hardware interrupts raise     *)
(* soft interrupts, the kernel thread drains them in softirq_execute(),    *)
(* SVC turns a user thread into the pending `caller`, and PendSV picks the *)
(* next thread from the scheduler slots.                                   *)
(*                                                                         *)
(* Granularity.  One action is one stretch of code that no other writer of *)
(* the same variables can split:                                           *)
(*   - SysTick (priority 3) nests over PendSV (priority 0xF) but writes    *)
(*     only the flag, the kernel thread's state and the PendSV bit, so     *)
(*     PendSV has two steps, before and after the selection;               *)
(*   - SVC and the UART interrupt (both 0xF) commute with SysTick and are  *)
(*     one step each;                                                      *)
(*   - softirq_execute() runs in thread mode, so every access to a         *)
(*     variable that an interrupt also writes is a step of its own.        *)
(*                                                                         *)
(* What a softirq handler does to threads is kept as a relation over the   *)
(* thread states, the slots and the pending sleep events: the message      *)
(* words, the timer list and the thread tree have modules of their own.    *)
(***************************************************************************)
EXTENDS Integers

CONSTANTS
  Users,      \* entries of thread_table for threads that user code creates
  KernelThr,  \* tcb of the kernel thread (THREAD_KERNEL)
  IdleThr,    \* tcb of the idle thread (THREAD_IDLE)
  Root,       \* tcb of the root thread (THREAD_ROOT)
  NULL,       \* the null tcb pointer
  MaxRx,      \* bound: characters the UART may leave unread
  MaxEvents   \* bound: pending sleep events of one thread

ASSUME ThreadsAssumption ==
  /\ KernelThr # IdleThr /\ KernelThr # Root /\ IdleThr # Root
  /\ Users \cap {KernelThr, IdleThr, Root} = {}
  /\ NULL \notin Users \cup {KernelThr, IdleThr, Root}
ASSUME BoundsAssumption == MaxRx \in Nat /\ MaxEvents \in Nat

Clients == Users \cup {Root}                      \* threads that issue SVC
Threads == Clients \cup {KernelThr, IdleThr}

\* thread_state_t
States == {"INACTIVE", "RUNNABLE", "SVC_BLOCKED", "RECV_BLOCKED", "SEND_BLOCKED"}

\* sched_slot_id_t, highest priority first
SSI_SOFTIRQ == 0
SSI_INTR_THREAD == 1
SSI_ROOT_THREAD == 2
SSI_IPC_THREAD == 3
SSI_NORMAL_THREAD == 4
SSI_IDLE == 5
Slots == 0..5

\* softirq_type_t, in the order softirq_execute() visits them
KTE == 0
ASYNC == 1
SYSCALL == 2
KDB == 3
Softirqs == 0..3
\* Variant: syscall_init() forgets softirq_register().
RegisteredMut == {KTE, KDB}

Registered == {KTE, SYSCALL, KDB}   \* softirq_register() is never called for ASYNC

VARIABLES
  state,    \* tcb->state of every thread
  current,  \* the thread on the CPU
  caller,   \* the thread whose system call is being served
  slots,    \* slots[i].ss_scheduled
  place,    \* tcb of a user thread: free, in the tree below root, or cut off it
  flag,     \* softirq[i].schedule # 0
  kpc,      \* where the kernel thread is
  ki,       \* softirq_execute()'s loop index
  kany,     \* softirq_execute()'s local softirq_schedule # 0
  mode,     \* "thread", or "pendsv" inside pendsv_handler()
  sel,      \* schedule_in_irq()'s sel
  pendsv,   \* SCB_ICSR.PENDSVSET
  primask,  \* interrupts are disabled by cpsid i
  armed,    \* ktimer_enabled
  timed,    \* sleep events of each thread still in the timer list
  rx        \* characters in dbg_uart.rx

threadVars == <<state, slots, timed, place>>
kernelVars == <<kpc, ki, kany>>
switchVars == <<current, mode, sel>>
vars == <<state, current, caller, slots, place, flag, kpc, ki, kany, mode, sel,
          pendsv, primask, armed, timed, rx>>

KernelPcs == {"start", "check", "run", "clear", "mask", "scan", "set", "unmask", "svc"}

TypeOK ==
  /\ state \in [Threads -> States]
  /\ current \in Threads
  /\ caller \in Clients \cup {NULL}
  /\ slots \in [Slots -> Threads \cup {NULL}]
  /\ place \in [Users -> {"free", "tree", "cut"}]
  /\ flag \in [Softirqs -> BOOLEAN]
  /\ kpc \in KernelPcs
  /\ ki \in Softirqs
  /\ kany \in BOOLEAN
  /\ mode \in {"thread", "pendsv"}
  /\ sel \in Threads
  /\ pendsv \in BOOLEAN
  /\ primask \in BOOLEAN
  /\ armed \in BOOLEAN
  /\ timed \in [Clients -> 0..MaxEvents]
  /\ rx \in 0..MaxRx

\* The state switch_to_kernel() leaves: idle, root and the periodic
\* ipc_deliver event exist, the kernel thread is about to enter its loop.
Init ==
  /\ state = [t \in Threads |-> IF t \in Users THEN "INACTIVE" ELSE "RUNNABLE"]
  /\ current = KernelThr
  /\ caller = NULL
  /\ slots = [s \in Slots |-> CASE s = SSI_SOFTIRQ -> KernelThr
                                [] s = SSI_ROOT_THREAD -> Root
                                [] s = SSI_IDLE -> IdleThr
                                [] OTHER -> NULL]
  /\ place = [u \in Users |-> "free"]
  /\ flag = [s \in Softirqs |-> FALSE]
  /\ kpc = "start" /\ ki = 0 /\ kany = FALSE
  /\ mode = "thread" /\ sel = KernelThr
  /\ pendsv = FALSE /\ primask = FALSE
  /\ armed = TRUE
  /\ timed = [t \in Clients |-> 0]
  /\ rx = 0

-----------------------------------------------------------------------------
(* Interrupts.  IRQ_HANDLER(name, sub) runs sub() and then pends PendSV.   *)

\* softirq_schedule(): st is the thread table after the rest of the handler.
SoftirqSchedule(type, st) ==
  /\ flag' = [flag EXCEPT ![type] = TRUE]
  /\ state' = [st EXCEPT ![KernelThr] = "RUNNABLE"]

\* Variant: PendSV is pended only by an interrupt that preempts no other
\* (the unused NO_PREEMPTED_IRQ test).
RequestScheduleMut == pendsv' = (pendsv \/ mode = "thread")

\* PendSV is pended by every handler that IRQ_HANDLER wraps.
RequestSchedule == pendsv' = TRUE

\* Thread code executes only while no interrupt can take the CPU from it.
InThread(t) == mode = "thread" /\ current = t /\ (~pendsv \/ primask)

\* Variant: the flag is set without softirq_schedule(), which would also
\* make the kernel thread runnable.
SvcHandlerMut ==
  /\ \E t \in Clients : InThread(t) /\ ~primask
  /\ caller' = current
  /\ flag' = [flag EXCEPT ![SYSCALL] = TRUE]
  /\ state' = [state EXCEPT ![current] = "SVC_BLOCKED"]
  /\ RequestSchedule
  /\ UNCHANGED <<slots, place, kernelVars, switchVars, primask, armed, timed, rx>>

\* A client thread executes SVC: __svc_handler().
SvcHandler ==
  /\ \E t \in Clients : InThread(t) /\ ~primask
  /\ caller' = current
  /\ SoftirqSchedule(SYSCALL, [state EXCEPT ![current] = "SVC_BLOCKED"])
  /\ RequestSchedule
  /\ UNCHANGED <<slots, place, kernelVars, switchVars, primask, armed, timed, rx>>

\* SysTick: __ktimer_handler().  The tick that takes ktimer_delta to zero
\* disables the timer and raises the timer softirq; it may nest in PendSV.
KtimerHandler ==
  /\ ~primask
  /\ RequestSchedule
  /\ \/ /\ armed
        /\ armed' = FALSE
        /\ SoftirqSchedule(KTE, state)
     \/ UNCHANGED <<armed, flag, state>>
  /\ UNCHANGED <<caller, slots, place, kernelVars, switchVars, primask, timed, rx>>

\* UART: __uart_irq_handler().  A received character is queued and raises
\* the KDB softirq; a transmit interrupt only pends PendSV.
UartIrqHandler ==
  /\ ~primask /\ mode = "thread"
  /\ RequestSchedule
  /\ \/ /\ rx < MaxRx
        /\ rx' = rx + 1
        /\ SoftirqSchedule(KDB, state)
     \/ UNCHANGED <<rx, flag, state>>
  /\ UNCHANGED <<caller, slots, place, kernelVars, switchVars, primask, armed, timed>>

-----------------------------------------------------------------------------
(* PendSV: schedule_in_irq().                                              *)

\* thread_sched(): some runnable descendant of root, if there is one.
RunnableUsers == {u \in Users : place[u] = "tree" /\ state[u] = "RUNNABLE"}

\* Slot s yields a thread: the one it holds, or what its handler finds.
\* Only the normal slot has a handler.
SlotReady(s) ==
  \/ slots[s] # NULL /\ state[slots[s]] = "RUNNABLE"
  \/ s = SSI_NORMAL_THREAD /\ RunnableUsers # {}

\* schedule_select(): the first slot that yields a thread.  When none does
\* the kernel panics, so this is not enabled.
ScheduleSelect ==
  \E s \in Slots :
    /\ SlotReady(s)
    /\ \A r \in Slots : r < s => ~SlotReady(r)
    /\ IF slots[s] # NULL /\ state[slots[s]] = "RUNNABLE"
         THEN sel' = slots[s] /\ UNCHANGED slots
         ELSE \E u \in RunnableUsers :
                sel' = u /\ slots' = [slots EXCEPT ![s] = u]

PendSvSelect ==
  /\ pendsv /\ ~primask /\ mode = "thread"
  /\ pendsv' = FALSE
  /\ mode' = "pendsv"
  /\ ScheduleSelect
  /\ UNCHANGED <<state, current, caller, place, flag, kernelVars, primask, armed, timed, rx>>

\* context_switch() and return from the exception.
PendSvSwitch ==
  /\ mode = "pendsv"
  /\ mode' = "thread"
  /\ current' = sel
  /\ UNCHANGED <<threadVars, caller, flag, kernelVars, sel, pendsv, primask, armed, rx>>

-----------------------------------------------------------------------------
(* The softirq handlers' effect on threads, slots and sleep events.        *)

\* do_ipc() between threads that both have a context.  A message that is
\* too long leaves both states as they are.
DoIpc(from, to) ==
  \/ UNCHANGED <<state, slots>>
  \/ /\ \E s \in {"RUNNABLE", "RECV_BLOCKED"} :
          state' = [state EXCEPT ![to] = "RUNNABLE", ![from] = s]
     /\ slots' = [slots EXCEPT ![SSI_NORMAL_THREAD] = from, ![SSI_IPC_THREAD] = to]

\* sys_ipc(), the receiver waits or the caller sends to itself.
SysIpcDeliver ==
  \E to \in Clients :
    /\ state[to] = "RECV_BLOCKED" \/ to = caller
    /\ DoIpc(caller, to)
    /\ UNCHANGED <<timed, place, armed>>

\* sys_ipc(), the receiver is inactive and the caller is its pager: start
\* it, or hand it a message that leaves it inactive.  The slots are set only
\* when the receiver already has a context.
SysIpcPager ==
  \E to \in Users \ {caller} :
    /\ state[to] = "INACTIVE"
    /\ \/ /\ state' = [state EXCEPT ![caller] = "RUNNABLE", ![to] = "RUNNABLE"]
          /\ UNCHANGED slots
       \/ /\ state' = [state EXCEPT ![caller] = "RUNNABLE"]
          /\ UNCHANGED slots
       \/ /\ \E s \in {"RUNNABLE", "RECV_BLOCKED"} :
               state' = [state EXCEPT ![caller] = s]
          /\ slots' = [slots EXCEPT ![SSI_NORMAL_THREAD] = caller,
                                    ![SSI_IPC_THREAD] = to]
       \/ UNCHANGED <<state, slots>>
    /\ UNCHANGED <<timed, place, armed>>

\* ktimer_event_schedule() calls ktimer_enable() or leaves the timer alone.
MayArmTimer == armed' \in {armed, TRUE}

\* sys_ipc(), sleep.  ktimer_event_create() adds no event when the period
\* rounds to zero ticks or the event table is full; its result is ignored.  An
\* event that comes before all others starts the timer.
SysIpcSleep ==
  /\ state' = [state EXCEPT ![caller] = "INACTIVE"]
  /\ \/ /\ timed[caller] < MaxEvents
        /\ timed' = [timed EXCEPT ![caller] = @ + 1]
        /\ MayArmTimer
     \/ UNCHANGED <<timed, armed>>
  /\ UNCHANGED <<slots, place>>

\* sys_ipc(), nobody to talk to yet: block in the send or receive phase.
SysIpcBlock ==
  /\ \E s \in {"SEND_BLOCKED", "RECV_BLOCKED"} :
       state' = [state EXCEPT ![caller] = s]
  /\ UNCHANGED <<slots, timed, place, armed>>

\* The calls that only make the caller runnable again: a refused thread
\* creation, messages to the log thread, calls that are not implemented.
SyscallReturn ==
  /\ state' = [state EXCEPT ![caller] = "RUNNABLE"]
  /\ UNCHANGED <<slots, timed, place, armed>>

\* Where the children of the caller are.
BelowCaller ==
  IF caller = Root \/ (caller \in Users /\ place[caller] = "tree") THEN "tree" ELSE "cut"

\* sys_thread_control(), creation: an unused tcb becomes an inactive child of
\* the caller.  A slot or an event may still hold it from an earlier life.
SysThreadCreate ==
  \E u \in Users :
    /\ place[u] = "free"
    /\ place' = [place EXCEPT ![u] = BelowCaller]
    /\ state' = [state EXCEPT ![u] = "INACTIVE", ![caller] = "RUNNABLE"]
    /\ UNCHANGED <<slots, timed, armed>>

\* sys_thread_control(), removal: thread_destroy() gives the children of the
\* removed thread to the caller.  The threads below it are then where the caller's
\* children are; a caller that is one of them, or is the removed thread, is cut off
\* the tree together with them.  The slots and the tcb's state are kept.
SysThreadDestroy ==
  \E u \in Users, below \in SUBSET Users :
    /\ place[u] # "free"
    /\ u \notin below /\ \A c \in below : place[c] = place[u]
    /\ place' = [x \in Users |-> CASE x = u -> "free"
                                   [] x \in below -> IF caller \in below \cup {u} THEN "cut"
                                                     ELSE BelowCaller
                                   [] OTHER -> place[x]]
    /\ state' = [state EXCEPT ![caller] = "RUNNABLE"]
    /\ UNCHANGED <<slots, timed, armed>>

SyscallHandler ==
  \/ SyscallReturn \/ SysThreadCreate \/ SysThreadDestroy
  \/ SysIpcDeliver \/ SysIpcPager \/ SysIpcSleep \/ SysIpcBlock

\* One expired event: a sleeper's ipc_timeout(), which makes its thread
\* runnable whatever state that thread is in by then, or one delivery of the
\* periodic ipc_deliver().
TimerEvent ==
  UNCHANGED place /\
  (\/ \E t \in Clients :
       /\ timed[t] > 0
       /\ timed' = [timed EXCEPT ![t] = @ - 1]
       /\ state' = [state EXCEPT ![t] = "RUNNABLE"]
       /\ slots' = [slots EXCEPT ![SSI_NORMAL_THREAD] = t]
  \/ \E from, to \in Clients :
       /\ state[from] = "SEND_BLOCKED" /\ state[to] = "RECV_BLOCKED"
       /\ DoIpc(from, to)
       /\ UNCHANGED timed)

-----------------------------------------------------------------------------
(* kernel_thread(): while (1) { softirq_execute(); irq_svc(); }            *)

NextSoftirq ==
  IF ki < KDB THEN ki' = ki + 1 /\ kpc' = "check"
              ELSE kpc' = "mask" /\ UNCHANGED ki

KStart ==
  /\ kpc = "start"
  /\ kpc' = "check" /\ ki' = 0
  /\ UNCHANGED <<threadVars, caller, flag, kany, pendsv, primask, armed, rx>>

KCheck ==
  /\ kpc = "check"
  /\ IF flag[ki] /\ ki \in Registered
       THEN kpc' = "run" /\ UNCHANGED ki
       ELSE NextSoftirq
  /\ UNCHANGED <<threadVars, caller, flag, kany, pendsv, primask, armed, rx>>

\* ktimer_event_handler() runs its chain of events one by one.  Scheduling
\* ipc_deliver() again may arm the timer, and it is armed before the handler returns.
KRunTimerEvent ==
  /\ kpc = "run" /\ ki = KTE
  /\ TimerEvent
  /\ MayArmTimer
  /\ UNCHANGED <<caller, flag, kernelVars, pendsv, primask, rx>>

KRunTimerDone ==
  /\ kpc = "run" /\ ki = KTE
  /\ armed' = TRUE
  /\ kpc' = "clear"
  /\ UNCHANGED <<threadVars, caller, flag, ki, kany, pendsv, primask, rx>>

KRunSyscall ==
  /\ kpc = "run" /\ ki = SYSCALL
  /\ SyscallHandler
  /\ kpc' = "clear"
  /\ UNCHANGED <<caller, flag, ki, kany, pendsv, primask, rx>>

\* debug_kdb_handler() takes one character; an empty queue reads as 0.
KRunKdb ==
  /\ kpc = "run" /\ ki = KDB
  /\ rx' = IF rx > 0 THEN rx - 1 ELSE 0
  /\ kpc' = "clear"
  /\ UNCHANGED <<threadVars, caller, flag, ki, kany, pendsv, primask, armed>>

KClear ==
  /\ kpc = "clear"
  /\ flag' = [flag EXCEPT ![ki] = FALSE]
  /\ NextSoftirq
  /\ UNCHANGED <<threadVars, caller, kany, pendsv, primask, armed, rx>>

\* Variant: irq_disable() is missing.
KMaskMut ==
  /\ kpc = "mask"
  /\ kpc' = "scan"
  /\ UNCHANGED <<threadVars, caller, flag, ki, kany, pendsv, primask, armed, rx>>

KMask ==
  /\ kpc = "mask"
  /\ kpc' = "scan"
  /\ primask' = TRUE
  /\ UNCHANGED <<threadVars, caller, flag, ki, kany, pendsv, armed, rx>>

KScan ==
  /\ kpc = "scan"
  /\ kpc' = "set"
  /\ kany' = \E s \in Softirqs : flag[s]
  /\ UNCHANGED <<threadVars, caller, flag, ki, pendsv, primask, armed, rx>>

KSetState ==
  /\ kpc = "set"
  /\ kpc' = "unmask"
  /\ state' = [state EXCEPT ![KernelThr] = IF kany THEN "RUNNABLE" ELSE "INACTIVE"]
  /\ UNCHANGED <<slots, timed, place, caller, flag, ki, kany, pendsv, primask, armed, rx>>

\* Variant: `goto retry` without its condition.
KUnmaskMut ==
  /\ kpc = "unmask"
  /\ primask' = FALSE
  /\ kpc' = "start"
  /\ UNCHANGED <<threadVars, caller, flag, ki, kany, pendsv, armed, rx>>

KUnmask ==
  /\ kpc = "unmask"
  /\ primask' = FALSE
  /\ kpc' = IF kany THEN "start" ELSE "svc"
  /\ UNCHANGED <<threadVars, caller, flag, ki, kany, pendsv, armed, rx>>

\* irq_svc(): __svc_handler() returns at once for the kernel thread, PendSV
\* is pended, and the loop resumes when the kernel thread is next switched to.
KSvc ==
  /\ kpc = "svc"
  /\ kpc' = "start"
  /\ RequestSchedule
  /\ UNCHANGED <<threadVars, caller, flag, ki, kany, primask, armed, rx>>

KernelThread ==
  /\ InThread(KernelThr)
  /\ \/ KStart \/ KCheck \/ KClear
     \/ KRunTimerEvent \/ KRunTimerDone \/ KRunSyscall \/ KRunKdb
     \/ KMask \/ KScan \/ KSetState \/ KUnmask \/ KSvc
  /\ UNCHANGED switchVars

Next ==
  \/ SvcHandler \/ KtimerHandler \/ UartIrqHandler
  \/ PendSvSelect \/ PendSvSwitch
  \/ KernelThread

Spec == Init /\ [][Next]_vars

\* Pended exceptions are taken, time passes, PendSV is now and then left with
\* no further PendSV pending (a tick is longer than the handler), and the
\* thread returned to then executes some instruction.
Fairness ==
  /\ WF_vars(PendSvSelect) /\ WF_vars(PendSvSwitch)
  /\ SF_vars(PendSvSwitch /\ ~pendsv)
  /\ WF_vars(KtimerHandler) /\ WF_vars(KtimerHandler /\ armed' # armed)
  /\ SF_vars(KernelThread)

FairSpec == Spec /\ Fairness

-----------------------------------------------------------------------------
(* Properties.                                                             *)

\* softirq_execute() is never left for another thread while it still has
\* work: from the first flag it looks at to the decision to leave, the kernel
\* thread stays on the CPU and stays runnable (softirq.c relies on this: its
\* handlers touch threads, slots and `caller` without any lock).
KernelNotPreempted ==
  kpc \in {"check", "run", "clear", "mask", "scan", "set"} =>
    /\ current = KernelThr
    /\ state[KernelThr] = "RUNNABLE"
    /\ mode = "pendsv" => sel = KernelThr

\* A raised softirq always finds the kernel thread runnable: the state that
\* softirq_execute() stores never hides a flag that an interrupt raised.
PendingKeepsKernelRunnable ==
  (\E s \in Softirqs : flag[s]) => state[KernelThr] = "RUNNABLE"

\* No client or idle instruction executes while a softirq is pending: a
\* system call, timer chain or debug character is served before the CPU
\* returns to a thread, even when SysTick lands inside PendSV.
SoftirqBeforeThreads ==
  \A s \in Softirqs : flag[s] =>
    ~ \E t \in Threads \ {KernelThr} : InThread(t)

\* thread_switch() asserts that its target is runnable.  The selection and
\* the switch are separate steps, and SysTick may run between them.
SwitchTargetRunnable ==
  mode = "pendsv" => state[sel] = "RUNNABLE"

\* __svc_handler() overwrites `caller` without looking: it must never do so
\* while the previous system call waits for its handler.
CallerNotOverwritten ==
  [][caller' # caller => ~flag[SYSCALL]]_vars

\* Every system call that was trapped reaches syscall_handler() and its
\* softirq is retired.
SyscallServed == flag[SYSCALL] ~> ~flag[SYSCALL]

\* "Must ensure that no interrupt reschedule its softirq" (softirq.c:55): an
\* expiry of the timer is never forgotten.  Either the timer is running, or
\* its softirq is pending, so that ktimer_event_handler() will arm it again.
TimerExpiryKept == armed \/ flag[KTE]
=============================================================================
