---------------------------- MODULE KernelProofs ----------------------------
(***************************************************************************)
(* Proofs about the switching core, for any set of user threads and any    *)
(* bounds.  None of the properties is inductive: whether the kernel thread *)
(* may be left depends on where it is, on its state, on what PendSV has    *)
(* already selected and on PendSV being pended again.  KernelInv relates   *)
(* these.  And about the clock the kernel keeps while it idles without     *)
(* ticks, for any length of a tick and any width of the counter: ClockInv  *)
(* and VerifyInv.                                                          *)
(***************************************************************************)
EXTENDS Kernel, Tickless, Induction

Pending == \E s \in Softirqs : flag[s]

\* The kernel thread owns the first slot and is in one of two states.
KernelSlot ==
  /\ slots[SSI_SOFTIRQ] = KernelThr
  /\ state[KernelThr] \in {"RUNNABLE", "INACTIVE"}

\* Interrupts are masked exactly around the scan of the flags, which the
\* kernel thread executes.
MaskedScan ==
  /\ primask <=> kpc \in {"scan", "set", "unmask"}
  /\ primask => current = KernelThr /\ mode = "thread"

\* softirq_execute()'s local variable agrees with the flags while masked.
ScanResult ==
  /\ kpc \in {"set", "unmask"} => (kany <=> Pending)
  /\ kpc = "unmask" => (kany => state[KernelThr] = "RUNNABLE")

\* The handler that runs was requested, and a requested call has a caller.
HandlerRequested ==
  /\ kpc \in {"run", "clear"} => flag[ki]
  /\ flag[SYSCALL] => caller \in Clients

\* The kernel thread enters its loop only when it was switched to runnable.
StartRunnable ==
  kpc = "start" /\ current = KernelThr /\ mode = "thread" /\ ~pendsv
    => state[KernelThr] = "RUNNABLE"

\* A pending softirq that PendSV did not see has pended PendSV again.
SwitchComing ==
  /\ Pending /\ mode = "thread" /\ current # KernelThr => pendsv
  /\ Pending /\ mode = "pendsv" /\ sel # KernelThr => pendsv

KernelInv ==
  /\ TypeOK
  /\ KernelSlot
  /\ MaskedScan
  /\ ScanResult
  /\ HandlerRequested
  /\ StartRunnable
  /\ SwitchComing
  /\ KernelNotPreempted
  /\ PendingKeepsKernelRunnable
  /\ SwitchTargetRunnable

-----------------------------------------------------------------------------
\* The kernel thread, the idle thread and the clients are different tcbs.
LEMMA DistinctThreads ==
  /\ KernelThr \in Threads /\ KernelThr \notin Clients
  /\ Clients \subseteq Threads /\ Users \subseteq Clients
  /\ NULL \notin Threads
  BY ThreadsAssumption DEF Threads, Clients

LEMMA InitInv == Init => KernelInv
<1> SUFFICES ASSUME Init PROVE KernelInv OBVIOUS
<1>1. TypeOK
  <2>1. /\ state \in [Threads -> States] /\ current \in Threads
        /\ sel \in Threads /\ caller \in Clients \cup {NULL}
    BY DistinctThreads DEF Init, States
  <2>2. slots \in [Slots -> Threads \cup {NULL}]
    BY DistinctThreads DEF Init, Slots, Threads, Clients
  <2>3. timed \in [Clients -> 0..MaxEvents] /\ rx \in 0..MaxRx
    BY BoundsAssumption DEF Init
  <2>4. /\ flag \in [Softirqs -> BOOLEAN] /\ ki \in Softirqs /\ kpc \in KernelPcs
        /\ place \in [Users -> {"free", "tree", "cut"}]
    BY DEF Init, Softirqs, KernelPcs
  <2>5. /\ kany \in BOOLEAN /\ pendsv \in BOOLEAN /\ primask \in BOOLEAN
        /\ armed \in BOOLEAN /\ mode \in {"thread", "pendsv"}
    BY Zenon DEF Init
  <2> QED BY <2>1, <2>2, <2>3, <2>4, <2>5 DEF TypeOK
<1>2. ~Pending /\ ~flag[SYSCALL]
  BY DEF Init, Pending, Softirqs, SYSCALL
<1>3. state[KernelThr] = "RUNNABLE"
  <2>1. KernelThr \in Threads /\ KernelThr \notin Users
    BY DistinctThreads
  <2> QED BY <2>1 DEF Init
<1>4. slots[SSI_SOFTIRQ] = KernelThr
  BY DEF Init, Slots, SSI_SOFTIRQ, SSI_ROOT_THREAD, SSI_IDLE
<1> QED
  BY <1>1, <1>2, <1>3, <1>4
  DEF Init, KernelInv, KernelSlot, MaskedScan, ScanResult, HandlerRequested,
      StartRunnable, SwitchComing, KernelNotPreempted,
      PendingKeepsKernelRunnable, SwitchTargetRunnable, Pending

\* What a softirq handler may do to the threads: keep the types, the kernel
\* thread's state and the kernel thread's slot.
HandlerKeeps ==
  /\ state' \in [Threads -> States]
  /\ slots' \in [Slots -> Threads \cup {NULL}]
  /\ timed' \in [Clients -> 0..MaxEvents]
  /\ place' \in [Users -> {"free", "tree", "cut"}]
  /\ state'[KernelThr] = state[KernelThr]
  /\ slots'[SSI_SOFTIRQ] = slots[SSI_SOFTIRQ]

\* do_ipc() writes the states of two clients and the slots 3 and 4.
LEMMA DoIpcKeeps ==
  ASSUME TypeOK, NEW from \in Clients, NEW to \in Clients, DoIpc(from, to)
  PROVE  /\ state' \in [Threads -> States]
         /\ slots' \in [Slots -> Threads \cup {NULL}]
         /\ state'[KernelThr] = state[KernelThr]
         /\ slots'[SSI_SOFTIRQ] = slots[SSI_SOFTIRQ]
  BY DistinctThreads
  DEF TypeOK, DoIpc, States, Slots, SSI_SOFTIRQ, SSI_NORMAL_THREAD, SSI_IPC_THREAD

\* syscall_handler(), whichever call it decodes.
LEMMA SyscallKeeps ==
  ASSUME TypeOK, caller \in Clients, SyscallHandler
  PROVE  HandlerKeeps
<1>1. CASE SyscallReturn \/ SysIpcBlock
  BY <1>1, DistinctThreads DEF SyscallReturn, SysIpcBlock, HandlerKeeps, TypeOK, States
<1>2. CASE SysThreadCreate
  BY <1>2, DistinctThreads DEF SysThreadCreate, BelowCaller, HandlerKeeps, TypeOK, States
<1>3. CASE SysThreadDestroy
  BY <1>3, DistinctThreads DEF SysThreadDestroy, BelowCaller, HandlerKeeps, TypeOK, States
<1>4. CASE SysIpcDeliver
  BY <1>4, DoIpcKeeps DEF SysIpcDeliver, HandlerKeeps, TypeOK
<1>5. CASE SysIpcPager
  BY <1>5, DistinctThreads
  DEF SysIpcPager, HandlerKeeps, TypeOK, States, Slots, SSI_SOFTIRQ,
      SSI_NORMAL_THREAD, SSI_IPC_THREAD
<1>6. CASE SysIpcSleep
  <2>1. state' \in [Threads -> States] /\ state'[KernelThr] = state[KernelThr]
    BY <1>6, DistinctThreads DEF SysIpcSleep, TypeOK, States
  <2>2. timed' \in [Clients -> 0..MaxEvents]
    BY <1>6, BoundsAssumption DEF SysIpcSleep, TypeOK
  <2> QED BY <1>6, <2>1, <2>2 DEF SysIpcSleep, HandlerKeeps, TypeOK
<1> QED BY <1>1, <1>2, <1>3, <1>4, <1>5, <1>6 DEF SyscallHandler

\* A system call leaves the timer alone or starts it.
LEMMA SyscallArms ==
  ASSUME armed \in BOOLEAN, SyscallHandler
  PROVE  armed' \in BOOLEAN
<1>1. armed' = armed \/ armed' = TRUE
  BY DEF SyscallHandler, SyscallReturn, SysThreadCreate, SysThreadDestroy, SysIpcDeliver,
         SysIpcPager, SysIpcSleep, SysIpcBlock, MayArmTimer
<1> QED BY <1>1, Zenon

\* ktimer_event_handler(), one event.
LEMMA TimerKeeps ==
  ASSUME TypeOK, TimerEvent
  PROVE  HandlerKeeps
<1>1. CASE \E t \in Clients :
             /\ timed[t] > 0
             /\ timed' = [timed EXCEPT ![t] = @ - 1]
             /\ state' = [state EXCEPT ![t] = "RUNNABLE"]
             /\ slots' = [slots EXCEPT ![SSI_NORMAL_THREAD] = t]
  <2>1. timed' \in [Clients -> 0..MaxEvents]
    BY <1>1, BoundsAssumption DEF TypeOK
  <2> QED
    BY <1>1, <2>1, DistinctThreads
    DEF TimerEvent, HandlerKeeps, TypeOK, States, Slots, SSI_SOFTIRQ, SSI_NORMAL_THREAD
<1>2. CASE \E from, to \in Clients : DoIpc(from, to) /\ UNCHANGED timed
  BY <1>2, DoIpcKeeps DEF TimerEvent, HandlerKeeps, TypeOK
<1> QED BY <1>1, <1>2 DEF TimerEvent

-----------------------------------------------------------------------------
(* One lemma per interrupt, one for the steps of the kernel thread.        *)

\* A handler raises a softirq and pends PendSV: st is the thread table that
\* the rest of the handler leaves.
LEMMA RaiseKeeps ==
  ASSUME KernelInv, NEW type \in Softirqs, NEW st \in [Threads -> States],
         ~primask, SoftirqSchedule(type, st), RequestSchedule,
         caller' \in Clients \cup {NULL},
         flag'[SYSCALL] => caller' \in Clients,
         mode = "pendsv" => st[sel] = "RUNNABLE",
         armed' \in BOOLEAN, rx' \in 0..MaxRx,
         UNCHANGED <<slots, place, kernelVars, switchVars, primask, timed>>
  PROVE  KernelInv'
<1>1. /\ flag' \in [Softirqs -> BOOLEAN] /\ state' \in [Threads -> States]
      /\ state'[KernelThr] = "RUNNABLE" /\ pendsv' = TRUE
      /\ \A s \in Softirqs : flag[s] => flag'[s]
      /\ \A t \in Threads : st[t] = "RUNNABLE" => state'[t] = "RUNNABLE"
  BY DistinctThreads
  DEF KernelInv, TypeOK, SoftirqSchedule, RequestSchedule, Softirqs, States
<1>2. TypeOK'
  BY <1>1 DEF KernelInv, TypeOK, kernelVars, switchVars
<1>3. KernelSlot' /\ MaskedScan' /\ ScanResult' /\ PendingKeepsKernelRunnable'
  BY <1>1
  DEF KernelInv, KernelSlot, MaskedScan, ScanResult, PendingKeepsKernelRunnable,
      kernelVars, switchVars
<1>4. HandlerRequested'
  BY <1>1 DEF KernelInv, HandlerRequested, TypeOK, kernelVars
<1>5. StartRunnable' /\ SwitchComing' /\ KernelNotPreempted'
  BY <1>1
  DEF KernelInv, StartRunnable, SwitchComing, KernelNotPreempted, kernelVars, switchVars
<1>6. SwitchTargetRunnable'
  BY <1>1 DEF KernelInv, TypeOK, SwitchTargetRunnable, switchVars
<1> QED BY <1>2, <1>3, <1>4, <1>5, <1>6 DEF KernelInv

\* A handler that only pends PendSV.
LEMMA PendKeeps ==
  ASSUME KernelInv, RequestSchedule,
         UNCHANGED <<threadVars, caller, flag, kernelVars, switchVars, primask, armed, rx>>
  PROVE  KernelInv'
<1>1. pendsv' = TRUE
  BY DEF RequestSchedule
<1> QED
  BY <1>1
  DEF KernelInv, TypeOK, KernelSlot, MaskedScan, ScanResult, HandlerRequested,
      StartRunnable, SwitchComing, KernelNotPreempted, PendingKeepsKernelRunnable,
      SwitchTargetRunnable, Pending, threadVars, kernelVars, switchVars

LEMMA SvcInv ==
  ASSUME KernelInv, SvcHandler
  PROVE  KernelInv'
<1>1. current \in Clients /\ mode = "thread" /\ ~primask
  BY DEF SvcHandler, InThread
<1>2. [state EXCEPT ![current] = "SVC_BLOCKED"] \in [Threads -> States]
  BY DEF KernelInv, TypeOK, States
<1>3. SYSCALL \in Softirqs /\ armed \in BOOLEAN /\ rx \in 0..MaxRx
  BY DEF SYSCALL, Softirqs, KernelInv, TypeOK
<1> QED BY <1>1, <1>2, <1>3, RaiseKeeps DEF SvcHandler

LEMMA KtimerInv ==
  ASSUME KernelInv, KtimerHandler
  PROVE  KernelInv'
<1>1. CASE armed' = FALSE /\ SoftirqSchedule(KTE, state)
  <2>1. /\ state \in [Threads -> States] /\ KTE \in Softirqs
        /\ caller \in Clients \cup {NULL} /\ rx \in 0..MaxRx
    BY DEF KernelInv, TypeOK, KTE, Softirqs
  <2>2. flag'[SYSCALL] => caller \in Clients
    BY <1>1 DEF KernelInv, TypeOK, HandlerRequested, SoftirqSchedule, KTE, SYSCALL, Softirqs
  <2>3. mode = "pendsv" => state[sel] = "RUNNABLE"
    BY DEF KernelInv, SwitchTargetRunnable
  <2>4. armed' \in BOOLEAN
    BY <1>1, Zenon
  <2> QED BY <1>1, <2>1, <2>2, <2>3, <2>4, RaiseKeeps DEF KtimerHandler
<1>2. CASE UNCHANGED <<armed, flag, state>>
  BY <1>2, PendKeeps DEF KtimerHandler, threadVars
<1> QED BY <1>1, <1>2 DEF KtimerHandler

LEMMA UartInv ==
  ASSUME KernelInv, UartIrqHandler
  PROVE  KernelInv'
<1>1. CASE rx < MaxRx /\ rx' = rx + 1 /\ SoftirqSchedule(KDB, state)
  <2>1. /\ state \in [Threads -> States] /\ KDB \in Softirqs
        /\ caller \in Clients \cup {NULL} /\ armed \in BOOLEAN
    BY DEF KernelInv, TypeOK, KDB, Softirqs
  <2>2. rx' \in 0..MaxRx
    BY <1>1, BoundsAssumption DEF KernelInv, TypeOK
  <2>3. flag'[SYSCALL] => caller \in Clients
    BY <1>1 DEF KernelInv, TypeOK, HandlerRequested, SoftirqSchedule, KDB, SYSCALL, Softirqs
  <2>4. mode = "pendsv" => state[sel] = "RUNNABLE"
    BY DEF KernelInv, SwitchTargetRunnable
  <2> QED BY <1>1, <2>1, <2>2, <2>3, <2>4, RaiseKeeps DEF UartIrqHandler
<1>2. CASE UNCHANGED <<rx, flag, state>>
  BY <1>2, PendKeeps DEF UartIrqHandler, threadVars
<1> QED BY <1>1, <1>2 DEF UartIrqHandler

\* schedule_select() returns a runnable thread, and the kernel thread
\* whenever that is runnable, since it is the first slot's.
LEMMA SelectRunnable ==
  ASSUME KernelInv, ScheduleSelect
  PROVE  /\ sel' \in Threads /\ state[sel'] = "RUNNABLE"
         /\ slots' \in [Slots -> Threads \cup {NULL}]
         /\ slots'[SSI_SOFTIRQ] = slots[SSI_SOFTIRQ]
         /\ state[KernelThr] = "RUNNABLE" => sel' = KernelThr
<1>1. PICK s \in Slots :
        /\ SlotReady(s)
        /\ \A r \in Slots : r < s => ~SlotReady(r)
        /\ IF slots[s] # NULL /\ state[slots[s]] = "RUNNABLE"
             THEN sel' = slots[s] /\ UNCHANGED slots
             ELSE \E u \in RunnableUsers :
                    sel' = u /\ slots' = [slots EXCEPT ![s] = u]
  BY DEF ScheduleSelect
<1>2. slots \in [Slots -> Threads \cup {NULL}] /\ slots[SSI_SOFTIRQ] = KernelThr
  BY DEF KernelInv, TypeOK, KernelSlot
<1>3. CASE slots[s] # NULL /\ state[slots[s]] = "RUNNABLE"
  <2>1. /\ sel' \in Threads /\ state[sel'] = "RUNNABLE" /\ slots' = slots
    BY <1>1, <1>2, <1>3
  <2>2. state[KernelThr] = "RUNNABLE" => s = SSI_SOFTIRQ
    <3> SUFFICES ASSUME state[KernelThr] = "RUNNABLE" PROVE s = SSI_SOFTIRQ
      OBVIOUS
    <3>1. SlotReady(SSI_SOFTIRQ)
      BY <1>2, DistinctThreads DEF SlotReady
    <3> QED BY <1>1, <3>1 DEF Slots, SSI_SOFTIRQ
  <2> QED BY <1>1, <1>2, <1>3, <2>1, <2>2
<1>4. CASE ~(slots[s] # NULL /\ state[slots[s]] = "RUNNABLE")
  <2>1. PICK u \in RunnableUsers : sel' = u /\ slots' = [slots EXCEPT ![s] = u]
    BY <1>1, <1>4
  <2>2. s = SSI_NORMAL_THREAD
    BY <1>1, <1>4 DEF SlotReady
  <2>3. state[KernelThr] # "RUNNABLE"
    <3> SUFFICES ASSUME state[KernelThr] = "RUNNABLE" PROVE FALSE
      OBVIOUS
    <3>1. SlotReady(SSI_SOFTIRQ)
      BY <1>2, DistinctThreads DEF SlotReady
    <3> QED BY <1>1, <2>2, <3>1 DEF Slots, SSI_SOFTIRQ, SSI_NORMAL_THREAD
  <2>4. u \in Threads /\ state[u] = "RUNNABLE"
    BY <2>1, DistinctThreads DEF RunnableUsers
  <2> QED
    BY <1>2, <2>1, <2>2, <2>3, <2>4 DEF Slots, SSI_SOFTIRQ, SSI_NORMAL_THREAD
<1> QED BY <1>3, <1>4

LEMMA PendSvSelectInv ==
  ASSUME KernelInv, PendSvSelect
  PROVE  KernelInv'
<1>1. /\ sel' \in Threads /\ state[sel'] = "RUNNABLE"
      /\ slots' \in [Slots -> Threads \cup {NULL}]
      /\ slots'[SSI_SOFTIRQ] = slots[SSI_SOFTIRQ]
      /\ state[KernelThr] = "RUNNABLE" => sel' = KernelThr
  BY SelectRunnable DEF PendSvSelect
<1>2. pendsv' \in BOOLEAN
  BY Zenon DEF PendSvSelect
<1>3. TypeOK' /\ KernelSlot' /\ SwitchTargetRunnable'
  BY <1>1, <1>2
  DEF PendSvSelect, KernelInv, TypeOK, KernelSlot, SwitchTargetRunnable, kernelVars
<1>4. MaskedScan' /\ ScanResult' /\ HandlerRequested' /\ PendingKeepsKernelRunnable'
  BY DEF PendSvSelect, KernelInv, MaskedScan, ScanResult, HandlerRequested,
         PendingKeepsKernelRunnable, Pending, kernelVars
<1>5. StartRunnable' /\ SwitchComing' /\ KernelNotPreempted'
  BY <1>1
  DEF PendSvSelect, KernelInv, StartRunnable, SwitchComing, KernelNotPreempted,
      PendingKeepsKernelRunnable, Pending, kernelVars
<1> QED BY <1>3, <1>4, <1>5 DEF KernelInv

LEMMA PendSvSwitchInv ==
  ASSUME KernelInv, PendSvSwitch
  PROVE  KernelInv'
<1>1. TypeOK' /\ KernelSlot'
  BY DEF PendSvSwitch, KernelInv, TypeOK, KernelSlot, threadVars, kernelVars
<1>2. MaskedScan' /\ ScanResult' /\ HandlerRequested'
  BY DEF PendSvSwitch, KernelInv, MaskedScan, ScanResult, HandlerRequested,
         Pending, threadVars, kernelVars
<1>3. StartRunnable' /\ SwitchComing' /\ KernelNotPreempted'
  BY DEF PendSvSwitch, KernelInv, StartRunnable, SwitchComing, KernelNotPreempted,
         SwitchTargetRunnable, Pending, threadVars, kernelVars
<1>4. PendingKeepsKernelRunnable' /\ SwitchTargetRunnable'
  BY DEF PendSvSwitch, KernelInv, PendingKeepsKernelRunnable, SwitchTargetRunnable,
         threadVars
<1> QED BY <1>1, <1>2, <1>3, <1>4 DEF KernelInv

\* Steps of softirq_execute() that leave the threads, the caller, PendSV, the
\* mask and the flags alone: only the control point moves.
LEMMA ControlStepInv ==
  ASSUME KernelInv, InThread(KernelThr), UNCHANGED switchVars,
         UNCHANGED <<threadVars, caller, flag, kany, pendsv, primask, armed, rx>>,
         KStart \/ KCheck
  PROVE  KernelInv'
<1>1. /\ current = KernelThr /\ mode = "thread" /\ state[KernelThr] = "RUNNABLE"
      /\ ~primask
  BY DEF InThread, KernelInv, MaskedScan, StartRunnable, KernelNotPreempted, KStart, KCheck
<1>2. ki' \in Softirqs /\ kpc' \in {"check", "run", "mask"} /\ (kpc' = "run" => flag[ki'])
  BY DEF KStart, KCheck, NextSoftirq, KernelInv, TypeOK, Softirqs, KDB
<1>3. TypeOK' /\ KernelSlot' /\ SwitchTargetRunnable'
  BY <1>1, <1>2
  DEF KernelInv, TypeOK, KernelSlot, SwitchTargetRunnable, KernelPcs, threadVars, switchVars
<1> QED
  BY <1>1, <1>2, <1>3
  DEF KernelInv, MaskedScan, ScanResult, HandlerRequested, StartRunnable, SwitchComing,
      KernelNotPreempted, PendingKeepsKernelRunnable, threadVars, switchVars

\* A softirq handler runs: it keeps what HandlerKeeps says, and the control
\* point stays at the call or moves behind it.
LEMMA HandlerStepInv ==
  ASSUME KernelInv, InThread(KernelThr), UNCHANGED switchVars, kpc = "run",
         UNCHANGED <<caller, flag, ki, kany, pendsv, primask>>,
         kpc' \in {"run", "clear"}, HandlerKeeps,
         armed' \in BOOLEAN, rx' \in 0..MaxRx
  PROVE  KernelInv'
<1>1. /\ current = KernelThr /\ mode = "thread" /\ state[KernelThr] = "RUNNABLE"
      /\ ~primask
  BY DEF InThread, KernelInv, MaskedScan, KernelNotPreempted
<1>2. TypeOK'
  BY DEF KernelInv, TypeOK, KernelPcs, HandlerKeeps, switchVars
<1> QED
  BY <1>1, <1>2
  DEF KernelInv, KernelSlot, MaskedScan, ScanResult, HandlerRequested, StartRunnable,
      SwitchComing, KernelNotPreempted, PendingKeepsKernelRunnable,
      SwitchTargetRunnable, HandlerKeeps, switchVars

LEMMA KRunInv ==
  ASSUME KernelInv, InThread(KernelThr), UNCHANGED switchVars,
         KRunTimerEvent \/ KRunTimerDone \/ KRunSyscall \/ KRunKdb
  PROVE  KernelInv'
<1>1. /\ TypeOK /\ armed \in BOOLEAN /\ rx \in 0..MaxRx
  BY DEF KernelInv, TypeOK
<1>2. UNCHANGED threadVars => HandlerKeeps
  BY <1>1 DEF threadVars, HandlerKeeps, TypeOK
<1>3. CASE KRunTimerEvent
  <2>1. armed' \in BOOLEAN
    <3>1. armed' = armed \/ armed' = TRUE BY <1>3 DEF KRunTimerEvent, MayArmTimer
    <3> QED BY <1>1, <3>1, Zenon
  <2> QED BY <1>1, <1>3, <2>1, TimerKeeps, HandlerStepInv DEF KRunTimerEvent, kernelVars
<1>4. CASE KRunTimerDone
  <2>1. armed' \in BOOLEAN
    BY <1>4, Zenon DEF KRunTimerDone
  <2> QED BY <1>1, <1>2, <1>4, <2>1, HandlerStepInv DEF KRunTimerDone
<1>5. CASE KRunSyscall
  <2>1. caller \in Clients
    BY <1>5 DEF KRunSyscall, KernelInv, HandlerRequested
  <2>2. HandlerKeeps
    BY <1>1, <1>5, <2>1, SyscallKeeps DEF KRunSyscall
  <2>3. armed' \in BOOLEAN
    BY <1>1, <1>5, SyscallArms DEF KRunSyscall
  <2> QED BY <1>1, <1>5, <2>2, <2>3, HandlerStepInv DEF KRunSyscall
<1>6. CASE KRunKdb
  <2>1. rx' \in 0..MaxRx
    BY <1>1, <1>6, BoundsAssumption DEF KRunKdb
  <2> QED BY <1>1, <1>2, <1>6, <2>1, HandlerStepInv DEF KRunKdb
<1> QED BY <1>3, <1>4, <1>5, <1>6

LEMMA KClearInv ==
  ASSUME KernelInv, InThread(KernelThr), UNCHANGED switchVars, KClear
  PROVE  KernelInv'
<1>1. /\ current = KernelThr /\ mode = "thread" /\ state[KernelThr] = "RUNNABLE"
      /\ ~primask
  BY DEF InThread, KernelInv, MaskedScan, KernelNotPreempted, KClear
<1>2. ki' \in Softirqs /\ kpc' \in {"check", "mask"}
  BY DEF KClear, NextSoftirq, KernelInv, TypeOK, Softirqs, KDB
<1>3. flag' \in [Softirqs -> BOOLEAN] /\ (flag'[SYSCALL] => flag[SYSCALL])
  BY DEF KClear, KernelInv, TypeOK, Softirqs, SYSCALL
<1>4. TypeOK'
  BY <1>2, <1>3 DEF KClear, KernelInv, TypeOK, KernelPcs, threadVars, switchVars
<1> QED
  BY <1>1, <1>2, <1>3, <1>4
  DEF KClear, KernelInv, KernelSlot, MaskedScan, ScanResult, HandlerRequested,
      StartRunnable, SwitchComing, KernelNotPreempted, PendingKeepsKernelRunnable,
      SwitchTargetRunnable, threadVars, switchVars

\* irq_disable(), the scan, the state and irq_enable().
LEMMA KMaskedInv ==
  ASSUME KernelInv, InThread(KernelThr), UNCHANGED switchVars,
         KMask \/ KScan \/ KSetState \/ KUnmask
  PROVE  KernelInv'
<1>1. current = KernelThr /\ mode = "thread" /\ current' = current /\ mode' = mode /\ sel' = sel
  BY DEF InThread, switchVars
<1>2. CASE KMask
  <2>1. primask' \in BOOLEAN /\ primask'
    BY <1>2, Zenon DEF KMask
  <2>2. TypeOK'
    BY <1>1, <1>2, <2>1 DEF KMask, KernelInv, TypeOK, KernelPcs, threadVars
  <2> QED
    BY <1>1, <1>2, <2>1, <2>2
    DEF KMask, KernelInv, KernelSlot, MaskedScan, ScanResult, HandlerRequested,
        StartRunnable, SwitchComing, KernelNotPreempted, PendingKeepsKernelRunnable,
        SwitchTargetRunnable, threadVars
<1>3. CASE KScan
  <2>1. kany' \in BOOLEAN /\ (kany' <=> Pending)
    BY <1>3, Zenon DEF KScan, Pending
  <2>2. Pending' <=> Pending
    BY <1>3 DEF KScan, Pending
  <2>3. TypeOK'
    BY <1>1, <1>3, <2>1 DEF KScan, KernelInv, TypeOK, KernelPcs, threadVars
  <2> QED
    BY <1>1, <1>3, <2>1, <2>2, <2>3
    DEF KScan, KernelInv, KernelSlot, MaskedScan, ScanResult, HandlerRequested,
        StartRunnable, SwitchComing, KernelNotPreempted, PendingKeepsKernelRunnable,
        SwitchTargetRunnable, threadVars
<1>4. CASE KSetState
  <2>1. /\ state' \in [Threads -> States]
        /\ state'[KernelThr] = IF kany THEN "RUNNABLE" ELSE "INACTIVE"
    BY <1>4, DistinctThreads DEF KSetState, KernelInv, TypeOK, States
  <2>2. (Pending' <=> Pending) /\ (kany <=> Pending) /\ kany' = kany
    BY <1>4 DEF KSetState, KernelInv, ScanResult, Pending
  <2>3. TypeOK'
    BY <1>1, <1>4, <2>1 DEF KSetState, KernelInv, TypeOK, KernelPcs
  <2>4. PendingKeepsKernelRunnable'
    BY <2>1, <2>2 DEF PendingKeepsKernelRunnable, Pending
  <2>5. MaskedScan' /\ ScanResult' /\ HandlerRequested'
    BY <1>1, <1>4, <2>1, <2>2
    DEF KSetState, KernelInv, MaskedScan, ScanResult, HandlerRequested
  <2> QED
    BY <1>1, <1>4, <2>1, <2>2, <2>3, <2>4, <2>5
    DEF KSetState, KernelInv, KernelSlot, StartRunnable, SwitchComing, KernelNotPreempted,
        SwitchTargetRunnable
<1>5. CASE KUnmask
  <2>1. primask' \in BOOLEAN /\ ~primask'
    BY <1>5, Zenon DEF KUnmask
  <2>2. (kpc' = "start" /\ state[KernelThr] = "RUNNABLE") \/ kpc' = "svc"
    BY <1>5 DEF KUnmask, KernelInv, ScanResult
  <2>3. TypeOK'
    BY <1>1, <1>5, <2>1, <2>2 DEF KUnmask, KernelInv, TypeOK, KernelPcs, threadVars
  <2> QED
    BY <1>1, <1>5, <2>1, <2>2, <2>3
    DEF KUnmask, KernelInv, KernelSlot, MaskedScan, ScanResult, HandlerRequested,
        StartRunnable, SwitchComing, KernelNotPreempted, PendingKeepsKernelRunnable,
        SwitchTargetRunnable, threadVars
<1> QED BY <1>2, <1>3, <1>4, <1>5

LEMMA KSvcInv ==
  ASSUME KernelInv, InThread(KernelThr), UNCHANGED switchVars, KSvc
  PROVE  KernelInv'
<1>1. current = KernelThr /\ mode = "thread" /\ pendsv' = TRUE /\ ~primask
  BY DEF InThread, KSvc, RequestSchedule, KernelInv, MaskedScan
<1>2. TypeOK'
  BY <1>1 DEF KSvc, KernelInv, TypeOK, KernelPcs, threadVars, switchVars
<1> QED
  BY <1>1, <1>2
  DEF KSvc, KernelInv, KernelSlot, MaskedScan, ScanResult, HandlerRequested,
      StartRunnable, SwitchComing, KernelNotPreempted, PendingKeepsKernelRunnable,
      SwitchTargetRunnable, threadVars, switchVars

LEMMA StepInv == KernelInv /\ [Next]_vars => KernelInv'
<1> SUFFICES ASSUME KernelInv, [Next]_vars PROVE KernelInv' OBVIOUS
<1>1. CASE SvcHandler BY <1>1, SvcInv
<1>2. CASE KtimerHandler BY <1>2, KtimerInv
<1>3. CASE UartIrqHandler BY <1>3, UartInv
<1>4. CASE PendSvSelect BY <1>4, PendSvSelectInv
<1>5. CASE PendSvSwitch BY <1>5, PendSvSwitchInv
<1>6. CASE KernelThread
  <2> USE <1>6 DEF KernelThread
  <2>1. CASE KStart \/ KCheck BY <2>1, ControlStepInv DEF KStart, KCheck
  <2>2. CASE KRunTimerEvent \/ KRunTimerDone \/ KRunSyscall \/ KRunKdb BY <2>2, KRunInv
  <2>3. CASE KClear BY <2>3, KClearInv
  <2>4. CASE KMask \/ KScan \/ KSetState \/ KUnmask BY <2>4, KMaskedInv
  <2>5. CASE KSvc BY <2>5, KSvcInv
  <2> QED BY <2>1, <2>2, <2>3, <2>4, <2>5
<1>7. CASE UNCHANGED vars
  <2>1. TypeOK' BY <1>7 DEF vars, KernelInv, TypeOK
  <2>2. /\ MaskedScan' /\ ScanResult' /\ PendingKeepsKernelRunnable' /\ HandlerRequested'
    BY <1>7 DEF vars, KernelInv, MaskedScan, ScanResult, PendingKeepsKernelRunnable,
                HandlerRequested, Pending
  <2>3. KernelSlot' /\ StartRunnable' /\ KernelNotPreempted'
    BY <1>7 DEF vars, KernelInv, KernelSlot, StartRunnable, KernelNotPreempted
  <2>4. SwitchComing' /\ SwitchTargetRunnable'
    BY <1>7 DEF vars, KernelInv, SwitchComing, SwitchTargetRunnable, Pending
  <2> QED BY <2>1, <2>2, <2>3, <2>4 DEF KernelInv
<1> QED BY <1>1, <1>2, <1>3, <1>4, <1>5, <1>6, <1>7 DEF Next

-----------------------------------------------------------------------------
(* The theorems.                                                           *)

\* The inductive invariant holds throughout.
THEOREM KernelInvariant == Spec => []KernelInv
  BY InitInv, StepInv, PTL DEF Spec

\* The variables of the core keep their types.
THEOREM TypeCorrect == Spec => []TypeOK
<1>1. KernelInv => TypeOK BY DEF KernelInv
<1> QED BY <1>1, KernelInvariant, PTL

\* softirq_execute() keeps the CPU until it has nothing left to do.
THEOREM KernelNeverPreempted == Spec => []KernelNotPreempted
<1>1. KernelInv => KernelNotPreempted BY DEF KernelInv
<1> QED BY <1>1, KernelInvariant, PTL

\* The state softirq_execute() stores never hides a raised softirq.
THEOREM NoHiddenSoftirq == Spec => []PendingKeepsKernelRunnable
<1>1. KernelInv => PendingKeepsKernelRunnable BY DEF KernelInv
<1> QED BY <1>1, KernelInvariant, PTL

\* The first of thread_switch()'s callers, schedule_in_irq(), always meets
\* the assertion that the target is runnable.
THEOREM SwitchAssertion == Spec => []SwitchTargetRunnable
<1>1. KernelInv => SwitchTargetRunnable BY DEF KernelInv
<1> QED BY <1>1, KernelInvariant, PTL

\* No thread executes an instruction between a softirq being raised and its
\* handler.
THEOREM SoftirqsFirst == Spec => []SoftirqBeforeThreads
<1>1. KernelInv => SoftirqBeforeThreads
  BY DEF KernelInv, SoftirqBeforeThreads, SwitchComing, MaskedScan, InThread, Pending
<1> QED BY <1>1, KernelInvariant, PTL

\* __svc_handler() never overwrites the caller of a system call in service.
THEOREM CallerKept == Spec => CallerNotOverwritten
<1>1. KernelInv /\ [Next]_vars => [caller' # caller => ~flag[SYSCALL]]_vars
  <2> SUFFICES ASSUME KernelInv, Next, caller' # caller PROVE ~flag[SYSCALL]
    BY DEF vars
  <2>1. SvcHandler
    BY DEF Next, KtimerHandler, UartIrqHandler, PendSvSelect, PendSvSwitch, KernelThread,
           KStart, KCheck, KClear, KRunTimerEvent, KRunTimerDone, KRunSyscall, KRunKdb,
           KMask, KScan, KSetState, KUnmask, KSvc
  <2>2. PICK t \in Clients : InThread(t) /\ ~primask
    BY <2>1 DEF SvcHandler
  <2>3. SYSCALL \in Softirqs /\ t # KernelThr
    BY DistinctThreads DEF SYSCALL, Softirqs
  <2> QED
    BY <2>2, <2>3 DEF KernelInv, SwitchComing, InThread, Pending
<1> QED BY <1>1, KernelInvariant, PTL DEF Spec, CallerNotOverwritten

-----------------------------------------------------------------------------
(* The tickless clock                                                      *)

\* What the provers need to know of division.
LEMMA DivMod ==
  ASSUME NEW d \in Nat, d > 0, NEW n \in Nat
  PROVE  n \div d \in Nat /\ n % d \in 0 .. d - 1 /\ n = d * (n \div d) + (n % d)
  OBVIOUS

LEMMA DivUnique ==
  ASSUME NEW d \in Nat, d > 0, NEW q \in Int, NEW r \in 0 .. d - 1
  PROVE  (d * q + r) % d = r
  OBVIOUS

LEMMA ModSmall == ASSUME NEW d \in Nat, NEW r \in 0 .. d - 1 PROVE r % d = r
  OBVIOUS

\* The shortest and the longest time to restart the counter.
LEMMA GapFacts ==
  /\ Min(Gaps) \in Nat /\ Max(Gaps) \in Nat
  /\ \A gap \in Gaps : /\ gap \in Nat /\ Min(Gaps) <= gap /\ gap <= Max(Gaps)
                       /\ gap + 1 < Heartbeat
  <1>1. /\ Gaps \in SUBSET Nat /\ Gaps # {} /\ \A gap \in Gaps : gap + 1 < Heartbeat
        /\ Heartbeat \in Nat
    BY TicklessAssumption
  <1>2. \A gap \in Gaps : gap <= Heartbeat BY <1>1
  <1>3. \E m \in Gaps : \A gap \in Gaps : m <= gap BY <1>1, LeastNumber
  <1>4. Min(Gaps) \in Gaps /\ \A gap \in Gaps : Min(Gaps) <= gap BY <1>3, Zenon DEF Min
  <1>5. \E m \in Gaps : \A gap \in Gaps : gap <= m BY <1>1, <1>2, GreatestNumber
  <1>6. \E m \in Gaps : \A gap \in Gaps : m >= gap BY <1>1, <1>5
  <1>7. Max(Gaps) \in Gaps /\ \A gap \in Gaps : Max(Gaps) >= gap BY <1>6, Zenon DEF Max
  <1> QED BY <1>1, <1>4, <1>7

\* The counter, always programmed to go on with whole ticks.
SysTick == [val : Nat, reload : {Heartbeat - 1}, flag : BOOLEAN, pend : BOOLEAN]

Ticking ==
  /\ cpu \in {"run", "idle"} /\ on \in BOOLEAN
  /\ hw \in SysTick
  /\ know \in Int /\ real \in Int /\ lost \in Int /\ delta \in Int
  /\ on => delta \in 1 .. Word - 1

\* The ticks that are not counted when the counter is at 0 next: that one, and one
\* that is pending and is not the expiry the counter has just come to.
Due == IF hw.pend /\ hw.val # 0 THEN 2 ELSE 1

\* Between the ticks: the counter is at 0 only from its expiry to the next cycle.
RunInv ==
  /\ hw.val < Heartbeat
  /\ hw.val = 0 => hw.pend
  /\ real = (know + Due) * Heartbeat - hw.val + lost

\* Idle for ticklessDelta ticks beyond the one that had begun.
IdleInv ==
  /\ ticklessDelta \in 0 .. MaxReload /\ (on => ticklessDelta < delta)
  /\ hw.val < Heartbeat * (ticklessDelta + 1)
  /\ hw.val = 0 => hw.pend
  /\ hw.flag => hw.val < Heartbeat
  /\ real = (know + ticklessDelta + Due) * Heartbeat - hw.val + lost

ClockInv == Ticking /\ (cpu = "run" => RunInv) /\ (cpu = "idle" => IdleInv)

\* A cycle: the counter and the real time move together, through an expiry too.
LEMMA ElapseStep ==
  ASSUME ClockInv, Elapse
  PROVE  ClockInv'
  <1>1. /\ Heartbeat \in Nat /\ Heartbeat > 2 BY TicklessAssumption
  <1>2. /\ Ticking /\ hw.val \in Nat /\ hw.reload = Heartbeat - 1 /\ hw.pend \in BOOLEAN
        /\ hw.flag \in BOOLEAN /\ know \in Int /\ real \in Int /\ lost \in Int
    BY DEF ClockInv, Ticking, SysTick
  <1>3. /\ hw' = Cycle(hw) /\ real' = real + 1 /\ (hw.pend => cpu = "run" /\ hw.val = 0)
        /\ UNCHANGED <<know, on, delta, cpu, ticklessDelta, lost>>
    BY DEF Elapse
  <1>4. CASE hw.val = 0
    <2>1. hw' = [hw EXCEPT !.val = hw.reload] BY <1>3, <1>4 DEF Cycle
    <2>2. /\ hw'.val = Heartbeat - 1 /\ hw'.pend = hw.pend /\ hw'.flag = hw.flag
          /\ hw' \in SysTick
      BY <1>1, <1>2, <2>1 DEF Ticking, SysTick
    <2>3. cpu = "run" /\ hw.pend BY <1>2, <1>3, <1>4 DEF ClockInv, Ticking, RunInv, IdleInv
    <2>4. RunInv BY <2>3 DEF ClockInv
    <2>5. RunInv' BY <1>1, <1>2, <1>3, <1>4, <2>2, <2>3, <2>4 DEF RunInv, Due
    <2>6. Ticking' BY <1>2, <1>3, <2>2 DEF Ticking
    <2> QED BY <1>3, <2>3, <2>5, <2>6 DEF ClockInv
  <1>5. CASE hw.val # 0
    <2>1. hw' = [hw EXCEPT !.val = @ - 1, !.flag = @ \/ hw.val = 1, !.pend = @ \/ hw.val = 1]
      BY <1>3, <1>5 DEF Cycle
    <2>2. /\ hw' \in SysTick /\ hw'.val = hw.val - 1 /\ (hw'.flag <=> hw.flag \/ hw.val = 1)
          /\ (hw'.pend <=> hw.pend \/ hw.val = 1)
      <3> DEFINE v == hw.val - 1
                 f == hw.flag \/ hw.val = 1
                 q == hw.pend \/ hw.val = 1
      <3>1. v \in Nat /\ f \in BOOLEAN /\ q \in BOOLEAN BY <1>2, <1>5
      <3>2. hw' = [hw EXCEPT !.val = v, !.flag = f, !.pend = q] /\ hw \in SysTick
        BY <1>2, <2>1 DEF Ticking
      <3> HIDE DEF v, f, q
      <3>3. hw' \in SysTick /\ hw'.val = v /\ (hw'.flag <=> f) /\ (hw'.pend <=> q)
        BY <3>1, <3>2 DEF SysTick
      <3> QED BY <3>3 DEF v, f, q
    <2>3. ~hw.pend BY <1>3, <1>5
    <2>4. Ticking' BY <1>2, <1>3, <2>2 DEF Ticking
    <2>7. Due = 1 /\ Due' = 1 BY <1>2, <2>2, <2>3 DEF Due
    <2>5. CASE cpu = "run"
      <3>1. RunInv BY <2>5 DEF ClockInv
      <3>2. RunInv' BY <1>1, <1>2, <1>3, <1>5, <2>2, <2>3, <2>7, <3>1 DEF RunInv
      <3> QED BY <1>3, <2>4, <2>5, <3>2 DEF ClockInv
    <2>6. CASE cpu = "idle"
      <3>1. IdleInv BY <2>6 DEF ClockInv
      <3>2. IdleInv'
        <4>1. ticklessDelta \in Nat /\ Heartbeat * (ticklessDelta + 1) \in Nat
          BY <1>1, <3>1, TicklessAssumption DEF IdleInv
        <4>2. hw'.flag => hw'.val < Heartbeat BY <1>1, <1>2, <2>2, <3>1 DEF IdleInv
        <4>3. hw'.val < Heartbeat * (ticklessDelta + 1) BY <1>2, <2>2, <3>1, <4>1 DEF IdleInv
        <4>4. hw'.val = 0 => hw'.pend BY <1>2, <2>2, <2>3
        <4>5. real' = (know + ticklessDelta + 1) * Heartbeat - hw'.val + lost
          BY <1>1, <1>2, <1>3, <2>2, <2>7, <3>1, <4>1 DEF IdleInv
        <4> QED BY <1>3, <2>7, <3>1, <4>2, <4>3, <4>4, <4>5 DEF IdleInv
      <3> QED BY <1>3, <2>4, <2>6, <3>2 DEF ClockInv
    <2> QED BY <1>2, <2>5, <2>6 DEF Ticking
  <1> QED BY <1>4, <1>5

\* The tick handler moves a tick from the pending interrupt to the count.
LEMMA HandlerStep ==
  ASSUME ClockInv, __ktimer_handler
  PROVE  ClockInv'
  <1>1. /\ Heartbeat \in Nat /\ Heartbeat > 2 BY TicklessAssumption
  <1>2. /\ Ticking /\ RunInv /\ hw.val \in Nat /\ hw.pend /\ hw.val > 0 /\ cpu = "run"
        /\ know \in Int /\ real \in Int /\ lost \in Int
    BY DEF ClockInv, Ticking, SysTick, __ktimer_handler
  <1>3. /\ hw' = [hw EXCEPT !.pend = FALSE] /\ know' = know + 1
        /\ UNCHANGED <<cpu, ticklessDelta, real, lost>>
    BY DEF __ktimer_handler
  <1>4. hw' \in SysTick /\ hw'.val = hw.val /\ ~hw'.pend
    BY <1>2, <1>3 DEF Ticking, SysTick
  <1>5. RunInv' BY <1>1, <1>2, <1>3, <1>4 DEF RunInv, Due
  <1>6. on' \in BOOLEAN /\ delta' \in Int /\ (on' => delta' \in 1 .. Word - 1)
    <2>1. CASE on /\ delta > 0
      <3>1. delta' = delta - 1 /\ on' = (delta # 1) /\ delta \in 1 .. Word - 1
        BY <1>2, <2>1 DEF __ktimer_handler, Ticking
      <3>2. on' \in BOOLEAN /\ (on' => delta # 1) BY <3>1, Zenon
      <3> QED BY <3>1, <3>2, TicklessAssumption
    <2>2. CASE ~(on /\ delta > 0) BY <1>2, <2>2 DEF __ktimer_handler, Ticking
    <2> QED BY <2>1, <2>2
  <1>7. Ticking' BY <1>2, <1>3, <1>4, <1>6 DEF Ticking
  <1> QED BY <1>2, <1>3, <1>5, <1>7 DEF ClockInv

\* Entering: the reload is in the counter's range, and what it does not account for is
\* what was lost.
LEMMA EnterStep ==
  ASSUME ClockInv, NEW gap \in Gaps, EnterTickless(gap), ~slip'
  PROVE  ClockInv'
  <1>1. /\ Heartbeat \in Nat /\ Heartbeat > 2 /\ Heartbeat <= MaxReload /\ MaxReload \in Nat
        /\ Word \in Nat /\ MaxReload < Word /\ Comp \in Nat /\ Comp + 2 < Heartbeat
    BY TicklessAssumption
  <1>2. /\ Ticking /\ RunInv /\ cpu = "run" /\ hw.val \in Nat /\ hw.pend \in BOOLEAN
        /\ hw.flag \in BOOLEAN /\ hw \in SysTick /\ hw.reload = Heartbeat - 1
        /\ know \in Int /\ real \in Int /\ lost \in Int /\ on \in BOOLEAN /\ delta \in Int
        /\ (hw.pend => hw.val \in {0, Heartbeat - 1})
    BY DEF ClockInv, Ticking, SysTick, EnterTickless
  <1>3. gap \in Nat /\ gap + 1 < Heartbeat BY GapFacts
  <1> DEFINE ticks == (IF on /\ delta <= KTIMER_MAXTICKS THEN delta ELSE KTIMER_MAXTICKS) - 1
             td == ticks % Word
             reload == (Heartbeat * td + hw.val - Comp) % Word
             c == Cycles(hw, gap)
  <1>4. /\ ticklessDelta' = td /\ cpu' = "idle" /\ UNCHANGED <<know, on, delta>>
        /\ reload > 2 => /\ hw' = init_systick(c, reload)
                         /\ lost' = lost + gap - Comp /\ real' = real + gap + 1
        /\ ~(reload > 2) => hw' = c /\ real' = real + gap /\ lost' = lost
        /\ ~EnterSlips(td, reload, gap)
    BY DEF EnterTickless
  <1>5. KTIMER_MAXTICKS \in Nat /\ KTIMER_MAXTICKS >= 1 /\ Heartbeat * KTIMER_MAXTICKS <= MaxReload
    <2>1. /\ KTIMER_MAXTICKS \in Nat /\ MaxReload % Heartbeat \in 0 .. Heartbeat - 1
          /\ MaxReload = Heartbeat * KTIMER_MAXTICKS + (MaxReload % Heartbeat)
      BY <1>1, DivMod DEF KTIMER_MAXTICKS
    <2>2. KTIMER_MAXTICKS # 0 BY <1>1, <2>1
    <2> QED BY <1>1, <2>1, <2>2
  <1>6. td \in Nat /\ td <= KTIMER_MAXTICKS - 1 /\ (on => td < delta)
    <2>1. ticks \in Nat /\ ticks <= KTIMER_MAXTICKS - 1 /\ (on => ticks < delta)
      BY <1>2, <1>5 DEF Ticking
    <2>2. KTIMER_MAXTICKS <= MaxReload
      <3>1. KTIMER_MAXTICKS <= Heartbeat * KTIMER_MAXTICKS BY <1>1, <1>5
      <3>2. Heartbeat * KTIMER_MAXTICKS \in Nat BY <1>1, <1>5
      <3> QED BY <1>1, <1>5, <3>1, <3>2
    <2> HIDE DEF ticks
    <2>3. ticks \in 0 .. Word - 1 BY <1>1, <1>5, <2>1, <2>2
    <2>4. ticks % Word = ticks BY <1>1, <2>3, ModSmall
    <2> QED BY <2>1, <2>4
  <1> HIDE DEF ticks, td
  <1>7. Heartbeat * td \in Nat /\ Heartbeat * td + Heartbeat <= MaxReload /\ td <= MaxReload
    <2>1. Heartbeat * (td + 1) <= Heartbeat * KTIMER_MAXTICKS BY <1>1, <1>5, <1>6
    <2> QED BY <1>1, <1>5, <1>6, <2>1
  <1>8. /\ hw.val < Heartbeat /\ (hw.val = 0 => hw.pend)
        /\ real = (know + Due) * Heartbeat - hw.val + lost
    BY <1>2 DEF RunInv
  <1>13. Heartbeat * td + hw.val >= Comp /\ (reload > 2 => hw.val > gap)
    <2> HIDE DEF reload
    <2> QED BY <1>1, <1>2, <1>3, <1>4, <1>7 DEF EnterSlips
  <1>9. reload = Heartbeat * td + hw.val - Comp /\ reload \in Nat
    <2>1. Heartbeat * td + hw.val - Comp \in 0 .. Word - 1 BY <1>1, <1>2, <1>7, <1>8, <1>13
    <2> QED BY <1>1, <2>1, ModSmall
  <1> HIDE DEF reload
  <1> DEFINE over == gap - hw.val
             crossed == hw.val > 0 /\ over >= 0
  <1>10. c = [hw EXCEPT !.val = IF over <= 0 THEN -over ELSE hw.reload - over + 1,
                        !.flag = @ \/ crossed, !.pend = @ \/ crossed]
    BY DEF Cycles
  <1> HIDE DEF c
  <1>11. CASE reload > 2
    <2> DEFINE v == (reload - 1) % (MaxReload + 1)
    <2>9. hw.val > gap BY <1>11, <1>13
    <2>10. c \in SysTick /\ (c.pend <=> hw.pend)
      <3>1. -over \in Nat /\ over <= 0 /\ ~crossed BY <1>2, <1>3, <2>9
      <3> HIDE DEF over, crossed
      <3>2. c = [hw EXCEPT !.val = -over, !.flag = hw.flag, !.pend = hw.pend]
        BY <1>2, <1>10, <3>1
      <3> QED BY <1>2, <3>1, <3>2 DEF SysTick
    <2>1. hw' = [c EXCEPT !.val = v, !.reload = Heartbeat - 1, !.flag = FALSE]
      BY <1>4, <1>11 DEF init_systick
    <2>2. v = reload - 1
      <3>1. reload - 1 \in 0 .. (MaxReload + 1) - 1 BY <1>1, <1>2, <1>7, <1>8, <1>9, <1>11
      <3> QED BY <1>1, <3>1, ModSmall
    <2> HIDE DEF v, over, crossed
    <2>3. v \in Nat /\ v > 0 BY <1>9, <1>11, <2>2
    <2>4. hw' \in SysTick /\ hw'.val = v /\ ~hw'.flag /\ (hw'.pend <=> hw.pend)
      BY <2>10, <2>1, <2>3 DEF SysTick
    <2>11. Due' = Due /\ Due \in Int BY <1>2, <1>3, <2>3, <2>4, <2>9 DEF Due
    <2>5. real' = (know + td + Due) * Heartbeat - v + lost'
      <3>1. (know + td + Due) * Heartbeat = (know + Due) * Heartbeat + Heartbeat * td
        BY <1>1, <1>2, <1>6, <2>11
      <3>2. (know + Due) * Heartbeat \in Int BY <1>1, <1>2, <2>11
      <3>3. v = Heartbeat * td + hw.val - Comp - 1 BY <1>1, <1>2, <1>7, <1>9, <2>2
      <3>4. real' = real + gap + 1 /\ lost' = lost + gap - Comp BY <1>4, <1>11
      <3> DEFINE a == (know + Due) * Heartbeat
                 b == Heartbeat * td
      <3>5. (know + td + Due) * Heartbeat = a + b /\ real = a - hw.val + lost BY <1>8, <3>1
      <3>6. v = b + hw.val - Comp - 1 /\ a \in Int /\ b \in Int BY <1>7, <3>2, <3>3
      <3> HIDE DEF a, b
      <3>7. real' = (a + b) - v + lost'
        BY <1>1, <1>2, <1>3, <3>4, <3>5, <3>6
      <3> QED BY <3>5, <3>7
    <2>6. hw'.val < Heartbeat * (td + 1) BY <1>1, <1>2, <1>6, <1>7, <1>8, <1>9, <2>2, <2>4
    <2>7. IdleInv' BY <1>4, <1>1, <1>6, <1>7, <2>3, <2>4, <2>5, <2>6, <2>11 DEF IdleInv
    <2>8. Ticking' BY <1>2, <1>3, <1>1, <1>4, <1>11, <2>4 DEF Ticking
    <2> QED BY <1>4, <2>7, <2>8 DEF ClockInv
  <1>12. CASE ~(reload > 2)
    <2>1. td = 0
      <3> SUFFICES ASSUME td >= 1 PROVE FALSE BY <1>6
      <3>1. Heartbeat * td >= Heartbeat BY <1>1, <1>6
      <3> QED BY <1>1, <1>2, <1>7, <1>9, <1>12, <3>1
    <2>2. hw' = c /\ real' = real + gap /\ lost' = lost BY <1>4, <1>12
    <2> DEFINE v == IF over <= 0 THEN -over ELSE hw.reload - over + 1
    <2>3. v \in Nat /\ v < Heartbeat BY <1>1, <1>2, <1>3, <1>8
    <2>4. /\ hw' \in SysTick /\ hw'.val = v /\ (hw'.pend <=> hw.pend \/ crossed)
      <3> DEFINE f == hw.flag \/ crossed
                 q == hw.pend \/ crossed
      <3>1. f \in BOOLEAN /\ q \in BOOLEAN BY <1>2
      <3>2. hw' = [hw EXCEPT !.val = v, !.flag = f, !.pend = q] BY <1>2, <1>10, <2>2
      <3> HIDE DEF v, f, q
      <3>3. hw' \in SysTick /\ hw'.val = v /\ (hw'.pend <=> q) BY <1>2, <2>3, <3>1, <3>2 DEF SysTick
      <3> QED BY <3>3 DEF q
    <2>5. (hw'.val = 0 => hw'.pend) /\ real' = (know + Due') * Heartbeat - hw'.val + lost'
      <3>1. CASE hw.val > gap
        <4>1. v = hw.val - gap /\ v # 0 /\ ~crossed BY <1>2, <1>3, <3>1
        <4>2. Due' = Due /\ Due \in Int BY <1>2, <1>3, <2>4, <3>1, <4>1 DEF Due
        <4>3. (know + Due) * Heartbeat \in Int BY <1>1, <1>2, <4>2
        <4> HIDE DEF v, crossed, over
        <4> QED BY <1>2, <1>3, <1>8, <2>2, <2>4, <4>1, <4>2, <4>3
      <3>2. CASE hw.val <= gap /\ hw.val = 0
        <4>1. hw.pend /\ Due = 1 BY <1>8, <3>2 DEF Due
        <4>2. CASE gap = 0
          <5>1. v = 0
            <6>1. over = 0 BY <3>2, <4>2
            <6> QED BY <6>1
          <5>2. Due' = 1 /\ hw'.pend BY <2>4, <4>1, <5>1 DEF Due
          <5> QED BY <1>1, <1>2, <1>8, <2>2, <2>4, <3>2, <4>1, <4>2, <5>1, <5>2
        <4>3. CASE gap > 0
          <5>1. v = Heartbeat - gap /\ v # 0 BY <1>1, <1>2, <1>3, <3>2, <4>3
          <5>2. Due' = 2 /\ hw'.pend BY <2>4, <4>1, <5>1 DEF Due
          <5> QED BY <1>1, <1>2, <1>3, <1>8, <2>2, <2>4, <3>2, <4>1, <5>1, <5>2
        <4> QED BY <1>3, <4>2, <4>3
      <3>3. CASE hw.val <= gap /\ hw.val # 0
        <4>1. ~hw.pend /\ Due = 1 /\ crossed BY <1>1, <1>2, <1>3, <3>3 DEF Due
        <4>2. CASE gap = hw.val
          <5>1. v = 0 BY <1>1, <1>2, <1>3, <4>2
          <5>2. Due' = 1 /\ hw'.pend BY <2>4, <4>1, <5>1 DEF Due
          <5> QED BY <1>1, <1>2, <1>3, <1>8, <2>2, <2>4, <4>1, <4>2, <5>1, <5>2
        <4>3. CASE gap > hw.val
          <5>1. v = Heartbeat - (gap - hw.val) /\ v # 0 BY <1>1, <1>2, <1>3, <4>3
          <5>2. Due' = 2 /\ hw'.pend BY <2>4, <4>1, <5>1 DEF Due
          <5> QED BY <1>1, <1>2, <1>3, <1>8, <2>2, <2>4, <4>1, <5>1, <5>2
        <4> QED BY <1>2, <1>3, <3>3, <4>2, <4>3
      <3> QED BY <1>2, <1>3, <3>1, <3>2, <3>3
    <2> HIDE DEF v, crossed, over
    <2>6. IdleInv'
      <3>1. know' + ticklessDelta' + Due' = know + Due'
        <4>1. Due' \in Int BY DEF Due
        <4> QED BY <1>2, <1>4, <2>1, <4>1
      <3>2. ticklessDelta' = 0 /\ (on' => 0 < delta') BY <1>4, <1>6, <2>1
      <3>3. hw'.val < Heartbeat * (ticklessDelta' + 1) /\ hw'.val < Heartbeat
        BY <1>1, <2>3, <2>4, <3>2
      <3> QED BY <1>1, <2>5, <3>1, <3>2, <3>3 DEF IdleInv
    <2>7. Ticking' BY <1>2, <1>3, <1>1, <1>4, <2>2, <2>4 DEF Ticking
    <2> QED BY <1>4, <2>6, <2>7 DEF ClockInv
  <1> QED BY <1>11, <1>12

\* Leaving: early, the whole ticks still to go are taken off and the counter restarts
\* within the tick; otherwise the wait has taken all of its ticks.
LEMMA LeaveStep ==
  ASSUME ClockInv, NEW gap \in Gaps, LeaveTickless(gap), ~slip'
  PROVE  ClockInv'
  <1>1. /\ Heartbeat \in Nat /\ Heartbeat > 2 /\ Heartbeat <= MaxReload /\ MaxReload \in Nat
        /\ Word \in Nat /\ MaxReload < Word /\ IntComp \in Nat
    BY TicklessAssumption
  <1>2. /\ Ticking /\ IdleInv /\ cpu = "idle" /\ hw.val \in Nat /\ hw.pend \in BOOLEAN
        /\ hw.flag \in BOOLEAN /\ hw \in SysTick
        /\ know \in Int /\ real \in Int /\ lost \in Int /\ on \in BOOLEAN /\ delta \in Int
    BY DEF ClockInv, Ticking, SysTick, LeaveTickless
  <1>3. gap \in Nat /\ gap + 1 < Heartbeat BY GapFacts
  <1> DEFINE rest == hw.val \div Heartbeat
             phase == hw.val % Heartbeat
             early == ~hw.flag /\ rest > 0
             again == Cycles(hw, gap)
             reload == ((again.val % Heartbeat) - IntComp) % Word
             td == IF early THEN (ticklessDelta - rest) % Word ELSE ticklessDelta
  <1>4. /\ cpu' = "run" /\ on' = on /\ know' = know + td /\ delta' = (delta - td) % Word
        /\ early => /\ hw' = init_systick(Cycles(again, gap), reload)
                    /\ lost' = lost + gap - IntComp /\ real' = real + 2 * gap + 1
        /\ ~early => hw' = [hw EXCEPT !.flag = FALSE] /\ lost' = lost /\ real' = real
        /\ early => ~WakeSlips(rest, again.val)
    BY DEF LeaveTickless
  <1>5. rest \in Nat /\ phase \in 0 .. Heartbeat - 1 /\ hw.val = Heartbeat * rest + phase
    <2>1. Heartbeat > 0 BY <1>1
    <2> QED BY <1>1, <1>2, <2>1, DivMod
  <1> HIDE DEF phase, rest
  <1>6. /\ ticklessDelta \in Nat /\ ticklessDelta <= MaxReload /\ (on => ticklessDelta < delta)
        /\ hw.val < Heartbeat * (ticklessDelta + 1)
        /\ hw.val = 0 => hw.pend
        /\ hw.flag => hw.val < Heartbeat
        /\ real = (know + ticklessDelta + Due) * Heartbeat - hw.val + lost
    BY <1>1, <1>2 DEF IdleInv
  <1>7. rest <= ticklessDelta
    <2>1. Heartbeat * rest < Heartbeat * (ticklessDelta + 1) BY <1>1, <1>5, <1>6
    <2> QED BY <1>1, <1>5, <1>6, <2>1
  <1>8. (early => td = ticklessDelta - rest) /\ td \in Nat /\ td <= ticklessDelta
    <2>1. ticklessDelta - rest \in 0 .. Word - 1 BY <1>1, <1>5, <1>6, <1>7
    <2>2. (ticklessDelta - rest) % Word = ticklessDelta - rest BY <1>1, <2>1, ModSmall
    <2> QED BY <1>5, <1>6, <1>7, <2>2
  <1>9. ~early => td = ticklessDelta /\ hw.val < Heartbeat
    <2>1. rest = 0 => hw.val < Heartbeat BY <1>1, <1>5
    <2> QED BY <1>2, <1>5, <1>6, <2>1
  <1> HIDE DEF td, early
  <1>11. delta' \in Int /\ (on' => delta' \in 1 .. Word - 1)
    <2>1. (delta - td) % Word \in 0 .. Word - 1 BY <1>1, <1>2, <1>8
    <2>2. ASSUME on PROVE delta' \in 1 .. Word - 1
      <3>0. delta \in 1 .. Word - 1 BY <1>2, <2>2 DEF Ticking
      <3>1. delta - td \in 1 .. Word - 1 BY <1>1, <1>2, <1>6, <1>8, <2>2, <3>0
      <3>2. (delta - td) % Word = delta - td BY <1>1, <3>1, ModSmall
      <3> QED BY <1>4, <3>1, <3>2
    <2> QED BY <1>4, <2>1, <2>2
  <1>12. CASE early
    <2> DEFINE v == (reload - 1) % (MaxReload + 1)
               c == Cycles(again, gap)
    <2>1. rest > 0 /\ hw.val > gap /\ hw.val - gap \in Nat
      <3>1. rest > 0 BY <1>12 DEF early
      <3>2. Heartbeat * rest >= Heartbeat BY <1>1, <1>5, <3>1
      <3> QED BY <1>1, <1>3, <1>5, <3>1, <3>2
    <2>2. again.val = hw.val - gap /\ (again.pend <=> hw.pend) /\ again \in SysTick
      <3> DEFINE over == gap - hw.val
      <3>1. over < 0 /\ -over = hw.val - gap /\ -over \in Nat BY <1>2, <1>3, <2>1
      <3>2. again = [hw EXCEPT !.val = IF over <= 0 THEN -over ELSE hw.reload - over + 1,
                              !.flag = @ \/ (hw.val > 0 /\ over >= 0),
                              !.pend = @ \/ (hw.val > 0 /\ over >= 0)]
        BY DEF Cycles
      <3>4. ~(over >= 0) /\ over <= 0 BY <1>2, <1>3, <2>1
      <3> HIDE DEF over, again
      <3>5. again = [hw EXCEPT !.val = -over, !.flag = hw.flag, !.pend = hw.pend]
        BY <1>2, <3>2, <3>4
      <3> QED BY <1>2, <3>1, <3>5 DEF SysTick
    <2>12. /\ again.val \div Heartbeat = rest /\ again.val % Heartbeat > IntComp + 1
      <3> DEFINE q == again.val \div Heartbeat
                 m == again.val % Heartbeat
      <3>1. q \in Nat /\ m \in 0 .. Heartbeat - 1 BY <1>1, <2>1, <2>2, DivMod
      <3>2. ~(q # rest \/ m <= IntComp + 1) BY <1>4, <1>12 DEF WakeSlips
      <3> HIDE DEF q, m
      <3>3. q = rest /\ m > IntComp + 1 BY <1>1, <3>1, <3>2
      <3> QED BY <3>3 DEF q, m
    <2> HIDE DEF again
    <2>4. again.val % Heartbeat = phase - gap /\ phase - gap \in 0 .. Heartbeat - 1
      <3> DEFINE m == again.val % Heartbeat
      <3>1. m \in 0 .. Heartbeat - 1 /\ again.val = Heartbeat * (again.val \div Heartbeat) + m
        BY <1>1, <2>1, <2>2, DivMod
      <3> HIDE DEF m
      <3>2. again.val = Heartbeat * rest + m BY <2>12, <3>1
      <3>3. Heartbeat * rest \in Nat BY <1>1, <1>5
      <3>4. m = phase - gap BY <1>1, <1>3, <1>5, <2>2, <3>1, <3>2, <3>3
      <3> QED BY <3>1, <3>4 DEF m
    <2>3. (c.pend <=> hw.pend) /\ c \in SysTick
      <3> DEFINE over == gap - again.val
      <3>0. again.val > gap
        <4>1. Heartbeat * rest >= Heartbeat /\ Heartbeat * rest \in Nat BY <1>1, <1>5, <2>1
        <4> QED BY <1>1, <1>2, <1>3, <1>5, <2>2, <2>4, <4>1
      <3>1. over < 0 /\ -over \in Nat BY <1>2, <1>3, <2>1, <2>2, <3>0
      <3>2. c = [again EXCEPT !.val = IF over <= 0 THEN -over ELSE again.reload - over + 1,
                             !.flag = @ \/ (again.val > 0 /\ over >= 0),
                             !.pend = @ \/ (again.val > 0 /\ over >= 0)]
        BY DEF Cycles
      <3>4. ~(over >= 0) /\ over <= 0 BY <1>2, <1>3, <2>1, <2>2, <3>0
      <3>5. again.flag \in BOOLEAN /\ again.pend \in BOOLEAN BY <2>2 DEF SysTick
      <3> HIDE DEF over, c
      <3>6. c = [again EXCEPT !.val = -over, !.flag = again.flag, !.pend = again.pend]
        BY <2>2, <3>2, <3>4, <3>5
      <3> QED BY <2>2, <3>1, <3>5, <3>6 DEF SysTick
    <2> HIDE DEF c
    <2>5. reload = phase - gap - IntComp /\ reload > 1
      <3>1. phase - gap - IntComp \in 2 .. Word - 1 BY <1>1, <1>3, <1>5, <2>4, <2>12
      <3> QED BY <1>1, <2>4, <3>1, ModSmall
    <2>6. v = reload - 1 /\ reload - 1 \in 1 .. Heartbeat - 1
      <3>1. reload - 1 \in 1 .. Heartbeat - 1 BY <1>1, <1>3, <1>5, <2>4, <2>5
      <3>2. reload - 1 \in 0 .. (MaxReload + 1) - 1 BY <1>1, <3>1
      <3> QED BY <1>1, <3>1, <3>2, ModSmall
    <2>7. hw' = [c EXCEPT !.val = v, !.reload = Heartbeat - 1, !.flag = FALSE]
      BY <1>4, <1>12 DEF init_systick, c
    <2> HIDE DEF v, reload
    <2>8. hw' \in SysTick /\ hw'.val = v /\ (hw'.pend <=> hw.pend)
      <3>1. v \in Nat BY <1>1, <2>6
      <3> QED BY <2>3, <2>7, <3>1 DEF SysTick
    <2>13. Due' = Due /\ Due \in Int BY <1>1, <1>2, <1>3, <2>1, <2>6, <2>8 DEF Due
    <2>9. real' = (know' + Due) * Heartbeat - hw'.val + lost'
      <3>1. know' = know + ticklessDelta - rest BY <1>2, <1>4, <1>5, <1>6, <1>8, <1>12
      <3>2. lost' = lost + gap - IntComp /\ real' = real + 2 * gap + 1 BY <1>4, <1>12
      <3>3. hw'.val = phase - gap - IntComp - 1 BY <2>5, <2>6, <2>8
      <3> DEFINE a == (know + ticklessDelta + Due) * Heartbeat
                 b == Heartbeat * rest
      <3>4. a \in Int /\ b \in Int BY <1>1, <1>2, <1>5, <1>6, <2>13
      <3>5. (know' + Due) * Heartbeat = a - b
        <4>1. know' + Due = (know + ticklessDelta + Due) - rest BY <1>2, <1>5, <1>6, <2>13, <3>1
        <4> QED BY <1>1, <1>2, <1>5, <1>6, <2>13, <4>1
      <3>6. hw.val = b + phase /\ real = a - hw.val + lost BY <1>5, <1>6
      <3> HIDE DEF a, b
      <3>7. real' = (a - b) - hw'.val + lost' BY <1>1, <1>2, <1>3, <1>5, <3>2, <3>3, <3>4, <3>6
      <3> QED BY <3>5, <3>7
    <2>10. RunInv' BY <1>1, <2>6, <2>8, <2>9, <2>13 DEF RunInv
    <2>11. Ticking' BY <1>1, <1>2, <1>3, <1>4, <1>8, <1>11, <1>12, <2>8 DEF Ticking
    <2> QED BY <1>4, <2>10, <2>11 DEF ClockInv
  <1>13. CASE ~early
    <2>1. hw' = [hw EXCEPT !.flag = FALSE] /\ lost' = lost /\ real' = real BY <1>4, <1>13
    <2>2. hw' \in SysTick /\ hw'.val = hw.val /\ (hw'.pend <=> hw.pend) BY <1>2, <2>1 DEF SysTick
    <2>3. know' = know + ticklessDelta /\ hw.val < Heartbeat BY <1>4, <1>9, <1>13
    <2>6. Due' = Due /\ Due \in Int BY <2>2 DEF Due
    <2>7. know' + Due = know + ticklessDelta + Due BY <1>2, <1>6, <2>3, <2>6
    <2>4. RunInv' BY <1>1, <1>2, <1>6, <2>1, <2>2, <2>3, <2>6, <2>7 DEF RunInv
    <2>5. Ticking' BY <1>2, <1>4, <1>8, <1>11, <2>1, <2>2 DEF Ticking
    <2> QED BY <1>4, <2>4, <2>5 DEF ClockInv
  <1> QED BY <1>12, <1>13

\* A slip is not forgotten.
LEMMA SlipStays ==
  ASSUME [tNext]_tVars, slip
  PROVE  slip'
  <1>1. CASE UNCHANGED tVars BY <1>1 DEF tVars
  <1>2. CASE Elapse \/ __ktimer_handler \/ ShowTicklessVerify
    BY <1>2 DEF Elapse, __ktimer_handler, ShowTicklessVerify
  <1>3. ASSUME NEW d \in Deltas, ktimer_enable(d) PROVE slip' BY <1>3 DEF ktimer_enable
  <1>4. ASSUME NEW gap \in Gaps, EnterTickless(gap) PROVE slip' BY <1>4 DEF EnterTickless
  <1>5. ASSUME NEW gap \in Gaps, LeaveTickless(gap) PROVE slip' BY <1>5 DEF LeaveTickless
  <1> QED BY <1>1, <1>2, <1>3, <1>4, <1>5 DEF tNext

\* The invariant of the clock holds at the start and after every step.
LEMMA ClockStart == tInit => ClockInv
  <1> SUFFICES ASSUME tInit PROVE ClockInv OBVIOUS
  <1>0. know = 0 /\ real = 1 /\ lost = 0 /\ delta = 0 /\ cpu = "run" BY Zenon DEF tInit
  <1>1. /\ Heartbeat \in Nat /\ Heartbeat > 2 BY TicklessAssumption
  <1>2. hw = [val |-> Heartbeat - 1, reload |-> Heartbeat - 1, flag |-> FALSE, pend |-> FALSE]
    BY Zenon DEF tInit
  <1>3. hw \in SysTick /\ hw.val = Heartbeat - 1 /\ ~hw.pend BY <1>1, <1>2 DEF SysTick
  <1>4. Ticking
    <2>1. on \in BOOLEAN /\ ~on /\ cpu = "run" BY Zenon DEF tInit
    <2>2. know \in Int /\ real \in Int /\ lost \in Int /\ delta \in Int BY <1>0
    <2> QED BY <1>3, <2>1, <2>2, Zenon DEF Ticking
  <1>5. RunInv BY <1>0, <1>1, <1>3 DEF RunInv, Due
  <1> QED BY <1>0, <1>4, <1>5 DEF ClockInv

LEMMA ClockKept ==
  ASSUME ClockInv, [tNext]_tVars, ~slip'
  PROVE  ClockInv'
  <1>1. CASE UNCHANGED tVars
    BY <1>1 DEF tVars, hVars, ClockInv, Ticking, RunInv, IdleInv, Due
  <1>2. CASE ShowTicklessVerify
    BY <1>2 DEF ShowTicklessVerify, hVars, ClockInv, Ticking, RunInv, IdleInv, Due
  <1>3. ASSUME NEW d \in Deltas, ktimer_enable(d) PROVE ClockInv'
    <2>1. d \in 1 .. Word - 1 BY TicklessAssumption
    <2>2. /\ cpu = "run" /\ on' = TRUE /\ delta' = d
          /\ UNCHANGED <<hw, know, cpu, ticklessDelta, real, lost>>
      BY <1>3 DEF ktimer_enable
    <2>3. on' \in BOOLEAN /\ delta' \in Int /\ (on' => delta' \in 1 .. Word - 1)
      <3>1. on' \in BOOLEAN BY <2>2, Zenon
      <3> QED BY <2>1, <2>2, <3>1
    <2>4. Ticking' BY <2>2, <2>3 DEF ClockInv, Ticking
    <2>5. RunInv' BY <2>2 DEF ClockInv, RunInv, Due
    <2> QED BY <2>2, <2>4, <2>5 DEF ClockInv
  <1> QED BY <1>1, <1>2, <1>3, ElapseStep, HandlerStep, EnterStep, LeaveStep DEF tNext

\* Out of the wait it is what ClockExact says of the clock.
LEMMA ClockIs ==
  ASSUME ClockInv, cpu = "run"
  PROVE  real = (know + (IF hw.pend THEN 1 ELSE 0)) * Heartbeat
                  + ((Heartbeat - hw.val) % Heartbeat) + lost
  <1>1. /\ Heartbeat \in Nat /\ Heartbeat > 2 BY TicklessAssumption
  <1>2. /\ RunInv /\ hw.val \in Nat /\ know \in Int /\ real \in Int /\ lost \in Int
    BY DEF ClockInv, Ticking, SysTick
  <1>3. CASE hw.val = 0
    <2>1. Heartbeat % Heartbeat = 0 BY <1>1
    <2> QED BY <1>1, <1>2, <1>3, <2>1 DEF RunInv, Due
  <1>4. CASE hw.val # 0
    <2>1. Heartbeat - hw.val \in 0 .. Heartbeat - 1 BY <1>1, <1>2, <1>4 DEF RunInv
    <2>2. (Heartbeat - hw.val) % Heartbeat = Heartbeat - hw.val BY <1>1, <2>1, ModSmall
    <2>3. CASE hw.pend BY <1>1, <1>2, <1>4, <2>2, <2>3 DEF RunInv, Due
    <2>4. CASE ~hw.pend BY <1>1, <1>2, <1>4, <2>2, <2>4 DEF RunInv, Due
    <2> QED BY <2>3, <2>4
  <1> QED BY <1>3, <1>4

\* The least and the most an entry can lose, and what n entries can.
Least == Min(Gaps) - Comp
Most == Max(Gaps) - Comp
Within(n, x) == n * Least <= x /\ x <= n * Most

\* A record, and what is saved when a countdown starts.
Record == [ktimer : Int, hwtimer : Int, lost : Int, count : Nat, countInt : Nat]
Started == [on : BOOLEAN, systick : Int, hwtimer : Int, know : Int, lost : Int,
            count : Nat, countInt : Nat]

\* A record shows what was lost; that is within the bounds of the entries it counts,
\* unless another interrupt ended one of them.
Shows(r) == /\ r.hwtimer - r.ktimer - r.lost \in -1 .. 1
            /\ r.countInt = 0 => Within(r.count, r.lost)

\* What was saved is one moment's clock and hardware timer, and the same holds of the
\* loss since.
StartInv ==
  /\ vStart \in Started
  /\ vStart.on => /\ vStart.hwtimer = (vStart.know * Heartbeat + vStart.systick + vStart.lost) \div 2
                  /\ vStart.countInt = 0 => Within(vStart.count, lost - vStart.lost)

\* The records made are the first ones of the ring, or all of it.
RecordInv ==
  /\ vTimes \in Nat /\ records \in [0 .. MaxRecord - 1 -> Record]
  /\ \A i \in 0 .. MaxRecord - 1 : i < vTimes => Shows(records[i])

VerifyInv == StartInv /\ RecordInv /\ SuggestsTheGap

\* The facts that the steps and the theorem need: the records that
\* tickless_verify_stat() reads, the bounds of a loss and a loss rounded up.
LEMMA MadeShow ==
  ASSUME RecordInv
  PROVE  \A r \in Made : r \in Record /\ Shows(r)
  <1> TAKE r \in Made
  <1>1. MaxRecord \in Nat \ {0} BY TicklessAssumption
  <1> DEFINE top == IF vTimes < MaxRecord THEN vTimes ELSE MaxRecord
  <1>2. PICK i \in 0 .. top - 1 : r = records[i] BY Zenon DEF Made
  <1>3. i \in 0 .. MaxRecord - 1 /\ i < vTimes BY <1>1, <1>2 DEF RecordInv
  <1> QED BY <1>2, <1>3 DEF RecordInv

LEMMA LossBounds == Least \in Int /\ Most \in Int /\ Least <= Most
  <1>1. Comp \in Nat /\ Gaps # {} BY TicklessAssumption
  <1>2. Min(Gaps) \in Nat /\ Max(Gaps) \in Nat BY GapFacts
  <1>3. PICK gap \in Gaps : TRUE BY <1>1
  <1>4. gap \in Nat /\ Min(Gaps) <= gap /\ gap <= Max(Gaps) BY GapFacts
  <1> QED BY <1>1, <1>2, <1>4 DEF Least, Most

LEMMA Rounded ==
  ASSUME NEW n \in Nat, NEW diff \in Nat, diff > 0, NEW lo \in Int, NEW hi \in Int,
         n * lo - 1 <= diff, diff <= n * hi + 1
  PROVE  /\ RoundUp(diff, n) \in Nat
         /\ RoundUp(diff, n) \in {1} \cup (lo - 1 .. hi + 1)
  <1>1. CASE n = 0
    <2>1. Div(diff, n) = 0 BY <1>1 DEF Div
    <2> QED BY <1>1, <2>1 DEF RoundUp
  <1>2. CASE n > 0
    <2> DEFINE q == diff \div n
               m == diff % n
    <2>1. Div(diff, n) = q BY <1>2 DEF Div
    <2>2. q \in Nat /\ m \in 0 .. n - 1 /\ diff = n * q + m BY <1>2, DivMod
    <2> DEFINE c == RoundUp(diff, n)
    <2>3. c = IF n * q < diff THEN q + 1 ELSE q BY <2>1 DEF RoundUp
    <2> HIDE DEF q, m, c
    <2>4. CASE n * q < diff
      <3>1. c = q + 1 BY <2>3, <2>4
      <3>2. n * q < n * (hi + 1) BY <1>2, <2>2, <2>4
      <3>3. q < hi + 1 BY <1>2, <2>2, <3>2
      <3>4. n * (lo - 1) < n * (q + 1) BY <1>2, <2>2, <2>4
      <3>5. lo - 1 < q + 1 BY <1>2, <2>2, <3>4
      <3> QED BY <2>2, <3>1, <3>3, <3>5 DEF c
    <2>5. CASE ~(n * q < diff)
      <3>1. c = q /\ diff = n * q BY <2>2, <2>3, <2>5
      <3>2. n * q <= n * (hi + 1) BY <1>2, <2>2, <3>1
      <3>3. q <= hi + 1 BY <1>2, <2>2, <3>2
      <3>4. n * (lo - 1) <= n * q BY <1>2, <2>2, <3>1
      <3>5. lo - 1 <= q BY <1>2, <2>2, <3>4
      <3> QED BY <2>2, <3>1, <3>3, <3>5 DEF c
    <2> QED BY <2>4, <2>5
  <1> QED BY <1>1, <1>2

\* So the least compensation asked for is that of one record.
LEMMA Suggested ==
  ASSUME RecordInv
  PROVE  Compensation \in {Word - 1, 1} \cup (Least - 1 .. Most + 1)
  <1> DEFINE quiet == {r \in Made : r.countInt = 0 /\ r.hwtimer > r.ktimer}
             asked == {RoundUp(r.hwtimer - r.ktimer, r.count) : r \in quiet}
             T == {Word - 1} \cup asked
  <1>1. ASSUME NEW r \in quiet
        PROVE  /\ RoundUp(r.hwtimer - r.ktimer, r.count) \in Nat
               /\ RoundUp(r.hwtimer - r.ktimer, r.count) \in {1} \cup (Least - 1 .. Most + 1)
    <2>1. r \in Record /\ Shows(r) /\ r.countInt = 0 /\ r.hwtimer > r.ktimer BY MadeShow
    <2>2. /\ r.hwtimer \in Int /\ r.ktimer \in Int /\ r.lost \in Int /\ r.count \in Nat
      BY <2>1 DEF Record
    <2> DEFINE diff == r.hwtimer - r.ktimer
               n == r.count
    <2>3. diff \in Nat /\ diff > 0 /\ diff - r.lost \in -1 .. 1 BY <2>1, <2>2 DEF Shows
    <2>4. n * Least <= r.lost /\ r.lost <= n * Most /\ n \in Nat BY <2>1, <2>2 DEF Shows, Within
    <2>5. n * Least \in Int /\ n * Most \in Int BY <2>2, LossBounds
    <2> HIDE DEF diff, n
    <2>6. n * Least - 1 <= diff /\ diff <= n * Most + 1 BY <2>2, <2>3, <2>4, <2>5
    <2>7. RoundUp(diff, n) \in Nat /\ RoundUp(diff, n) \in {1} \cup (Least - 1 .. Most + 1)
      BY <2>3, <2>4, <2>6, LossBounds, Rounded
    <2> QED BY <2>7 DEF diff, n
  <1>2. T \in SUBSET Nat /\ T # {}
    <2>1. Word - 1 \in Nat BY TicklessAssumption
    <2>2. \A x \in asked : x \in Nat BY <1>1, Zenon
    <2> HIDE DEF asked
    <2> QED BY <2>1, <2>2
  <1>3. \A x \in asked : x \in {1} \cup (Least - 1 .. Most + 1) BY <1>1, Zenon
  <1>4. Compensation = Min(T) BY Zenon DEF Compensation
  <1> HIDE DEF T
  <1>5. \E m \in T : \A x \in T : m <= x BY <1>2, LeastNumber
  <1>6. Min(T) \in T BY <1>5, Zenon DEF Min
  <1> HIDE DEF asked
  <1> QED BY <1>3, <1>4, <1>6 DEF T

\* No entry loses nothing, and one more adds its loss.
LEMMA NoLoss == Within(0, 0)
  BY LossBounds DEF Within

LEMMA OneMore ==
  ASSUME NEW n \in Nat, NEW x \in Int, Within(n, x), NEW gap \in Gaps
  PROVE  Within(n + 1, x + gap - Comp)
  <1>1. /\ gap \in Nat /\ Min(Gaps) <= gap /\ gap <= Max(Gaps) /\ Min(Gaps) \in Nat
        /\ Max(Gaps) \in Nat /\ Comp \in Nat
    BY GapFacts, TicklessAssumption
  <1>2. Least <= gap - Comp /\ gap - Comp <= Most BY <1>1 DEF Least, Most
  <1>3. (n + 1) * Least = n * Least + Least /\ (n + 1) * Most = n * Most + Most BY LossBounds
  <1>4. n * Least \in Int /\ n * Most \in Int BY LossBounds
  <1> QED BY <1>1, <1>2, <1>3, <1>4, LossBounds DEF Within

\* Two readings of a timer that counts every second cycle.
LEMMA Halves ==
  ASSUME NEW a \in Int, NEW b \in Int
  PROVE  ((a \div 2) - (b \div 2)) * 2 - (a - b) \in -1 .. 1
  OBVIOUS

\* The cycles between two readings of the clock.
LEMMA TicksBetween ==
  ASSUME NEW h \in Nat, NEW v \in Nat, NEW k \in Int, NEW m \in Int, NEW t \in Int
  PROVE  ((k + 1) - m) * h + (h - v) - t = ((k + 2) * h - v) - (m * h + t)
  <1>1. ((k + 1) - m) * h = (k + 1) * h - m * h OBVIOUS
  <1>2. (k + 1) * h = k * h + h /\ (k + 2) * h = k * h + h + h OBVIOUS
  <1>3. k * h \in Int /\ m * h \in Int OBVIOUS
  <1> DEFINE x == k * h
             y == m * h
             a == ((k + 1) - m) * h
             b == (k + 2) * h
  <1>4. a = (x + h) - y /\ b = x + h + h /\ x \in Int /\ y \in Int BY <1>1, <1>2, <1>3
  <1> HIDE DEF x, y, a, b
  <1>5. a + (h - v) - t = (b - v) - (y + t) BY <1>4
  <1> QED BY <1>5 DEF y, a, b

\* Each handler keeps the invariant of the records.
LEMMA EnableRecords ==
  ASSUME ClockInv, VerifyInv, NEW d \in Deltas, ktimer_enable(d)
  PROVE  VerifyInv'
  <1>1. /\ Heartbeat \in Nat /\ Heartbeat > 2 BY TicklessAssumption
  <1>2. /\ RunInv /\ hw.val \in Nat /\ ~hw.pend /\ know \in Int /\ real \in Int /\ lost \in Int
    BY DEF ClockInv, Ticking, SysTick, ktimer_enable
  <1>3. real = know * Heartbeat + (Heartbeat - hw.val) + lost BY <1>1, <1>2 DEF RunInv, Due
  <1>4. /\ tickless_verify_start /\ UNCHANGED <<records, vTimes, suggest, lost>>
    BY DEF ktimer_enable
  <1>5. RecordInv' /\ SuggestsTheGap' BY <1>4 DEF VerifyInv, RecordInv, SuggestsTheGap
  <1>6. CASE vOn
    <2> DEFINE since == Heartbeat - hw.val
               hwt == real \div 2
    <2>1. vStart' = [on |-> TRUE, systick |-> since, hwtimer |-> hwt, know |-> know,
                     lost |-> lost, count |-> 0, countInt |-> 0]
      BY <1>4, <1>6 DEF tickless_verify_start, systick_now, hwtimer_now
    <2>2. since \in Int /\ hwt \in Int BY <1>1, <1>2
    <2>3. hwt = (know * Heartbeat + since + lost) \div 2 BY <1>3
    <2> HIDE DEF since, hwt
    <2>4. /\ vStart' \in Started /\ vStart'.know = know /\ vStart'.lost = lost
          /\ vStart'.systick = since /\ vStart'.hwtimer = hwt /\ vStart'.count = 0
      BY <1>2, <2>1, <2>2 DEF Started
    <2>5. lost' - vStart'.lost = 0 BY <1>2, <1>4, <2>4
    <2>6. StartInv' BY <2>3, <2>4, <2>5, NoLoss DEF StartInv
    <2> QED BY <1>5, <2>6 DEF VerifyInv
  <1>7. CASE ~vOn
    <2>1. vStart' = Off BY <1>4, <1>7 DEF tickless_verify_start
    <2>2. vStart' \in Started /\ ~vStart'.on BY <2>1 DEF Off, Started
    <2>3. StartInv' BY <2>2 DEF StartInv
    <2> QED BY <1>5, <2>3 DEF VerifyInv
  <1> QED BY <1>6, <1>7

LEMMA HandlerRecords ==
  ASSUME ClockInv, VerifyInv, __ktimer_handler
  PROVE  VerifyInv'
  <1>1. /\ Heartbeat \in Nat /\ Heartbeat > 2 /\ MaxRecord \in Nat \ {0} BY TicklessAssumption
  <1>2. /\ RunInv /\ hw.val \in Nat /\ hw.pend /\ hw.val > 0
        /\ know \in Int /\ real \in Int /\ lost \in Int
    BY DEF ClockInv, Ticking, SysTick, __ktimer_handler
  <1>3. real = (know + 2) * Heartbeat - hw.val + lost BY <1>1, <1>2 DEF RunInv, Due
  <1>4. UNCHANGED <<vStart, suggest, lost>> BY DEF __ktimer_handler
  <1>5. StartInv' /\ SuggestsTheGap' BY <1>4 DEF VerifyInv, StartInv, SuggestsTheGap
  <1>6. UNCHANGED <<records, vTimes>> \/ (vStart.on /\ tickless_verify_stop(know + 1))
    BY DEF __ktimer_handler, tickless_verify_stop
  <1>7. CASE UNCHANGED <<records, vTimes>>
    <2>1. RecordInv' BY <1>7 DEF VerifyInv, RecordInv
    <2> QED BY <1>5, <2>1 DEF VerifyInv
  <1>8. CASE vStart.on /\ tickless_verify_stop(know + 1)
    <2> DEFINE kt == ((know + 1) - vStart.know) * Heartbeat + (Heartbeat - hw.val) - vStart.systick
               ht == ((real \div 2) - vStart.hwtimer) * 2
               ls == lost - vStart.lost
               new == [ktimer |-> kt, hwtimer |-> ht, lost |-> ls,
                       count |-> vStart.count, countInt |-> vStart.countInt]
               k == vTimes % MaxRecord
    <2>1. records' = [records EXCEPT ![k] = new] /\ vTimes' = vTimes + 1
      BY <1>8, Zenon DEF tickless_verify_stop, systick_now, hwtimer_now
    <2>2. /\ vStart \in Started
          /\ vStart.hwtimer = (vStart.know * Heartbeat + vStart.systick + vStart.lost) \div 2
          /\ vStart.countInt = 0 => Within(vStart.count, ls)
      BY <1>8 DEF VerifyInv, StartInv
    <2>3. /\ vStart.know \in Int /\ vStart.systick \in Int /\ vStart.lost \in Int
          /\ vStart.hwtimer \in Int /\ vStart.count \in Nat /\ vStart.countInt \in Nat
      BY <2>2 DEF Started
    <2>4. kt \in Int /\ ht \in Int /\ ls \in Int BY <1>1, <1>2, <2>3
    <2>5. ht - kt - ls \in -1 .. 1
      <3> DEFINE b == vStart.know * Heartbeat + vStart.systick + vStart.lost
      <3>1. b \in Int BY <1>1, <2>3
      <3>2. kt = (real - lost) - (b - vStart.lost)
        <4>1. real - lost = (know + 2) * Heartbeat - hw.val BY <1>1, <1>2, <1>3
        <4>2. b - vStart.lost = vStart.know * Heartbeat + vStart.systick BY <1>1, <2>3
        <4>3. kt = ((know + 2) * Heartbeat - hw.val) - (vStart.know * Heartbeat + vStart.systick)
          <5> DEFINE v == hw.val
                     k0 == vStart.know
                     t == vStart.systick
          <5>1. v \in Nat /\ k0 \in Int /\ t \in Int BY <1>2, <2>3
          <5>2. kt = ((know + 1) - k0) * Heartbeat + (Heartbeat - v) - t BY Zenon
          <5> HIDE DEF v, k0, t, kt
          <5>3. ((know + 1) - k0) * Heartbeat + (Heartbeat - v) - t
                  = ((know + 2) * Heartbeat - v) - (k0 * Heartbeat + t)
            BY <1>1, <1>2, <5>1, TicksBetween
          <5>4. kt = ((know + 2) * Heartbeat - v) - (k0 * Heartbeat + t) BY <5>2, <5>3, Zenon
          <5> QED BY <5>4, Zenon DEF v, k0, t
        <4> QED BY <4>1, <4>2, <4>3
      <3>3. vStart.hwtimer = b \div 2 BY <2>2
      <3> HIDE DEF b
      <3>4. ((real \div 2) - (b \div 2)) * 2 - (real - b) \in -1 .. 1 BY <1>2, <3>1, Halves
      <3>5. ht - kt - ls = ht - (real - b) BY <1>2, <2>3, <2>4, <3>1, <3>2
      <3> QED BY <3>3, <3>4, <3>5
    <2> HIDE DEF kt, ht, ls
    <2>6. new \in Record /\ Shows(new) BY <2>2, <2>3, <2>4, <2>5 DEF Record, Shows
    <2> HIDE DEF new
    <2>7. vTimes \in Nat /\ records \in [0 .. MaxRecord - 1 -> Record] BY DEF VerifyInv, RecordInv
    <2>8. k \in 0 .. MaxRecord - 1 /\ (vTimes < MaxRecord => k = vTimes) BY <1>1, <2>7
    <2> HIDE DEF k
    <2>9. ASSUME NEW i \in 0 .. MaxRecord - 1, i < vTimes' PROVE Shows(records'[i])
      <3>1. CASE i = k BY <2>1, <2>6, <2>7, <3>1
      <3>2. CASE i # k
        <4>1. i < vTimes BY <1>1, <2>1, <2>7, <2>8, <2>9, <3>2
        <4> QED BY <2>1, <2>7, <3>2, <4>1 DEF VerifyInv, RecordInv
      <3> QED BY <3>1, <3>2
    <2>10. records' \in [0 .. MaxRecord - 1 -> Record] /\ vTimes' \in Nat
      BY <2>1, <2>6, <2>7, <2>8
    <2>11. RecordInv' BY <2>9, <2>10, Zenon DEF RecordInv
    <2> QED BY <1>5, <2>11 DEF VerifyInv
  <1> QED BY <1>6, <1>7, <1>8

LEMMA EnterRecords ==
  ASSUME ClockInv, VerifyInv, NEW gap \in Gaps, EnterTickless(gap)
  PROVE  VerifyInv'
  <1>1. UNCHANGED <<records, vTimes, suggest>> BY DEF EnterTickless
  <1>2. RecordInv' /\ SuggestsTheGap' BY <1>1 DEF VerifyInv, RecordInv, SuggestsTheGap
  <1>3. \/ UNCHANGED <<lost, vStart>>
        \/ lost' = lost + gap - Comp /\ tickless_verify_count
    BY DEF EnterTickless
  <1>4. CASE UNCHANGED <<lost, vStart>>
    BY <1>2, <1>4 DEF VerifyInv, StartInv
  <1>5. CASE lost' = lost + gap - Comp /\ tickless_verify_count
    <2>1. vStart \in Started /\ lost \in Int BY DEF VerifyInv, StartInv, ClockInv, Ticking
    <2>2. CASE vStart.on
      <3> DEFINE n == vStart.count + 1
      <3>1. vStart' = [vStart EXCEPT !.count = n] BY <1>5, <2>2 DEF tickless_verify_count
      <3>2. n \in Nat /\ vStart.count \in Nat /\ vStart.lost \in Int BY <2>1 DEF Started
      <3>3. vStart.countInt = 0 => Within(n, (lost - vStart.lost) + gap - Comp)
        BY <2>1, <2>2, <3>2, OneMore DEF VerifyInv, StartInv
      <3> HIDE DEF n
      <3>4. /\ vStart' \in Started /\ vStart'.count = n /\ vStart'.countInt = vStart.countInt
            /\ vStart'.hwtimer = vStart.hwtimer /\ vStart'.know = vStart.know
            /\ vStart'.systick = vStart.systick /\ vStart'.lost = vStart.lost
        BY <2>1, <3>1, <3>2 DEF Started
      <3>5. lost' - vStart.lost = (lost - vStart.lost) + gap - Comp
        <4>1. gap \in Nat /\ Comp \in Nat BY GapFacts, TicklessAssumption
        <4> QED BY <1>5, <2>1, <3>2, <4>1
      <3>6. StartInv' BY <2>2, <3>3, <3>4, <3>5 DEF VerifyInv, StartInv
      <3> QED BY <1>2, <3>6 DEF VerifyInv
    <2>3. CASE ~vStart.on
      <3>1. vStart' = [vStart EXCEPT !.count = vStart.count] BY <1>5, <2>3 DEF tickless_verify_count
      <3>2. vStart' \in Started /\ ~vStart'.on BY <2>1, <2>3, <3>1 DEF Started
      <3>3. StartInv' BY <3>2 DEF StartInv
      <3> QED BY <1>2, <3>3 DEF VerifyInv
    <2> QED BY <2>2, <2>3
  <1> QED BY <1>3, <1>4, <1>5

LEMMA LeaveRecords ==
  ASSUME ClockInv, VerifyInv, NEW gap \in Gaps, LeaveTickless(gap)
  PROVE  VerifyInv'
  <1>1. UNCHANGED <<records, vTimes, suggest>> BY DEF LeaveTickless
  <1>2. RecordInv' /\ SuggestsTheGap' BY <1>1 DEF VerifyInv, RecordInv, SuggestsTheGap
  <1>3. UNCHANGED <<lost, vStart>> \/ tickless_verify_count_int BY DEF LeaveTickless
  <1>4. CASE UNCHANGED <<lost, vStart>>
    BY <1>2, <1>4 DEF VerifyInv, StartInv
  <1>5. CASE tickless_verify_count_int
    <2>1. vStart \in Started BY DEF VerifyInv, StartInv
    <2>2. CASE vStart.on
      <3> DEFINE n == vStart.countInt + 1
      <3>1. vStart' = [vStart EXCEPT !.countInt = n] BY <1>5, <2>2 DEF tickless_verify_count_int
      <3>2. n \in Nat /\ n # 0 BY <2>1 DEF Started
      <3> HIDE DEF n
      <3>3. /\ vStart' \in Started /\ vStart'.countInt = n
            /\ vStart'.hwtimer = vStart.hwtimer /\ vStart'.know = vStart.know
            /\ vStart'.systick = vStart.systick /\ vStart'.lost = vStart.lost
        BY <2>1, <3>1, <3>2 DEF Started
      <3>4. StartInv' BY <2>2, <3>2, <3>3, Zenon DEF VerifyInv, StartInv
      <3> QED BY <1>2, <3>4 DEF VerifyInv
    <2>3. CASE ~vStart.on
      <3>1. vStart' = [vStart EXCEPT !.countInt = vStart.countInt]
        BY <1>5, <2>3 DEF tickless_verify_count_int
      <3>2. vStart' \in Started /\ ~vStart'.on BY <2>1, <2>3, <3>1 DEF Started
      <3>3. StartInv' BY <3>2 DEF StartInv
      <3> QED BY <1>2, <3>3 DEF VerifyInv
    <2> QED BY <2>2, <2>3
  <1> QED BY <1>3, <1>4, <1>5

LEMMA ShowRecords ==
  ASSUME VerifyInv, ShowTicklessVerify
  PROVE  VerifyInv'
  <1>1. vStart' = vStart /\ lost' = lost BY DEF ShowTicklessVerify
  <1>2. StartInv' BY <1>1 DEF VerifyInv, StartInv
  <1>3. CASE vOn
    <2>1. records' = records /\ vTimes' = vTimes
      BY <1>3 DEF ShowTicklessVerify, tickless_verify_stat
    <2>2. RecordInv' BY <2>1 DEF VerifyInv, RecordInv
    <2>3. suggest'[1] = Compensation
      <3>1. PICK comp \in {Compensation} : suggest' = <<comp, IntCompensation(comp)>>
        BY <1>3, Zenon DEF ShowTicklessVerify, tickless_verify_stat
      <3> QED BY <3>1
    <2>4. Compensation \in {Word - 1, 1} \cup (Least - 1 .. Most + 1) BY Suggested DEF VerifyInv
    <2>5. SuggestsTheGap' BY <2>3, <2>4 DEF SuggestsTheGap, Least, Most
    <2> QED BY <1>2, <2>2, <2>5 DEF VerifyInv
  <1>4. CASE ~vOn
    <2>1. records' = records /\ vTimes' = 0 /\ suggest' = suggest
      BY <1>4 DEF ShowTicklessVerify, tickless_verify_init
    <2>2. RecordInv' BY <2>1 DEF VerifyInv, RecordInv
    <2>3. SuggestsTheGap' BY <2>1 DEF VerifyInv, SuggestsTheGap
    <2> QED BY <1>2, <2>2, <2>3 DEF VerifyInv
  <1> QED BY <1>3, <1>4

LEMMA RecordsKept ==
  ASSUME ClockInv, VerifyInv, [tNext]_tVars
  PROVE  VerifyInv'
  <1>1. CASE UNCHANGED <<vStart, records, vTimes, suggest, lost>>
    BY <1>1 DEF VerifyInv, StartInv, RecordInv, SuggestsTheGap
  <1>2. CASE Elapse BY <1>1, <1>2 DEF Elapse, vVars
  <1>3. CASE UNCHANGED tVars BY <1>1, <1>3 DEF tVars, vVars
  <1> QED BY <1>2, <1>3, EnableRecords, HandlerRecords, EnterRecords, LeaveRecords, ShowRecords
          DEF tNext

LEMMA RecordsStart == tInit => VerifyInv
  <1> SUFFICES ASSUME tInit PROVE VerifyInv OBVIOUS
  <1>1. vStart = Off /\ vTimes = 0 /\ suggest = <<Word - 1, Word - 1>> BY Zenon DEF tInit
  <1>2. StartInv
    <2>1. Off \in Started BY DEF Off, Started
    <2>2. ~Off.on BY DEF Off
    <2>3. vStart \in Started /\ ~vStart.on BY <1>1, <2>1, <2>2
    <2> QED BY <2>3 DEF StartInv
  <1>3. RecordInv
    <2> DEFINE none == [ktimer |-> 0, hwtimer |-> 0, lost |-> 0, count |-> 0, countInt |-> 0]
    <2>1. none \in Record BY DEF Record
    <2>2. records = [i \in 0 .. MaxRecord - 1 |-> none] BY DEF tInit
    <2> HIDE DEF none
    <2> QED BY <1>1, <2>1, <2>2 DEF RecordInv
  <1>4. SuggestsTheGap BY <1>1 DEF SuggestsTheGap
  <1> QED BY <1>2, <1>3, <1>4 DEF VerifyInv

\* For any length of a tick, width of the counter, compensation and time it takes to
\* restart the counter, and any countdowns, wake-ups and entries up to the first that
\* slips (EnterSlips, WakeSlips), the system time that ktimer_enter_tickless() and
\* __ktimer_handler() keep is exact but for the cycles of the restarts, the records of
\* tickless_verify_stop() show those up to a cycle, and what tickless_verify_stat()
\* suggests is what an entry loses up to a cycle.
THEOREM ClockIsExact == tInit /\ [][tNext]_tVars => []ClockExact
  <1> DEFINE Inv == slip \/ (ClockInv /\ VerifyInv)
  <1>1. tInit => Inv BY ClockStart, RecordsStart
  <1>2. Inv /\ [tNext]_tVars => Inv'
    <2> SUFFICES ASSUME Inv, [tNext]_tVars, ~slip' PROVE (ClockInv /\ VerifyInv)' OBVIOUS
    <2>1. ~slip BY SlipStays
    <2> QED BY <2>1, ClockKept, RecordsKept
  <1>3. Inv => ClockExact
    <2> SUFFICES ASSUME Inv, ~slip PROVE ClockExact BY DEF ClockExact
    <2>0. ClockInv /\ VerifyInv OBVIOUS
    <2>1. RecordsShowLoss BY <2>0, MadeShow DEF VerifyInv, RecordsShowLoss, Shows
    <2>2. SuggestsTheGap BY <2>0 DEF VerifyInv
    <2> QED BY <2>0, <2>1, <2>2, ClockIs DEF ClockExact
  <1> HIDE DEF Inv
  <1> QED BY <1>1, <1>2, <1>3, PTL
=============================================================================
