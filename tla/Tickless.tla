----------------------------- MODULE Tickless -----------------------------
(***************************************************************************)
(* Tickless idling in processor cycles: the SysTick counter                 *)
(* (platform/stm32f4/systick.c), ktimer_enter_tickless() and the tick       *)
(* handler (kernel/ktimer.c), and the verification of the clock against a   *)
(* free-running hardware timer (kernel/tickless-verify.c).                  *)
(***************************************************************************)
EXTENDS Integers, FiniteSetsExt

CONSTANTS Heartbeat,       \* CONFIG_KTIMER_HEARTBEAT, cycles of a tick
          MaxReload,       \* SYSTICK_MAXRELOAD, the counter's width, scaled
          Word,            \* values of a uint32_t, scaled
          Comp, IntComp,   \* CONFIG_KTIMER_TICKLESS_(INT_)COMPENSATION
          Gaps,            \* cycles between reading the counter and restarting it
          Deltas,          \* the countdowns of the event list
          MaxReal,         \* bound on the cycles of a behaviour
          MaxRecord        \* TICKLESS_VERIFY_MAX_RECORD

VARIABLES hw,              \* SysTick: val, reload, COUNTFLAG, interrupt pending
          know, on, delta, \* ktimer_now, ktimer_enabled, ktimer_delta
          cpu,             \* "run", or "idle" in wait_for_interrupt()
          ticklessDelta,
          vOn, vStart,     \* tickless_verify_enabled, and what _start() saved
          records, vTimes, \* the ring of records and the number of them made
          suggest,         \* the compensations tickless_verify_stat() proposes
          real, lost,      \* cycles since start-up, and those SysTick did not count
          slip             \* history: an entry or a wake-up has miscounted a tick

hVars == <<hw, know, on, delta>>
vVars == <<vOn, vStart, records, vTimes, suggest>>
tVars == <<hVars, cpu, ticklessDelta, vVars, real, lost, slip>>

\* The counter holds a tick and is narrower than a word.  Reading and restarting it
\* takes less than a tick, and so does what an entry is compensated for.
ASSUME TicklessAssumption ==
  /\ Heartbeat \in Nat /\ MaxReload \in Nat /\ Word \in Nat /\ MaxRecord \in Nat \ {0}
  /\ Heartbeat > 2 /\ Heartbeat <= MaxReload /\ MaxReload < Word
  /\ Comp \in Nat /\ IntComp \in Nat /\ Comp + 2 < Heartbeat
  /\ Gaps # {} /\ Gaps \subseteq Nat /\ \A gap \in Gaps : gap + 1 < Heartbeat
  /\ Deltas \subseteq 1 .. Word - 1

KTIMER_MAXTICKS == MaxReload \div Heartbeat

-----------------------------------------------------------------------------
(* SysTick *)

systick_now == hw.val
hwtimer_now == real \div 2      \* TIM2 counts every second cycle

\* One cycle: the step from 1 to 0 sets COUNTFLAG and raises the interrupt.
Cycle(h) == IF h.val = 0 THEN [h EXCEPT !.val = h.reload]
            ELSE [h EXCEPT !.val = @ - 1, !.flag = @ \/ h.val = 1, !.pend = @ \/ h.val = 1]
\* Some cycles, fewer than a tick beyond the next such step.
Cycles(h, n) ==
  LET over == n - h.val
  IN  [h EXCEPT !.val = IF over <= 0 THEN -over ELSE h.reload - over + 1,
                !.flag = @ \/ (h.val > 0 /\ over >= 0), !.pend = @ \/ (h.val > 0 /\ over >= 0)]

\* A bug: the cycle of the restart is not counted.
init_systick_late(h, reload) ==
  [h EXCEPT !.val = reload % (MaxReload + 1), !.reload = Heartbeat - 1, !.flag = FALSE]

\* The counter is written with 0, which clears COUNTFLAG, and a cycle later starts
\* over from reload - 1; from then on it counts heartbeats.
init_systick(h, reload) ==
  [h EXCEPT !.val = (reload - 1) % (MaxReload + 1), !.reload = Heartbeat - 1, !.flag = FALSE]

-----------------------------------------------------------------------------
(* kernel/tickless-verify.c: the field lost of a record is not the code's:  *)
(* the record is compared with it.                                           *)

Off == [on |-> FALSE, systick |-> 0, hwtimer |-> 0, know |-> 0, lost |-> 0,
        count |-> 0, countInt |-> 0]

tickless_verify_start ==
  vStart' = IF vOn THEN [on |-> TRUE, systick |-> Heartbeat - systick_now, hwtimer |-> hwtimer_now,
                         know |-> know, lost |-> lost, count |-> 0, countInt |-> 0]
            ELSE Off

\* Called by the tick handler, which has counted the tick of this expiry.
tickless_verify_stop(now) ==
  IF vStart.on
  THEN /\ records' = [records EXCEPT ![vTimes % MaxRecord] =
             [ktimer |-> (now - vStart.know) * Heartbeat
                           + (Heartbeat - systick_now) - vStart.systick,
              hwtimer |-> (hwtimer_now - vStart.hwtimer) * 2,
              lost |-> lost - vStart.lost,
              count |-> vStart.count, countInt |-> vStart.countInt]]
       /\ vTimes' = vTimes + 1
  ELSE UNCHANGED <<records, vTimes>>

Div(a, b) == IF b = 0 THEN 0 ELSE a \div b    \* SDIV without a trap
RoundUp(diff, n) == IF n * Div(diff, n) < diff THEN Div(diff, n) + 1 ELSE Div(diff, n)

Made == {records[i] : i \in 0 .. (IF vTimes < MaxRecord THEN vTimes ELSE MaxRecord) - 1}

tickless_verify_init == vTimes' = 0 /\ UNCHANGED <<records, suggest>>

\* Counted whether or not a record is being made; only a record shows the counts.
tickless_verify_count == vStart' = [vStart EXCEPT !.count = IF vStart.on THEN @ + 1 ELSE @]
tickless_verify_count_int ==
  vStart' = [vStart EXCEPT !.countInt = IF vStart.on THEN @ + 1 ELSE @]

\* The least compensation that a record without other interrupts asks for, and the
\* least that one with such asks for beyond it; Word - 1 is UINT32_MAX.
Signed(x) == ((x + Word \div 2) % Word) - Word \div 2
Compensation ==
  LET quiet == {r \in Made : r.countInt = 0 /\ r.hwtimer > r.ktimer}
  IN  Min({Word - 1} \cup {RoundUp(r.hwtimer - r.ktimer, r.count) : r \in quiet})
IntCompensation(comp) ==
  LET diff(r) == Signed(r.hwtimer - r.ktimer - r.count * comp)
  IN  Min({Word - 1} \cup {RoundUp(diff(r), r.countInt) :
                             r \in {q \in Made : q.countInt # 0 /\ diff(q) > 0}})
tickless_verify_stat ==
  /\ \E comp \in {Compensation} : suggest' = <<comp, IntCompensation(comp)>>
  /\ UNCHANGED <<records, vTimes>>

-----------------------------------------------------------------------------
tInit == /\ hw = [val |-> Heartbeat - 1, reload |-> Heartbeat - 1, flag |-> FALSE, pend |-> FALSE]
         /\ know = 0 /\ on = FALSE /\ delta = 0
         /\ cpu = "run" /\ ticklessDelta = 0
         /\ vOn = FALSE /\ vStart = Off /\ suggest = <<Word - 1, Word - 1>> /\ vTimes = 0
         /\ records = [i \in 0 .. MaxRecord - 1 |->
                         [ktimer |-> 0, hwtimer |-> 0, lost |-> 0, count |-> 0, countInt |-> 0]]
         /\ real = 1 /\ lost = 0 /\ slip = FALSE

\* Time passes.  A pending SysTick is taken as soon as the counter has restarted.
Elapse == /\ real < MaxReal /\ (hw.pend => cpu = "run" /\ hw.val = 0)
          /\ hw' = Cycle(hw) /\ real' = real + 1
          /\ UNCHANGED <<know, on, delta, cpu, ticklessDelta, vVars, lost, slip>>

\* ktimer_enable(), from the event list.
ktimer_enable(d) ==
  /\ cpu = "run" /\ ~on /\ ~hw.pend
  /\ on' = TRUE /\ delta' = d /\ tickless_verify_start
  /\ UNCHANGED <<hw, know, cpu, ticklessDelta, vOn, records, vTimes, suggest, real, lost, slip>>

__ktimer_handler ==
  /\ cpu = "run" /\ hw.pend /\ hw.val > 0
  /\ hw' = [hw EXCEPT !.pend = FALSE] /\ know' = know + 1
  /\ IF on /\ delta > 0
     THEN /\ delta' = delta - 1 /\ on' = (delta # 1)
          /\ IF delta = 1 THEN tickless_verify_stop(know + 1) ELSE UNCHANGED <<records, vTimes>>
     ELSE UNCHANGED <<on, delta, records, vTimes>>
  /\ UNCHANGED <<cpu, ticklessDelta, vOn, vStart, suggest, real, lost, slip>>

\* Entering goes wrong when the counter reaches 0 before it is restarted, or was there:
\* the tick is pending and is counted again; and when the compensation is more than the
\* cycles to go, which are unsigned.
EnterSlips(td, reload, gap) ==
  (reload > 2 /\ hw.val <= gap) \/ Heartbeat * td + hw.val < Comp

\* ktimer_enter_tickless() up to wait_for_interrupt(), with interrupts masked: the
\* counter runs on for gap cycles between its reading and its restart.  A tick that is
\* pending has come since they were masked.
EnterTickless(gap) ==
  /\ cpu = "run" /\ (hw.pend => hw.val \in {0, Heartbeat - 1}) /\ real < MaxReal
  /\ \E td \in {((IF on /\ delta <= KTIMER_MAXTICKS THEN delta ELSE KTIMER_MAXTICKS) - 1) % Word} :
     \E reload \in {(Heartbeat * td + hw.val - Comp) % Word} :
       /\ ticklessDelta' = td
       /\ IF reload > 2
          THEN /\ hw' = init_systick(Cycles(hw, gap), reload)
               /\ lost' = lost + gap - Comp /\ real' = real + gap + 1
               /\ tickless_verify_count
          ELSE hw' = Cycles(hw, gap) /\ real' = real + gap /\ UNCHANGED <<lost, vStart>>
       /\ slip' = (slip \/ EnterSlips(td, reload, gap))
  /\ cpu' = "idle"
  /\ UNCHANGED <<know, on, delta, vOn, records, vTimes, suggest>>

\* Waking early goes wrong when the two readings are on two sides of a tick, and when
\* the cycles to the next tick, less the compensation, are none or fewer (the reload is
\* unsigned, so that the test for a negative one fails) or one (a reload register of 0
\* raises no interrupt).
WakeSlips(rest, val) == val \div Heartbeat # rest \/ val % Heartbeat <= IntComp + 1

\* The rest of it, after SysTick or another interrupt has ended the wait: the
\* counter is read twice, gap cycles apart, and restarted gap cycles later.
LeaveTickless(gap) ==
  LET rest  == hw.val \div Heartbeat
      early == ~hw.flag /\ rest > 0
      again == Cycles(hw, gap)
      reload == ((again.val % Heartbeat) - IntComp) % Word
      td    == IF early THEN (ticklessDelta - rest) % Word ELSE ticklessDelta
  IN  /\ cpu = "idle" /\ cpu' = "run"
      /\ IF early
         THEN /\ hw' = init_systick(Cycles(again, gap), reload)
              /\ lost' = lost + gap - IntComp /\ real' = real + 2 * gap + 1
              /\ tickless_verify_count_int
         ELSE hw' = [hw EXCEPT !.flag = FALSE] /\ UNCHANGED <<lost, real, vStart>>
      /\ slip' = (slip \/ (early /\ WakeSlips(rest, again.val)))
      /\ know' = know + td /\ delta' = (delta - td) % Word
      /\ UNCHANGED <<on, ticklessDelta, vOn, records, vTimes, suggest>>

\* The command 'v' of the debugger: the first time it clears the records.
ShowTicklessVerify ==
  /\ cpu = "run"
  /\ IF vOn THEN tickless_verify_stat ELSE tickless_verify_init
  /\ vOn' = TRUE
  /\ UNCHANGED <<hVars, cpu, ticklessDelta, vStart, real, lost, slip>>

tNext == \/ Elapse \/ __ktimer_handler \/ ShowTicklessVerify
         \/ \E d \in Deltas : ktimer_enable(d)
         \/ \E gap \in Gaps : EnterTickless(gap) \/ LeaveTickless(gap)

-----------------------------------------------------------------------------
RecordsShowLoss == \A r \in Made : r.hwtimer - r.ktimer - r.lost \in -1 .. 1

SuggestsTheGap ==
  suggest[1] \in {Word - 1, 1} \cup (Min(Gaps) - Comp - 1 .. Max(Gaps) - Comp + 1)

\* Until an entry or a wake-up slips, the system time is exact: when the processor is
\* not idle, the ticks counted, the pending one and the phase of the counter account for
\* every cycle that has passed but those it took to restart the counter ("system time is
\* adjusted after kernel wakes up", Documentation/ktimer.txt).  So EnterSlips and
\* WakeSlips are all the ways in which ktimer_enter_tickless() miscounts.  The
\* verification's records show the lost cycles, up to the two that a count of the hardware
\* timer takes, and the compensation suggested, if there is one, is what an entry loses
\* but for a cycle (or 1, from a countdown without idling).
ClockExact ==
  ~slip =>
    /\ cpu = "run" => real = (know + (IF hw.pend THEN 1 ELSE 0)) * Heartbeat
                              + ((Heartbeat - hw.val) % Heartbeat) + lost
    /\ RecordsShowLoss
    /\ SuggestsTheGap
=============================================================================
