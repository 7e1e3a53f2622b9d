# A verification project for the F9 microkernel

TLA+ models of the F9 microkernel (Cortex-M4, STM32F4 port), TLC runs that
check them on small instances, and TLAPS proofs about the switching core, IPC,
the kernel timer, thread control, the kernel tables, the console and the start-up.
`PROJECT.json` maps every definition to the lines it models and lists the
components, runs, mutants, findings, hazards and theorems.

## 1. The system

| part | sources | what it keeps | who enters it |
|---|---|---|---|
| interrupts and context switch | `platform/irq.c`, `include/platform/irq.h`, `kernel/start.c` | PendSV bit, PRIMASK, `current` | hardware |
| soft interrupts | `kernel/softirq.c`, `kernel/systhread.c` | `softirq[].schedule`, the kernel thread's state | SysTick, UART, SVC; drained by the kernel thread |
| scheduler | `kernel/sched.c` | six slots, highest priority first | PendSV; IPC and timeouts fill slots |
| system calls | `kernel/syscall.c` | `caller` | SVC, then the SYSCALL softirq |
| threads | `kernel/thread.c` | thread table, sorted id map, thread tree | system calls, start-up |
| IPC | `kernel/ipc.c`, `kernel/user-log.c`, `kernel/error.c` | thread states, message registers, `ipc_from`, `intended_receiver` | SYSCALL softirq, periodic `ipc_deliver` |
| kernel timer | `kernel/ktimer.c`, `platform/stm32f4/systick.c` | delta list of events, countdown, tickless residue | SysTick, KTE softirq, idle thread |
| memory | `kernel/memory.c`, `kernel/fpage.c`, `platform/stm32f4/mpu.c` | pools, flexible pages, address spaces, MPU regions | thread creation, map/grant items, faults |
| kernel tables | `kernel/lib/ktable.c`, `include/lib/bitmap.h`, `platform/bitops.c` | allocation bitmaps | threads, events, pages, spaces |
| debug UART | `platform/debug_uart.c`, `platform/stm32f4/usart.c`, `kernel/lib/queue.c` | two ring buffers, `ready` | UART interrupt, printing, KDB softirq |
| kernel debugger | `kernel/kdb.c` | none beyond the UART's | KDB softirq |
| debug devices | `platform/debug_device.c`, `platform/debug_ram.c` | device table, ring in memory | everything that prints |
| probes | `kernel/kprobes.c`, `platform/kprobes-arch.c`, `platform/breakpoint*.c`, `platform/hw_debug.c` | probe list, breakpoint pools | debug monitor exception |
| start-up | `kernel/init.c`, `kernel/start.c`, `platform/stm32f4/rcc.c` | last level, segments | reset |
| drivers | `platform/stm32f4/gpio.c`, `usart.c`, `nvic.c`, `board/` | device registers | start-up, debug UART |
| C library | `kernel/lib/memcpy.c`, `memset.c`, `stdio.c` | none | all parts |
| sorting, searching | `kernel/lib/sort.c`, `kernel/lib/bsearch.c`, `kernel/ksym.c`, `kernel/sampling.c` | none | symbol lookup, sampling |
| loader | `loader/` | ELF image | boot (not in the default configuration) |
| user side | `user/root_thread.c`, `user/apps/` | thread ids, free memory | runs as threads |
| user library | `user/include/l4/`, `user/lib/` | message and buffer registers | applications |
| build | `external/kconfig`, `mk/` | none | build time |

How the parts interact: an interrupt does little itself; it raises a softirq,
which makes the kernel thread runnable, and pends PendSV. PendSV selects a
thread from the slots; slot 0 is the kernel thread's, so it runs next. It
executes the softirq handlers (timer events, system calls, KDB), which change
thread states and slots, and then gives up the CPU with an SVC of its own.
Handlers use no locks: the kernel relies on the kernel thread not being
preempted by other threads, and on interrupts touching only the flags.

## 2. Modules

**Kernel** (switching core; `MCKernel`, `KernelProofs`). State: the softirq
flags, each thread's state, the slots, PendSV, PRIMASK, `current`, `caller`, and
where the kernel thread is inside `softirq_execute()`. Actions: the SVC, SysTick
and UART handlers, selection and switch in PendSV (two steps, because SysTick has
the higher priority and may run in between), and one action for each statement of
`softirq_execute()` that another context can observe. System calls appear with
their effect on states and slots, on the place in the tree of the threads they create
or destroy, and, for a sleep, on the timer (`MayArmTimer`).

**Ipc** (`MCIpc`, `IpcProofs`). `sys_ipc()`, `ipc_timeout()` and `ipc_deliver()`, each as one
action: Kernel shows that nothing preempts them. A message is its sender and what
the kernel reads of it (a start message, or one that is too long). A pass of
`ipc_deliver()` is a recursive function over the threads in the order of the map
(`Delivered`), as the loop is. A call in its send phase keeps its trap frame; the model forgets it later,
because nothing reads it then. `MCIpc` has two threads with every kind of call, or
three with words and start messages only, so that a third party exists.

**KTimer** (`MCKTimer`, `KTimerProofs`). The delta list and the countdown. `uint32_t` values are
numbers below `Mod`, and a value assigned to `long delta` is read as signed, also at the
head of the list.
Insertion, recalculation and the walk over the expired chain (`Walked`) are operators
on a record of the list and the countdown, because one handler applies them several
times.

**Threads** and **ThreadTree** (`MCThreads`, `ThreadsProofs`, `ThreadTreeProofs`). Thread
table, `thread_map` with what deletions leave behind in it, the child/sibling/parent
links as pointers, and the sharing count of address spaces. `ThreadTree` has the loops
that follow the links, `thread_select()`'s walk among them: `Rounds` is where such a
loop is after so many rounds, and `EndOf` where it stops. `Disciplined` says whether
callers keep the rules that the kernel does not check (section 5).

**DbgUart** (`MCDbgUart`, `LibProofs`) and **Fifo**. The console's two queues, between the
kernel thread and the UART interrupt handler. The thread's part is cut at every
assignment the handler can observe, in source order: so the UART is marked busy
(`PutcharMark`) one step before its interrupt is enabled (`PutcharEnable`). A build that keeps an index
in a register would show a lost update instead of the intermediate value. `Fifo`
is the abstract queue that `lib/queue.h` promises.

**Memory** (`MCMemory`). Flexible pages, address spaces and the MPU. An operation
(`thread_space()`, `as_destroy()`, `map_area()`, `as_setup_mpu()`, the fault
handler) is one action: the kernel thread, PendSV or the fault handler runs it
without being disturbed. The functions of `fpage.c` and `memory.c` are operators
from one record of the kernel's tables to the next, because the operations chain
them. A space's list is a sequence; `map_next` and `mpu_next` stay pointers, because
they form cycles and outlive the pages. `status` records how the kernel came to an
end: `panic` (an assertion or a fatal fault), `wild` (a null or dangling pointer is
used) or `hang` (a loop that does not end). Mapping and granting do the same, since
nothing reads FPAGE_MAPPED.

**KTable** and **Pool** (`MCLib`, `KTimerProofs`). A table's bitmap, its cursors by
bit-band or by word, and the exclusive accesses, whose store fails when an exception
comes between. `Pool` is what the users of a table rely on: elements with owners.

**Tickless** (`MCLib`, `KernelProofs`). `ktimer_enter_tickless()` in processor cycles. `real` counts
the cycles that pass, also those between reading the counter and restarting it;
the tick handler, the list's countdown and the verification against the hardware
timer (`tickless-verify.c`) see only the counter. The processor may enter and leave the
wait at any moment. `slip` records that an entry or a wake-up has miscounted
(`EnterSlips`, `WakeSlips`).

**MemLib** (`MCLib`, `LibProofs`). `memcpy()` as one action for its start, one for a turn
of each kind of loop and one for what is left after each; `memset()` as the set of the
addresses its statements write. A byte of the source is its address, so that a byte put
in the wrong place shows.

**Sampling**, **Printf** (`MCLib`). The profiler with its heapsort and
bisection; `__l4_vprintf()` one character of the format at a time, against what the
directives ask for.

**Console** (`MCLib`, `KTimerProofs`). The table of debug devices as function pointers, the
choice of the device, the ring in memory, and what a panic does with them. `handed`
is the history of the characters handed to each function.

**Devices** (`MCLib`). A register of a pin port, of the USART or of the interrupt
controller is the set of its bits that are 1; each driver function rewrites
registers that also hold the settings of others.

**Descriptors** (`MCLib`). `memory_init()` writes descriptors from the memory map as
either linker script lays it out (`f9_flash.ld`, or `f9_sram.ld` for the loader); the
root thread and the applications read them.

**Messages**, **MsgSpec**, **Encodings** (`MCLib`). The user library's message and
string buffers and the registers they pass through; `MsgSpec` is the message as two
sequences, words and items, and the running library is shown to implement it.
`Encodings` has the words that one side packs and the other takes apart, as numbers.
(`L4_GlobalId()` is tried with 17 of the 18 bits of a thread number, and labels with 15
of 16, because TLC's integers end at 2^31.)

**Probes** (`MCProbes`). The probe list, kretprobes that move between a function and
its return address, the two pools of breakpoints, and the processor that runs into
them: exception, single step, exception. An interrupt may come during the step.

**Boot** and **Elf** (`MCBoot`, `BootProofs`). From reset through the loader, segments, clock and
hooks to the kernel thread. A hook stands for what it sets up and what it needs.
The order of hooks in the section, the content of RAM at power-on and the
oscillator's behaviour are arbitrary. `Elf` has the library's functions on a file; a
loop that looks for a least, a greatest or a first one is that number of a set.

**Apps** (`MCApps`). The root thread, `pingpong` and the IPC test of `l4test`: a thread
is a program of system calls and checks. This composes the user side with Ipc, with
thread creation and destruction, and with the scheduler's slots and the walk of
`thread_select()`. `ipc_deliver()` may run between any two calls. The test's last check
compares the sender with `L4_LocalIdOf()`, an uninitialised value in this library
(syscalls.c:36): its outcome is arbitrary (`StepLocal`), and `TestsPass` says instead that
the message came from the second thread.

## 3. Runs

| run | asks | result |
|---|---|---|
| `kernel` | is the softirq protocol safe under all interleavings, and is every system call served? | holds |
| `timer_expiry_lost` | is every expiry kept until its handler runs? | no: the flag is cleared after the handler |
| `ipc` | does one call make at most one transfer, does a blocked phase end only by a transfer or a timeout, do partners meet? | holds |
| `ipc_wrong_partner` | does a direct message go to a thread that waits for its sender? | no: only the receiver's state is tested |
| `ktimer` | are list, table and countdown consistent, and does the timer go on expiring? | holds |
| `threads` | are map, tree, selection and space counts right? | holds for disciplined callers |
| `uart` | is the receive queue a FIFO, does a busy UART become ready, and how much can it leave behind in the send queue? | holds |
| `memory` | are all pages accounted for, is exactly the area mapped, do the regions stay within the space, is a fault resolved? | holds |
| `lib` | does each library and driver do what its callers expect? | holds, within the limits below; the tickless clock until it slips |
| `probes` | does every probe have its breakpoint and get its hits? | holds unless a kretprobe is dropped |
| `boot` | is everything set up before it is used, is the image in place, does start-up end? | holds |
| `user` | do the applications of the repository work on this kernel? | holds in the order of `build.mk` |

A violated property is what a comment or document of the repository says, quoted
under `findings` in `PROJECT.json`.

Four more properties are stated in the modules and do not hold. Each is checked by
putting it into the `.cfg` of its module's run in place of the properties there:

- `TimeoutsRun` (KTimer): a thread that keeps sleeping for less than
  CONFIG_KTIMER_MINTICKS takes every expiry, because re-arming has no effect while the
  timer runs (ktimer.c:197), and another timeout never runs.
  `src/Documentation/ktimer.txt:40-41` says blocked threads can be unblocked "due to a
  timeout".
- `SentInOrder` (DbgUart): `queue_push()` advances the index before it stores the byte
  (lib/queue.c:30), and the interrupt handler can send the old content of the place.
- `FlushEnds` (DbgUart): `dbg_uart_start_panic()` empties the queue with the UART's
  interrupt enabled; thread and handler can carry the index past the end of the
  buffer, where it misses the wrap, and the flush never ends ("must be flushed out
  first", debug_device.c:52-55). Four printed bytes are enough.
- `RemovalEnds` (Memory): `remove_fpage_from_as()` also looks for the page on the list
  at `mpu_first`, which a fault may have made a cycle without the page (mpu.c:77);
  the comment at fpage.c:105 says "If fpage is not exist in as fpages list, does
  nothing".

The models show further behaviour that no run states as a property, because the
repository does not say plainly what should happen, or because it is a simple
case that one reads off the definition. In the kernel:

- `ipc_deliver()` gives a receiver the message of the thread it waits for, also
  when that thread is sending to a third one (`DeliverOne`).
- An overlong message leaves its sender in T_SVC_BLOCKED (`DoIpc`); a sleep that
  rounds to no tick, or finds the event table full, never ends (`SysIpcSleep`).
  `L4_Receive()` with a timeout only sleeps.
- `ktimer_event_schedule()` subtracts the elapsed part of the countdown where the
  example in its comment (ktimer.c:154-168) adds it (`EventSchedule`).
- `ktimer_enter_tickless()` can miscount. `reload` is unsigned, so `reload < 0`
  (ktimer.c:358) is never true, and a wake-up that finds a remainder no greater than the
  compensation plus one programs the longest period or none; the counter is read twice,
  and a tick may pass between the readings (`WakeSlips`). On entering, a tick that comes
  before the restart is counted twice, and a compensation greater than the cycles to go
  wraps (`EnterSlips`). The first three happen in the run, the last needs a compensation,
  which is 0 by default; `ClockExact` fails when any of the four is left out.
- A byte that is queued while the handler marks the UART ready stays in the queue until
  the next one is printed (`AtMostOneStranded`).
- A search for the id of the last thread deleted can find its free TCB
  (`ThreadByGlobalid`). A full thread table ends in a null pointer (`Fault`).
- A thread keeps its slot while it is runnable (`ScheduleSelect`), so threads of one
  priority do not take turns, although `src/README.md:49-50` says so. With `pingpong`
  first in the image its threads keep the slot between them and the test never
  starts (the last conjunct of `AppsProgress` fails for that order).
- A thread that destroys a thread above itself becomes its own parent and is no
  longer reached from root (`ThreadDestroy` with `Disciplined = FALSE`).
- Granting leaves the page with its giver (`MapFpage`), where `src/README.md:61`
  says it "cannot be used anymore by its former user".
- Mapping the beginning of a larger page goes on with a page that the second split
  has freed (`MapFound`). Removing a page that is not on the MPU's list writes
  through a null pointer, or reads through one when the list is empty
  (`RemoveFromMpu`): a thread that never ran cannot be removed safely.
- A stack that takes all regions makes `as_setup_mpu()` read behind its array
  (`AsSetupMpu`).
- `ktable_alloc_id()` and `ktable_is_allocated()` accept the index one past the last.
  In a bit-band build a table with 32 elements or more would hand elements out twice,
  since the cursor tells only 32 apart (`KTableAssumption` excludes it). An exception
  during a test-and-set makes `ktable_alloc()` skip a free element.
- A pool that starts off a page, as the core-coupled memory behind the bitmaps does,
  gets a descriptor that ends up to 255 bytes behind it (`Descriptor`).

In the debugging parts:

- `queue_length()` is wrong for a wrapped queue, so a full queue takes one more byte
  and then looks empty (`QueueLength`).
- The last entry of the device table is not initialised by `dbg_device_init()`, and
  the console in memory has no `getchar`: reading a key from it calls a null pointer.
- A kretprobe whose new place finds no free breakpoint is dropped silently
  (kprobes.c:104), and unregistering it later may release another's breakpoint. A
  handler that moves its own probe to the head can make `kprobe_prebreak()` call
  another probe twice. A branch or an interrupt during the step leaves the breakpoint
  disabled. A released software breakpoint stays in the code
  (breakpoint-soft.c:62).
- Samples beyond the last symbol are credited to it (`ksym_lookup`).
- The case `'%'` of `__l4_vprintf()` is never reached (stdio.c:147).

At start-up and at user level:

- Within one call of `run_init_hook()` hooks of different levels run in link order,
  where `src/Documentation/init-hooks.txt:15-16` says "Hooks are guaranteed to be called
  in order of init level" (`RunHook`).
- The panic over a missing oscillator comes before any console exists (`ClockPanic`).
- The loader prints the result of the ELF check and jumps anyway (`entry.c`).
- `irq.c:22` gives the debug UART priority 2 in a comment, `debug_uart.c:148` sets 15.
  `NVIC_SetPriority()` with the reset value of the priority group shifts by a negative
  number. USART rates below about 1282 baud overflow the rate register.
- Two empty receive strings cannot be told apart and a third overwrites one
  (`Tellable`). `L4_MsgGetStringItem()` never fills the caller's buffer. The kernel
  takes a map item's second word as a size where `L4_MapItem()` passes a flexpage.
  `L4_Address()` is right only from size 2^10 on, and `L4_TimePeriod(0)` is `L4_Never`.

## 4. Bounds

- `kernel`: root and one user TCB, one unread character, one sleep event of each
  thread. Root and the user thread are two clients that trap, which is what the
  races over `caller` and the slots need; the theorems of section 6 remove the
  bound for the safety properties.
- `ipc`: either three threads, so that a third party exists, without timeouts and
  overlong messages, or two threads with both and one table entry for sleep events, so
  that the table fills.
- `ktimer`: two sleepers beside the periodic event. `Mod` = 16 stands for 2^32,
  with `MinTicks` = 2 and `Period` = 6. The sleeping times 0, 1, 3, 5 and 7 lie on
  both sides of each, and give insertions before, between and behind the others,
  rounded distances, and differences that wrap.
- `threads`: three user threads are enough for a chain of two beside a sibling, the
  shape in which `thread_select()` has to climb. The view drops what is left in free
  entries, which disciplined calls never read.
- `uart`: queues of size 4 and up to four bytes each way, so that the indices wrap and
  the flush of a panic can go astray. `TxPending` and `RxPending` keep a queue from
  filling. `wire` records only the first `MaxTx` bytes, because a runaway index would
  send for ever. Without received bytes `BusyEnds` also holds for five printed bytes,
  and for six when nothing panics.
- `memory`: root and two more spaces, so that pages are mapped on and a table entry
  is used again; 64 addresses with a granule of two, where pages of two and four
  make splitting and chains happen; three regions, so that the MPU's list is longer
  than the MPU; 20 pages, so that the table can fill; five operations or faults
  (`MaxOps`) with switches between them, enough to create, map, fault, destroy and
  create again. `RegionsOfSpace` is the property most sensitive to this bound, because
  `as_create()` does not reset `mpu_first`. Random behaviours of up to 40 operations
  with two regions (four million states, behaviours that end the kernel left out)
  did not violate it either. The reason seems to be that only a space whose list is
  a cycle keeps a stale `mpu_first`, and destroying one does not end
  (`RemovalEnds`), so the property would have to be looked at again once that loop
  is repaired.
- `lib`: a behaviour exercises one part, chosen at the start; the parts share no
  state. A table of 8 elements (the proof has any number). `memset()` and `memcpy()`
  with every alignment and every length up to 72, past the longest unrolled loop (the
  proof has any length).
  Formats of two directives, numbers on both sides of each digit count, words of
  4 digits. A heartbeat of 6 cycles and a counter of 5 bits, so that idling needs several
  rounds of the counter; no wait begins after 22 cycles (`MaxReal`), time for several waits. Messages of 6 registers, 3 of them in the processor, and 7
  buffer registers: both kinds of register and a chain of strings occur. Periods
  around every power of two, which is where the mantissa of a time changes. Sections
  that are empty, that end off a page and that end on one. Pins in both halves of a
  port's registers, four driver calls. A ring of 3 characters and 5 printed.
- `probes`: two kprobes and a kretprobe on two breakpoints, one of them a comparator:
  fewer breakpoints than places, so that registrations fail. The program is a loop in
  flash that calls a function in RAM, and an interrupt handler.
- `boot`: the nine hooks of the kernel in every order, five files (no loader, no ELF
  file, a 64-bit one, and two with segments whose file part is shorter than memory),
  three polls of the oscillator.
- `user`: the programs as they are, with 4 message registers in place of
  `L4_NumMRs()`, which bounds the test's loops; each application alone, and both in
  the order of `user/apps/build.mk`.

## 5. Assumptions

Fairness.

- `kernel`: a pending exception is taken, and the thread on the CPU
  goes on. The hardware guarantees both.
- `ipc`: `ipc_deliver()` runs again and again; `beat` turns with every pass, and the
  specification says that it turns for ever. `KeepsExpiring` shows that the timer's
  handler runs again and again, but a single event may be starved by others
  (`TimeoutsRun`). So `Rendezvous` speaks of loads without such starvation. Nothing is
  assumed about calls or about expiry of sleeps.
- `ktimer`: ticks come, and the KTE softirq is run.
- `uart`: the transmitter sends, interrupts are taken, and a thread inside a function
  goes on. Nothing is assumed about starting to print or about receiving.
- `boot`: the processor goes on, and the PLL locks once its oscillator runs; that the
  oscillator starts is not assumed.
- `user`: the current thread goes on, and the periodic `ipc_deliver()` comes again and
  again. Which thread is current is the scheduler's choice, not fairness.

Discipline (`threads`). Callers create threads with unused ids while the tables
have room, name existing spaces, and destroy existing threads that are neither
themselves nor above them. The kernel checks none of this; section 3 says what
happens without it.

Requests (`memory`). `MapRequest`: an area is mapped to a space that has nothing of
it yet ("Not checks if as and this chain overlapping", fpage.c:59), and root hands
out areas that are wholly new to it or wholly there. The root thread keeps to both.
Areas lie on the granule. All pools have pages (no MP_NO_FPAGE).

Undefined behaviour (`memory`). `Outcomes` has the choices of a build for
`remove_fpage_from_list()`: the value of the uninitialised `end`, and whether a
write to address 0 (flash) faults. The runs take both outcomes of the write and zero
for `end`; with another value a removal drops all pages before the removed one.
The properties of `memory` speak of the time before the kernel comes to an end.

Images (`ImageAssumption`). A file that passes the loader's check was made by a linker
for this memory (`Linked`): segments lie in RAM and do not wrap around the address
space, none is longer in the file than in memory, and sections have names of their own.
The loader checks none of this. Threads (`TableAssumption`): the table has room for the
idle thread, root and one more.

Probes. `BreakpointsOwned` speaks of behaviours in which no kretprobe was dropped. All
instructions of the program have two bytes. Probes are registered and removed outside
of the exceptions. Tables (`KTableAssumption`): a multiple of eight elements, and in
the bit band fewer than the cursor tells apart. Debug UART (`DbgUartAssumption`): a byte
comes only while fewer than `RxPending` wait, so that the receive queue never fills.

Tickless (`TicklessAssumption`). A tick fits the counter, which is narrower than a word,
and is longer than the compensation and than the cycles between reading and restarting
the counter, `Gaps`. The run has one such time, as the compensation constants of the
configuration assume; the proof has any set of them.

Copies (`MemLibAssumption`). Addresses and lengths are natural numbers: an area does not
wrap around the address space. The areas of a `memcpy()` do not overlap, as its
`restrict` parameters say.

Timer. In KTimer a tick does not fall inside a handler; `timer_expiry_lost` shows
what one does at the worst place.

Deadlock is checked except in `uart`, where the console is idle once all bytes are
sent, in `memory`, where the kernel comes to an end or to the bound on operations,
in `boot`, which ends in the kernel thread, and in `lib`, whose calls return.

## 6. Proofs

`KernelProofs` proves, for any set of user threads and any bounds, the type
invariant, four invariants and an action property of Kernel. They are not inductive
by themselves. `KernelInv` adds what they rest on: the kernel thread holds the CPU
and is runnable from its first look at a flag until it unmasks interrupts; a raised
flag implies a runnable kernel thread or a point of `softirq_execute()` where the
scan is still to come; a selected thread that awaits the switch is still runnable;
a `caller` in service is blocked and no other thread can trap meanwhile. The proof
has one step for each action. Each theorem then follows from `KernelInv` by PTL.

It also proves `ClockExact` of Tickless for any length of a tick, any width of the
counter and any countdowns, from `TicklessAssumption`: the clock is exact until an entry
or a wake-up slips in one of the ways of section 3. `ClockInv` has one equation for
the running processor and one for the wait: in the wait the counter still has whole
ticks to go, `ticklessDelta` of them at first, which are not yet in `ktimer_now`, and
an enabled countdown is longer than that, so that `ktimer_delta` does not wrap. An early
end takes off the quotient of the counter by a tick, a late one the whole of
`ticklessDelta`; the remainder is what the counter is restarted with. `VerifyInv` says
that what `tickless_verify_start()` saved is one moment's clock and hardware timer, and
that the cycles lost since lie between the least and the most that the entries counted
so far can have lost. From it follow the records, and that the suggestion of
`tickless_verify_stat()` is right to a cycle only: the hardware timer counts every second
cycle, so a record is off by up to one, and the least record decides. With restarts of
two cycles, as in the run, it does come out a cycle too small.

`LibProofs` proves, for every buffer size, that the receive queue of DbgUart implements
`Fifo`, although the interrupt handler may push between any two of the three steps
of `queue_pop()`. `DbgUartAssumption` has `RxPending < Size - 1`: the line stays
quiet while `RxPending` bytes wait, so that the queue never fills. The buffer is a
ring of `Size - 1` places, since the last byte of the array is never used. `RxInv`
says that `top` leaves the ring only between its advance and its wrap, and that a
byte waiting in the receiver will find room. In the refinement a byte counts as
popped when it is loaded, not when `top` is advanced: until then its place must not
be filled again, and `RxInv` is what shows that.

It also proves `AtMostOneStranded` for every size of the send queue, also one that
overflows. `TxInv` says that while the UART is ready the handler leaves the send queue
alone, and that the thread is then before the advance with an empty queue, or past it
with at most the byte it has just put there: the UART became ready because the queue was
empty, and the thread goes on to print directly. Until the kernel panics: the flush moves
the same index as the handler.

It also proves `FillsExactly` of MemLib for every length and all alignments. `Copied`
says what a copy has done once its pointers have passed the first m bytes: those bytes
and no others are written, each from its place, nothing outside the source was read and
every word was aligned. `Stage` adds what each loop relies on. After the first loop the
source is aligned or nothing is left; in the aligned loop both ends are; and in the
shifted loops `w` is the aligned word that ends k bytes past `s`, k being the case of the
switch, and fewer than 32 bytes are left at the end, so that the tests of the five lowest
bits of n account for all of them. The reads ahead stay inside the source because a turn
asks for 16 + k bytes. `memset()` has no invariant: its stores are three sets, and three
lemmas say that the bytes cover what the words leave at both ends, and the words what
the double words leave.

The other modules are about loops and searches. The installed provers cannot
use an induction theorem with a predicate as its parameter, so `Induction` has
induction over sets of numbers: a set that holds 0, and with a number the next one,
has all of them up to n. A loop is a recursive function in its module; the proof
first shows by such an induction that the function satisfies its equation, and then,
by another, what the loop keeps.

`IpcProofs` proves three properties of Ipc for any number of threads, any size of
the event table and all kinds of message. `IInv` adds to `BlockedHasContext` that a
thread with a sleep event has a context, because `ipc_timeout()` makes its thread
runnable without a look at it. For a pass of `ipc_deliver()` the loop invariant
carries the transfers made so far: a thread that has sent is no longer in
T_SEND_BLOCKED when the pass meets it again, or has moved on to its receive phase,
from which it does not send. From `IpcAssumption`.

`ThreadsProofs` proves, for any sizes of the tables and any ids, `MapFindsAll` and
`SpacesCounted` under the hypothesis `Disciplined` (section 5), without which both are
false. `MapInv` says that the map's first `count` places are a sorted enumeration of
the TCBs in use; bisection on it is proved to find the first place not below an id,
by induction on the width of the interval, and insertion and removal to keep it.
`SpaceInv` needs the map, because a new thread finds the space it will share by its
owner's id.

It also proves `SelectFindsRunnable`: `thread_select()` returns a runnable thread
exactly when there is one. The walk follows pointers down, across and up, and the
links alone do not say that it ends or that it meets every thread. `TreeInv` therefore
adds an order that the code does not keep: there are numbers `lo` and `hi` for the
threads (`Numbered`) such that a thread's interval lies within its parent's and
before its next sibling's. `ThreadTreeProofs` shows that such numbers are left when a
thread is put at the end of its creator's children (`Attached`), and when one is taken
out and its own children are put before those of the caller (`Detached`), and that the
list starting at `child` has exactly the threads whose `parent` it is. Then every step of the walk goes to a greater `lo`,
so that it ends, and leaves out no thread in between (`WalkMeetsAll`).

`KTimerProofs` proves `ListMatchesTable` and `LeavesByRunning` for every word size,
every set of sleeping times and any number of events, from `KTimerAssumption`. The
strengthening is `Counting`: an enabled timer has a positive countdown, and one that
is off has `ktimer_time` 0. The second is what keeps `ktimer_event_schedule()` from
computing a first distance of zero ticks by the unsigned subtraction of the elapsed
time, and so from putting an event where the timer never looks.

It also proves that a kernel table implements `Pool`: without bit-band, as in the default
build, for every size, and with bit-band for tables of fewer elements than a word has bits
(`KTableAssumption`). Of the repository's tables in a bit-band build only that of the
address spaces (16) is; for those of the threads (32), the events (64) and the pages (256)
the theorem would be false (section 3). From `KTableAssumption` alone, three lemmas say that every
element has a bit, that `ktable_init()` clears the bits of all elements, and that the
loop of `ktable_alloc()` visits exactly those. With them `BitsAreHeld` (an element's
bit is set exactly while it has an owner) is inductive, and every call is a step of
the pool. It also proves `MemoryKeepsLast` of Console, for every buffer size.
`ConsoleAssumption` has the three builds that `dbg_dev_id_t` allows. `ConInv` says
that every entry of the table is one of the two registered devices, although the loop
of `dbg_device_init()` leaves the last one cleared, and that the ring's index is one
past the newest character, modulo the size.

`BootProofs` proves `InitBeforeUse` for any set of hooks. `HookAssumption` gives the
levels of the hooks that others depend on, as their INIT_HOOK() lines do, in a
build with CONFIG_DEBUG; other hooks may have any level but INIT_LEVEL_EARLIEST. A
hook at that level would run twice when RAM holds zero, since clearing .bss resets
`last_level`. `run_init_hook()` remembers the highest level it called, not the one it
was asked for; `Levels` says that the two part the hooks alike, and `HooksRan` that
the hooks called are those up to `last_level` and, during a call, those the loop has
passed. It also proves `ImageInPlace` for every image a linker may have made
(`ImageAssumption`), with any number of segments in any order. `Loaded(m)` says what RAM
holds after m turns of the loop of `elf_loadFile()`: at an address in the file part of
one of the first m segments a byte that one of them has there, elsewhere what was there
before. From the last of them the other views follow.

Only model-checked, and why:

- All liveness properties, which are out of the prover's reach.
- Memory, Sampling, Printf, Messages, Probes, Apps: what their
  recursions over lists, formats, programs and messages compute is induction over
  data, and the walks of Probes are RECURSIVE operators.
- Encodings and Devices: their fields are powers of two, about which the provers
  know nothing. Descriptors, for which no proof has been written.
- The type invariant of Ipc has a bound on the event table that no theorem states.

## 7. Not modelled

- `platform/spinlock.c`: compiled only with CONFIG_SMP, "for future use only".
- The other tests of `l4test` (`*.cc`): not built. The functions of the user library that
  use instructions of another processor (`bsf` in the CtrlXfer items) or call the
  stubs of system calls that this kernel does not have.
- The dumps of the debugger (threads, pools, spaces, softirqs, ELF headers): they read
  state and print it. `strcmp()` and its relatives: where the ELF library compares
  names, the model has equality.
- Constants of the hardware: register addresses, the factors of the PLL, the constant
  part of the KIP. `external/kconfig` and `mk/`: build time.
- Access permissions of pages and regions, the layout of a new thread's stack frame,
  and error codes that the kernel never reads.
- The composition of Ipc with arbitrary destruction of threads: `ipc_deliver()` then
  reads through a null pointer, and what it finds is the content of address 0.
  `Apps` has the destructions that the applications do.
