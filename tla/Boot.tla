-------------------------------- MODULE Boot --------------------------------
(***************************************************************************)
(* From reset to the kernel thread: the loader that copies the kernel's ELF *)
(* image (loader/entry.c, loader/elf), the start-up code (kernel/start.c),  *)
(* the clock (platform/stm32f4/rcc.c) and the init hooks (kernel/init.c).   *)
(* A hook is a function of another component: here it stands for what it    *)
(* sets up and for what it needs to have been set up before.                *)
(***************************************************************************)
EXTENDS Elf, FiniteSets

CONSTANTS HookLevel,     \* the section .init_hook: hook -> level
          Images,        \* the ELF files considered, without and with a loader
          Ram,           \* the addresses of RAM
          HseTimeout     \* HSE_STARTUP_TIMEOUT, scaled

EARLIEST == 1            \* enum init_levels, scaled
PLATFORM_EARLY == 10
PLATFORM == 20
KERNEL_EARLY == 30
KERNEL == 40
LAST == 255

VARIABLES image,         \* the file at 0x800c000; its field loader: CONFIG_LOADER
          ram,           \* address -> the byte of the file copied there
          pc, sub,       \* line of the script below, and how far within it
          last_level,    \* kernel/init.c
          maxCalled, todo,  \* run_init_hook(): max_called_level, hooks still ahead
          ran,           \* the hooks that have run, in order
          ready,         \* what has been set up
          missing        \* what was used though it was not, and by whom

vars == <<image, ram, pc, sub, last_level, maxCalled, todo, ran, ready, missing>>

Hooks == DOMAIN HookLevel

\* What the INIT_HOOK()s of the kernel say; a build may have more of them, at any
\* level but the one that is run before .bss is cleared.
ASSUME HookAssumption ==
  /\ \A h \in Hooks : HookLevel[h] \in EARLIEST + 1 .. LAST
  /\ "dbg_device_init_hook" \in Hooks /\ HookLevel["dbg_device_init_hook"] = PLATFORM
  /\ \A h \in {"sched_init", "memory_init"} : h \in Hooks /\ HookLevel[h] = KERNEL_EARLY
  /\ \A h \in {"thread_init_subsys", "ktimer_event_init", "syscall_init"} :
       h \in Hooks /\ HookLevel[h] = KERNEL
  /\ "kdb_init" \in Hooks => HookLevel["kdb_init"] = KERNEL

\* What a linker sees to: segments lie in RAM and in the 32-bit address space, are
\* no longer in the file than in memory, and sections have names of their own.
Linked(f) ==
  /\ elf32_getNumProgramHeaders(f) \in Nat
  /\ \A ph \in 0 .. elf32_getNumProgramHeaders(f) - 1 :
       LET h == Header(f, ph)
       IN  /\ h.p_paddr \in Nat /\ h.p_vaddr \in Nat /\ h.p_offset \in Nat
           /\ h.p_filesz \in Nat /\ h.p_memsz \in Nat /\ h.p_filesz <= h.p_memsz
           /\ h.p_paddr + h.p_memsz <= UINT32_MAX /\ h.p_vaddr + h.p_memsz <= UINT32_MAX
           /\ h.p_paddr .. h.p_paddr + h.p_memsz - 1 \subseteq Ram
  /\ f.e_shstrndx # 0 =>
       \A s, t \in 0 .. elf32_getNumSections(f) - 1 :
         elf32_getSectionName(f, s) = elf32_getSectionName(f, t) => s = t

ASSUME ImageAssumption ==
  /\ Ram \subseteq Int /\ UINT32_MAX \in Nat
  /\ \A f \in Images : f.loader \in BOOLEAN /\ (f.loader /\ elf32_checkFile(f) = 0 => Linked(f))

MaxOf(a, b) == IF a > b THEN a ELSE b

-----------------------------------------------------------------------------
(* The order of the start-up: functions called, and levels of init hooks *)

Fn(f) == [fn |-> f, level |-> 0]
Level(l) == [fn |-> "run_init_hook", level |-> l]

__loader_start == <<Fn("loader_segments"), Fn("sys_clock_init"), Fn("irq_init"),
                    Fn("dbg_uart_init"), Fn("elf_loadFile"), Fn("kernel_entry")>>

__l4_start == <<Level(EARLIEST), Fn("segments"), Fn("sys_clock_init"),
                Level(PLATFORM_EARLY), Fn("irq_init"), Level(PLATFORM), Fn("banner"),
                Level(KERNEL_EARLY), Level(KERNEL),
                Fn("create_idle_thread"), Fn("create_root_thread"),
                Fn("ktimer_event_create"), Fn("mpu_enable"), Level(LAST),
                Fn("switch_to_kernel")>>

Script == (IF image.loader THEN __loader_start ELSE <<>>) \o __l4_start
Running == pc \in DOMAIN Script
At(f) == Running /\ Script[pc].fn = f
Advance == pc' = pc + 1 /\ sub' = 0

\* The functions above are no hooks.
ASSUME CalledAssumption ==
  Hooks \cap ({__loader_start[i].fn : i \in DOMAIN __loader_start}
               \cup {__l4_start[i].fn : i \in DOMAIN __l4_start} \cup {"panic"}) = {}

Panicked == 0            \* pc after panic()
Lost == -1               \* pc after a jump to address 0

Provides(f) == CASE f = "sys_clock_init" -> {"clock"}
                 [] f = "irq_init" -> {"priorities"}
                 [] f \in {"dbg_uart_init", "dbg_device_init_hook"} -> {"console"}
                 [] f = "sched_init" -> {"slots"}
                 [] f = "memory_init" -> {"fpages", "spaces"}
                 [] f = "thread_init_subsys" -> {"threads"}
                 [] f = "ktimer_event_init" -> {"ktimer"}
                 [] f = "syscall_init" -> {"syscalls"}
                 [] OTHER -> {}

\* thread_init_subsys() assigns flexible pages and enters itself into a slot that
\* sched_init() clears; kdb_init() prints; the UART derives its rate from the clock.
Uses(f) ==
  (IF f \in Hooks \cup {"banner"} THEN {"bss", "data"} ELSE {})
  \cup CASE f \in {"dbg_uart_init", "dbg_device_init_hook"} -> {"clock", "priorities"}
         [] f = "thread_init_subsys" -> {"fpages", "slots"}
         [] f = "create_idle_thread" -> {"threads", "slots"}
         [] f = "create_root_thread" -> {"threads", "slots", "spaces", "fpages"}
         [] f = "ktimer_event_create" -> {"ktimer"}
         [] f = "switch_to_kernel" -> {"threads", "slots", "syscalls"}
         [] f \in {"panic", "elf_loadFile", "kdb_init", "banner"} -> {"console"}
         [] OTHER -> {}

Use(f) == missing' = missing \cup {<<f, u>> : u \in Uses(f) \ ready}
Perform(f) == Use(f) /\ ready' = ready \cup Provides(f)

-----------------------------------------------------------------------------
(* run_init_hook(), at a line of the script with a level *)

\* last_level is in .bss: before the segments are set up it may hold anything.
EnterHooks ==
  /\ At("run_init_hook") /\ sub = 0
  /\ sub' = 1 /\ todo' = Hooks /\ maxCalled' = last_level
  /\ UNCHANGED <<image, ram, pc, last_level, ran, ready, missing>>

Due(h) == HookLevel[h] > last_level /\ HookLevel[h] <= Script[pc].level

\* The order of the section is the linker's; hooks that are not due are passed over.
RunHook(h) ==
  /\ At("run_init_hook") /\ sub = 1 /\ h \in todo /\ Due(h)
  /\ todo' = todo \ {h} /\ maxCalled' = MaxOf(maxCalled, HookLevel[h])
  /\ ran' = Append(ran, h) /\ Perform(h)
  /\ UNCHANGED <<image, ram, pc, sub, last_level>>

\* A bug: last_level is left as it is.
LeaveHooks_stay ==
  /\ At("run_init_hook") /\ sub = 1 /\ \A h \in todo : ~Due(h)
  /\ Advance /\ UNCHANGED <<image, ram, last_level, maxCalled, todo, ran, ready, missing>>
LeaveHooks ==
  /\ At("run_init_hook") /\ sub = 1 /\ \A h \in todo : ~Due(h)
  /\ last_level' = maxCalled /\ Advance
  /\ UNCHANGED <<image, ram, maxCalled, todo, ran, ready, missing>>

-----------------------------------------------------------------------------
(* kernel/start.c, platform/stm32f4/rcc.c *)

\* Without a loader .data is copied; .bss, last_level included, is cleared.
Segments ==
  /\ At("segments")
  /\ ready' = ready \cup {"bss"} \cup (IF image.loader THEN {} ELSE {"data"})
  /\ last_level' = 0 /\ Advance
  /\ UNCHANGED <<image, ram, maxCalled, todo, ran, missing>>

\* A bug: a turn of the loop is not counted.
PollHse_uncounted(rdy) ==
  /\ At("sys_clock_init") /\ sub < HseTimeout
  /\ sub' = IF rdy THEN HseTimeout + 1 ELSE sub
  /\ UNCHANGED <<image, ram, pc, last_level, maxCalled, todo, ran, ready, missing>>

\* sys_clock_init(): the oscillator is polled HseTimeout times at most ...
PollHse(rdy) ==
  /\ At("sys_clock_init") /\ sub < HseTimeout
  /\ sub' = IF rdy THEN HseTimeout + 1 ELSE sub + 1
  /\ UNCHANGED <<image, ram, pc, last_level, maxCalled, todo, ran, ready, missing>>

\* ... looked at once more, and its absence is a panic.
ClockPanic ==
  /\ At("sys_clock_init") /\ sub = HseTimeout
  /\ pc' = Panicked /\ Use("panic")
  /\ UNCHANGED <<image, ram, sub, last_level, maxCalled, todo, ran, ready>>

\* The PLL is waited for without a limit.
PllReady ==
  /\ At("sys_clock_init") /\ sub >= HseTimeout
  /\ Advance /\ Perform("sys_clock_init")
  /\ UNCHANGED <<image, ram, last_level, maxCalled, todo, ran>>

Simple == {"loader_segments", "irq_init", "dbg_uart_init", "banner", "create_idle_thread",
           "create_root_thread", "ktimer_event_create", "mpu_enable", "switch_to_kernel"}
Step == /\ Running /\ Script[pc].fn \in Simple
        /\ Perform(Script[pc].fn) /\ Advance
        /\ UNCHANGED <<image, ram, last_level, maxCalled, todo, ran>>

-----------------------------------------------------------------------------
(* loader/entry.c, loader/elf *)

\* A bug: the size in memory is copied.
CopyLen_mem(ph) == elf_getProgramHeaderMemorySize(image, ph)
CopyLen(ph) == elf_getProgramHeaderFileSize(image, ph)

Loadable == elf32_checkFile(image) = 0

\* One turn of the loop of elf_loadFile(): the bytes that a segment has in the file.
LoadSegment ==
  /\ At("elf_loadFile") /\ Loadable /\ sub < elf32_getNumProgramHeaders(image)
  /\ LET dest == elf_getProgramHeaderPaddr(image, sub)
         src == elf_getProgramHeaderOffset(image, sub)
     IN  ram' = [a \in DOMAIN ram |->
                   IF a \in dest .. dest + CopyLen(sub) - 1 THEN src + a - dest ELSE ram[a]]
  /\ sub' = sub + 1
  /\ UNCHANGED <<image, pc, last_level, maxCalled, todo, ran, ready, missing>>

LoadDone ==
  /\ At("elf_loadFile") /\ (Loadable => sub = elf32_getNumProgramHeaders(image))
  /\ ready' = IF Loadable THEN ready \cup {"data"} ELSE ready
  /\ Use("elf_loadFile") /\ Advance
  /\ UNCHANGED <<image, ram, last_level, maxCalled, todo, ran>>

\* The result of the check is printed, not obeyed: the entry of a file that fails it
\* is 0, which is no code.  The kernel sets up its own clock, priorities and devices.
kernel_entry ==
  /\ At("kernel_entry")
  /\ IF Loadable /\ elf32_getEntryPoint(image) # 0 THEN Advance ELSE pc' = Lost /\ UNCHANGED sub
  /\ ready' = ready \cap {"data"}
  /\ UNCHANGED <<image, ram, last_level, maxCalled, todo, ran, missing>>

-----------------------------------------------------------------------------
Init ==
  /\ image \in Images
  /\ ram = [a \in Ram |-> -1]
  /\ pc = 1 /\ sub = 0 /\ ran = <<>> /\ ready = {} /\ missing = {}
  /\ last_level \in {0, KERNEL} /\ maxCalled = 0 /\ todo = {}

Code == \/ EnterHooks \/ (\E h \in Hooks : RunHook(h)) \/ LeaveHooks
        \/ Segments \/ Step \/ ClockPanic \/ PllReady \/ LoadSegment \/ LoadDone \/ kernel_entry
Next == Code \/ \E rdy \in BOOLEAN : PollHse(rdy)

\* The processor goes on, and the PLL locks when its oscillator runs; that the
\* oscillator ever starts is not assumed.
Spec == Init /\ [][Next]_vars /\ WF_vars(Code) /\ WF_vars(PollHse(FALSE))

-----------------------------------------------------------------------------
Done == pc > Len(Script)

\* Whatever order the linker gives the hooks, and whatever RAM holds at power-on,
\* no function of the start-up runs before what it uses has been set up (but for
\* the panic over a missing oscillator, whose message has no device yet), and each
\* hook runs once on the way to the kernel thread: none is skipped or repeated
\* though run_init_hook() is called once before .bss, with its last_level, is
\* cleared.
InitBeforeUse ==
  /\ missing \subseteq {<<"panic", "console">>}
  /\ \A i, j \in DOMAIN ran : ran[i] = ran[j] => i = j
  /\ Done => {ran[i] : i \in DOMAIN ran} = Hooks

Segs == 0 .. elf32_getNumProgramHeaders(image) - 1

\* The bytes of the file that are to be at an address.
Bytes(a) == {elf_getProgramHeaderOffset(image, i) + a - elf_getProgramHeaderPaddr(image, i) :
               i \in {i \in Segs : a \in elf_getProgramHeaderPaddr(image, i) ..
                        elf_getProgramHeaderPaddr(image, i) + elf_getProgramHeaderFileSize(image, i) - 1}}

\* When the kernel's code runs, the bytes of the file are where its program headers
\* say, and nothing else in RAM was touched (elf_loadFile(); the zeroes behind the
\* data are left to __l4_start()).  The library's other views agree with what was
\* loaded: it lies within elf_getMemoryBounds(), elf_vtopProgramHeader() leads from
\* an address of a segment to its byte, and sections are found by their names.
ImageInPlace ==
  image.loader /\ pc > Len(__loader_start) =>
    /\ \A a \in DOMAIN ram : IF Bytes(a) = {} THEN ram[a] = -1 ELSE ram[a] \in Bytes(a)
    /\ \A a \in DOMAIN ram : ram[a] # -1 =>
         a \in elf_getMemoryBounds(image, TRUE).min .. elf_getMemoryBounds(image, TRUE).max - 1
    /\ \A i \in Segs, v \in elf_getMemoryBounds(image, FALSE).min
                              .. elf_getMemoryBounds(image, FALSE).max - 1 :
         elf_vaddrInProgramHeader(image, i, v) =>
           LET a == elf_vtopProgramHeader(image, i, v)
           IN  ram[a] \in Bytes(a) \cup {-1}
                 /\ (ram[a] = -1 => v >= elf_getProgramHeaderVaddr(image, i)
                                           + elf_getProgramHeaderFileSize(image, i))
    /\ \A s \in 0 .. elf32_getNumSections(image) - 1 :
         image.e_shstrndx # 0 =>
           elf32_getSectionNamed(image, elf32_getSectionName(image, s)) = elf32_getSection(image, s)

\* The start-up comes to an end: in the kernel thread, in panic(), or at address 0
\* when the loader finds no ELF file.
BootEnds == <>(~Running)
=============================================================================
