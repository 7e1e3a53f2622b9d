----------------------------- MODULE BootProofs -----------------------------
(***************************************************************************)
(* The order of the start-up, for any set of init hooks and any order the  *)
(* linker gives them.  The work is in run_init_hook(): what it remembers   *)
(* is the highest level of a hook it called, not the level it was asked    *)
(* for, so the invariant says that the two part the hooks alike.           *)
(* Then the loader, for any image that a linker may have made: the loop    *)
(* over its segments, and what the ELF library says of them.               *)
(***************************************************************************)
EXTENDS Boot, Induction

Off == IF image.loader THEN 6 ELSE 0
K == pc - Off            \* the line of __l4_start()

\* The level asked for by the calls of run_init_hook() that are complete at a line,
\* not counting the one before .bss is cleared.
Reached(k) == IF k <= 4 THEN 0 ELSE IF k <= 6 THEN PLATFORM_EARLY
              ELSE IF k <= 8 THEN PLATFORM ELSE IF k <= 9 THEN KERNEL_EARLY
              ELSE IF k <= 14 THEN KERNEL ELSE LAST
Asked(k) == IF k = 1 THEN EARLIEST ELSE Reached(k + 1)

Place == /\ image \in Images /\ image.loader \in BOOLEAN
         /\ pc \in -1 .. Off + 16

InHooks == K \in {4, 6, 8, 9, 14} /\ sub = 1
Called(h) == \E i \in DOMAIN ran : ran[i] = h

\* The lines of the loader.
LoaderInv ==
  /\ ran = <<>>
  /\ pc >= 3 => "clock" \in ready
  /\ pc >= 4 => "priorities" \in ready
  /\ pc >= 5 => "console" \in ready
  /\ pc = 6 /\ Loadable => "data" \in ready

\* The lines of __l4_start() up to the clearing of .bss.
EarlyInv ==
  /\ ran = <<>>
  /\ image.loader => "data" \in ready

SetUp ==
  /\ "bss" \in ready /\ "data" \in ready
  /\ K >= 4 => "clock" \in ready
  /\ K >= 6 => "priorities" \in ready
  /\ \A h \in Hooks : Called(h) => Provides(h) \subseteq ready

Levels ==
  /\ last_level \in Int /\ 0 <= last_level /\ last_level <= Reached(K)
  /\ \A h \in Hooks : HookLevel[h] <= Reached(K) => HookLevel[h] <= last_level

CallInv ==
  /\ todo \subseteq Hooks /\ maxCalled \in Int
  /\ last_level <= maxCalled /\ maxCalled <= Asked(K)
  /\ \A h \in Hooks \ todo : /\ last_level < HookLevel[h] /\ HookLevel[h] <= maxCalled
                             /\ HookLevel[h] <= Asked(K)

HooksRan ==
  \A h \in Hooks : Called(h) <=> HookLevel[h] <= last_level \/ (InHooks /\ h \notin todo)

Once == ran \in Seq(Hooks) /\ \A i, j \in DOMAIN ran : ran[i] = ran[j] => i = j

LateInv == SetUp /\ Levels /\ (InHooks => CallInv) /\ HooksRan

IInv ==
  /\ Place
  /\ missing \subseteq {<<"panic", "console">>}
  /\ Once
  /\ pc \in 1 .. Off => LoaderInv
  /\ K \in 1 .. 2 => EarlyInv
  /\ K \in 3 .. 16 => LateInv

-----------------------------------------------------------------------------
(* The lines of the script *)

LEMMA LoaderLines ==
  /\ Len(__loader_start) = 6 /\ DOMAIN __loader_start = 1 .. 6
  /\ __loader_start[1].fn = "loader_segments" /\ __loader_start[2].fn = "sys_clock_init"
  /\ __loader_start[3].fn = "irq_init" /\ __loader_start[4].fn = "dbg_uart_init"
  /\ __loader_start[5].fn = "elf_loadFile" /\ __loader_start[6].fn = "kernel_entry"
  BY DEF __loader_start, Fn

LEMMA StartLines ==
  /\ Len(__l4_start) = 15 /\ DOMAIN __l4_start = 1 .. 15
  /\ \A k \in {1, 4, 6, 8, 9, 14} :
       __l4_start[k].fn = "run_init_hook" /\ __l4_start[k].level = Asked(k)
  /\ __l4_start[2].fn = "segments" /\ __l4_start[3].fn = "sys_clock_init"
  /\ __l4_start[5].fn = "irq_init" /\ __l4_start[7].fn = "banner"
  /\ __l4_start[10].fn = "create_idle_thread" /\ __l4_start[11].fn = "create_root_thread"
  /\ __l4_start[12].fn = "ktimer_event_create" /\ __l4_start[13].fn = "mpu_enable"
  /\ __l4_start[15].fn = "switch_to_kernel"
  BY DEF __l4_start, Fn, Level, Asked, Reached, EARLIEST, PLATFORM_EARLY, PLATFORM,
         KERNEL_EARLY, KERNEL, LAST

LEMMA FunctionIsSeq ==
  ASSUME NEW S, NEW n \in Nat, NEW f, f = [i \in 1 .. n |-> f[i]], \A i \in 1 .. n : f[i] \in S
  PROVE  f \in Seq(S)
  OBVIOUS

Joined(u, s, m, t, n) ==
  /\ DOMAIN u = 1 .. m + n /\ Len(u) = m + n
  /\ \A i \in 1 .. m : u[i] = s[i]
  /\ \A i \in 1 .. n : u[m + i] = t[i]

LEMMA Concatenated ==
  ASSUME NEW S, NEW s \in Seq(S), NEW t \in Seq(S)
  PROVE  Joined(s \o t, s, Len(s), t, Len(t))
  BY DEF Joined

LEMMA ScriptLines ==
  ASSUME Place
  PROVE  /\ DOMAIN Script = 1 .. Off + 15 /\ Len(Script) = Off + 15
         /\ \A i \in 1 .. Off : Script[i] = __loader_start[i]
         /\ \A k \in 1 .. 15 : Script[Off + k] = __l4_start[k]
  <1> DEFINE S == {__loader_start[i] : i \in 1 .. 6} \cup {__l4_start[i] : i \in 1 .. 15}
  <1>1. __l4_start \in Seq(S)
    <2>1. __l4_start = [i \in 1 .. 15 |-> __l4_start[i]] BY DEF __l4_start
    <2>2. \A i \in 1 .. 15 : __l4_start[i] \in S OBVIOUS
    <2> HIDE DEF S
    <2> QED BY <2>1, <2>2, FunctionIsSeq
  <1>2. __loader_start \in Seq(S)
    <2>1. __loader_start = [i \in 1 .. 6 |-> __loader_start[i]] BY DEF __loader_start
    <2>2. \A i \in 1 .. 6 : __loader_start[i] \in S OBVIOUS
    <2> HIDE DEF S
    <2> QED BY <2>1, <2>2, FunctionIsSeq
  <1>3. Len(__loader_start) = 6 /\ Len(__l4_start) = 15 BY LoaderLines, StartLines
  <1>4. CASE image.loader
    <2>1. Script = __loader_start \o __l4_start BY <1>4 DEF Script
    <2>2. /\ DOMAIN Script = 1 .. 21 /\ Len(Script) = 21
          /\ \A i \in 1 .. 6 : Script[i] = __loader_start[i]
          /\ \A i \in 1 .. 15 : Script[6 + i] = __l4_start[i]
      <3> HIDE DEF S
      <3>1. Joined(Script, __loader_start, Len(__loader_start), __l4_start, Len(__l4_start))
        BY <1>1, <1>2, <2>1, Concatenated, Zenon
      <3>2. Joined(Script, __loader_start, 6, __l4_start, 15) BY <1>3, <3>1
      <3> QED BY <3>2 DEF Joined
    <2>3. Off = 6 BY <1>4 DEF Off
    <2> QED BY <2>2, <2>3
  <1>5. CASE ~image.loader
    <2>1. Script = <<>> \o __l4_start BY <1>5 DEF Script
    <2>3. Script = __l4_start BY <1>1, <2>1
    <2>4. Off = 0 BY <1>5 DEF Off
    <2> QED BY <1>1, <1>3, <2>3, <2>4, StartLines
  <1> QED BY <1>4, <1>5

LEMMA LineFacts ==
  ASSUME Place
  PROVE  /\ Running => \/ pc \in 1 .. 6 /\ Off = 6 /\ image.loader /\ Script[pc] = __loader_start[pc]
                       \/ K \in 1 .. 15 /\ Script[pc] = __l4_start[K]
         /\ Off \in {0, 6} /\ pc \in Int
         /\ Done => K = 16
  <1>1. Off \in {0, 6} /\ (Off = 6 => image.loader) /\ pc \in Int /\ pc <= Off + 16
    BY DEF Off, Place
  <1>2. ASSUME Running
        PROVE  \/ pc \in 1 .. 6 /\ Off = 6 /\ image.loader /\ Script[pc] = __loader_start[pc]
               \/ K \in 1 .. 15 /\ Script[pc] = __l4_start[K]
    <2>1. pc \in 1 .. Off + 15 BY <1>2, ScriptLines DEF Running
    <2>2. CASE pc <= Off
      <3>1. Off = 6 /\ pc \in 1 .. 6 BY <1>1, <2>1, <2>2
      <3>2. Script[pc] = __loader_start[pc] BY <3>1, ScriptLines
      <3> QED BY <1>1, <3>1, <3>2
    <2>3. CASE pc > Off
      <3>1. K \in 1 .. 15 /\ Off + K = pc BY <1>1, <2>1, <2>3 DEF K
      <3> QED BY <3>1, ScriptLines
    <2>4. pc <= Off \/ pc > Off BY <1>1
    <2> QED BY <2>2, <2>3, <2>4
  <1>3. Done => K = 16 BY <1>1, ScriptLines DEF Done, K
  <1> QED BY <1>1, <1>2, <1>3

\* Where a function is called.
Sites ==
  /\ At("run_init_hook") => K \in {1, 4, 6, 8, 9, 14} /\ Script[pc].level = Asked(K)
  /\ At("segments") => K = 2
  /\ At("sys_clock_init") => K = 3 \/ (pc = 2 /\ Off = 6)
  /\ At("elf_loadFile") => pc = 5 /\ Off = 6
  /\ At("kernel_entry") => pc = 6 /\ Off = 6 /\ image.loader
  /\ At("loader_segments") => pc = 1 /\ Off = 6
  /\ At("irq_init") => K = 5 \/ (pc = 3 /\ Off = 6)
  /\ At("dbg_uart_init") => pc = 4 /\ Off = 6
  /\ At("banner") => K = 7
  /\ At("create_idle_thread") => K = 10
  /\ At("create_root_thread") => K = 11
  /\ At("ktimer_event_create") => K = 12
  /\ At("mpu_enable") => K = 13
  /\ At("switch_to_kernel") => K = 15

LEMMA CallSites == Place => Sites
  <1> SUFFICES ASSUME Place PROVE Sites OBVIOUS
  <1> SUFFICES ASSUME Running PROVE Sites BY DEF At, Sites
  <1>1. CASE pc \in 1 .. 6 /\ Off = 6 /\ image.loader /\ Script[pc] = __loader_start[pc]
    BY <1>1, LoaderLines DEF At, Sites
  <1>2. CASE K \in 1 .. 15 /\ Script[pc] = __l4_start[K]
    <2>1. K \in {1, 4, 6, 8, 9, 14} \cup {2, 3, 5, 7, 10, 11, 12, 13, 15} BY <1>2
    <2> QED BY <1>2, <2>1, StartLines DEF At, Sites
  <1> QED BY <1>1, <1>2, LineFacts

-----------------------------------------------------------------------------
(* Hooks *)

LEMMA NotHooks ==
  \A h \in Hooks : h \notin {"panic", "elf_loadFile", "banner", "dbg_uart_init",
                          "create_idle_thread", "create_root_thread",
                          "ktimer_event_create", "switch_to_kernel"}
  <1> SUFFICES ASSUME NEW h \in Hooks
               PROVE  h \notin {"panic", "elf_loadFile", "banner", "dbg_uart_init",
                                "create_idle_thread", "create_root_thread",
                                "ktimer_event_create", "switch_to_kernel"}
    OBVIOUS
  <1>1. /\ h # "panic" /\ (\A i \in 1 .. 6 : h # __loader_start[i].fn)
        /\ (\A i \in 1 .. 15 : h # __l4_start[i].fn)
    BY CalledAssumption, LoaderLines, StartLines
  <1>2. h # "elf_loadFile" /\ h # "dbg_uart_init" BY <1>1, LoaderLines
  <1>3. /\ h # "banner" /\ h # "create_idle_thread" /\ h # "create_root_thread"
        /\ h # "ktimer_event_create" /\ h # "switch_to_kernel"
    BY <1>1, StartLines
  <1> QED BY <1>1, <1>2, <1>3

LEMMA Appended ==
  ASSUME NEW r \in Seq(Hooks), NEW h \in Hooks, \A i \in DOMAIN r : r[i] # h,
         \A i, j \in DOMAIN r : r[i] = r[j] => i = j
  PROVE  /\ Append(r, h) \in Seq(Hooks)
         /\ \A i, j \in DOMAIN Append(r, h) : Append(r, h)[i] = Append(r, h)[j] => i = j
         /\ \A g : (\E i \in DOMAIN Append(r, h) : Append(r, h)[i] = g)
                    <=> g = h \/ \E i \in DOMAIN r : r[i] = g
  <1>1. /\ DOMAIN r = 1 .. Len(r) /\ Len(r) \in Nat
        /\ DOMAIN Append(r, h) = 1 .. Len(r) + 1
        /\ Append(r, h)[Len(r) + 1] = h
        /\ \A i \in 1 .. Len(r) : Append(r, h)[i] = r[i]
    OBVIOUS
  <1>2. \A i \in DOMAIN Append(r, h) : i \in DOMAIN r \/ i = Len(r) + 1 BY <1>1
  <1>3. Append(r, h) \in Seq(Hooks) OBVIOUS
  <1> QED BY <1>1, <1>2, <1>3

LEMMA LevelTable ==
  /\ Asked(4) = 10 /\ Asked(6) = 20 /\ Asked(8) = 30 /\ Asked(9) = 40 /\ Asked(14) = 255
  /\ Reached(4) = 0 /\ Reached(6) = 10 /\ Reached(8) = 20 /\ Reached(9) = 30 /\ Reached(14) = 40
  BY DEF Asked, Reached, PLATFORM_EARLY, PLATFORM, KERNEL_EARLY, KERNEL, LAST

LEMMA LevelTypes ==
  /\ \A h \in Hooks : HookLevel[h] \in Int /\ 2 <= HookLevel[h] /\ HookLevel[h] <= 255
  /\ \A k \in Int : Reached(k) \in Int /\ 0 <= Reached(k)
  /\ \A k \in {4, 6, 8, 9, 14} : Asked(k) = Reached(k + 1) /\ Reached(k) <= Asked(k)
  /\ Asked(1) = 1
  <1>1. \A h \in Hooks : HookLevel[h] \in Int /\ 2 <= HookLevel[h] /\ HookLevel[h] <= 255
    BY HookAssumption DEF EARLIEST, LAST
  <1>2. \A k \in Int : Reached(k) \in Int /\ 0 <= Reached(k)
    BY DEF Reached, PLATFORM_EARLY, PLATFORM, KERNEL_EARLY, KERNEL, LAST
  <1>3. \A k \in {4, 6, 8, 9, 14} : Asked(k) = Reached(k + 1) /\ Reached(k) <= Asked(k)
    BY DEF Asked, Reached, PLATFORM_EARLY, PLATFORM, KERNEL_EARLY, KERNEL, LAST
  <1>4. Asked(1) = 1 BY DEF Asked, EARLIEST
  <1> QED BY <1>1, <1>2, <1>3, <1>4

\* A hook of a level that was asked for has run.
LEMMA AskedHasRun ==
  ASSUME LateInv, NEW h \in Hooks, HookLevel[h] <= Reached(K)
  PROVE  Called(h) /\ Provides(h) \subseteq ready
  <1>1. HookLevel[h] <= last_level BY DEF LateInv, Levels
  <1>2. Called(h) BY <1>1 DEF LateInv, HooksRan
  <1> QED BY <1>2 DEF LateInv, SetUp

LEMMA EarlyHooks ==
  ASSUME LateInv, K \in Int
  PROVE  /\ 20 <= Reached(K) => "console" \in ready
         /\ 30 <= Reached(K) => {"slots", "fpages", "spaces"} \subseteq ready
         /\ 40 <= Reached(K) => {"threads", "ktimer", "syscalls"} \subseteq ready
  <1>1. /\ "dbg_device_init_hook" \in Hooks /\ HookLevel["dbg_device_init_hook"] = 20
        /\ "sched_init" \in Hooks /\ HookLevel["sched_init"] = 30
        /\ "memory_init" \in Hooks /\ HookLevel["memory_init"] = 30
        /\ "thread_init_subsys" \in Hooks /\ HookLevel["thread_init_subsys"] = 40
        /\ "ktimer_event_init" \in Hooks /\ HookLevel["ktimer_event_init"] = 40
        /\ "syscall_init" \in Hooks /\ HookLevel["syscall_init"] = 40
    BY HookAssumption DEF PLATFORM, KERNEL_EARLY, KERNEL
  <1>2. /\ Provides("dbg_device_init_hook") = {"console"} /\ Provides("sched_init") = {"slots"}
        /\ Provides("memory_init") = {"fpages", "spaces"}
        /\ Provides("thread_init_subsys") = {"threads"}
        /\ Provides("ktimer_event_init") = {"ktimer"} /\ Provides("syscall_init") = {"syscalls"}
    BY DEF Provides
  <1>3. 20 <= Reached(K) => "console" \in ready BY <1>1, <1>2, AskedHasRun
  <1>4. 30 <= Reached(K) => {"slots", "fpages", "spaces"} \subseteq ready
    BY <1>1, <1>2, AskedHasRun
  <1>5. 40 <= Reached(K) => {"threads", "ktimer", "syscalls"} \subseteq ready
    BY <1>1, <1>2, AskedHasRun
  <1> QED BY <1>3, <1>4, <1>5

\* A hook finds what it uses.
LEMMA HookFinds ==
  ASSUME LateInv, K \in {4, 6, 8, 9, 14}, NEW h \in Hooks,
         last_level < HookLevel[h], HookLevel[h] <= Asked(K)
  PROVE  Uses(h) \subseteq ready
  <1>0. K \in Int /\ last_level \in Int BY DEF LateInv, Levels
  <1>1. "bss" \in ready /\ "data" \in ready /\ "clock" \in ready
    BY DEF LateInv, SetUp
  <1>2. h \notin {"panic", "elf_loadFile", "banner", "dbg_uart_init", "create_idle_thread",
                  "create_root_thread", "ktimer_event_create", "switch_to_kernel"}
    BY NotHooks
  <1>3. HookLevel[h] >= 20 => K >= 6 BY LevelTable, LevelTypes
  <1>4. HookLevel[h] >= 40 => 30 <= Reached(K) BY LevelTable, LevelTypes
  <1>5. CASE h = "dbg_device_init_hook"
    <2>1. K >= 6 BY <1>3, <1>5, HookAssumption DEF PLATFORM
    <2>2. "priorities" \in ready BY <2>1 DEF LateInv, SetUp
    <2>3. Uses(h) = {"bss", "data", "clock", "priorities"} BY <1>5 DEF Uses
    <2> QED BY <1>1, <2>2, <2>3
  <1>6. CASE h = "thread_init_subsys"
    <2>1. 30 <= Reached(K) BY <1>4, <1>6, HookAssumption DEF KERNEL
    <2>2. Uses(h) = {"bss", "data", "fpages", "slots"} BY <1>6 DEF Uses
    <2> QED BY <1>0, <1>1, <2>1, <2>2, EarlyHooks
  <1>7. CASE h = "kdb_init"
    <2>1. 20 <= Reached(K) BY <1>0, <1>4, <1>7, HookAssumption, LevelTypes DEF KERNEL
    <2>2. Uses(h) = {"bss", "data", "console"} BY <1>7 DEF Uses
    <2> QED BY <1>0, <1>1, <2>1, <2>2, EarlyHooks
  <1>8. CASE h \notin {"dbg_device_init_hook", "thread_init_subsys", "kdb_init"}
    <2>1. Uses(h) = {"bss", "data"} BY <1>2, <1>8 DEF Uses
    <2> QED BY <1>1, <2>1
  <1> QED BY <1>5, <1>6, <1>7, <1>8

-----------------------------------------------------------------------------
(* Steps *)

LEMMA Framed ==
  ASSUME Place, image' = image
  PROVE  /\ Off' = Off /\ Off \in {0, 6} /\ pc \in Int /\ K = pc - Off /\ K' = pc' - Off
         /\ pc' \in -1 .. Off + 16 => Place'
  <1>1. Off' = Off /\ Off \in {0, 6} /\ pc \in Int BY DEF Off, Place
  <1> QED BY <1>1 DEF Place, K

\* A line that calls no hook: what was set up stays so.
LEMMA Quiet ==
  ASSUME IInv, K \in {3, 5, 7, 10, 11, 12, 13, 15}, Advance,
         UNCHANGED <<image, ran, last_level>>, missing' \subseteq {<<"panic", "console">>},
         ready \subseteq ready', K = 3 => "clock" \in ready', K = 5 => "priorities" \in ready'
  PROVE  IInv'
  <1>1. Place /\ LateInv /\ Once BY DEF IInv
  <1>2. Off' = Off /\ Off \in {0, 6} /\ pc \in Int /\ K = pc - Off /\ K' = pc' - Off
    BY <1>1, Framed
  <1>3. pc' = pc + 1 /\ sub' = 0 BY DEF Advance
  <1>4. K' = K + 1 /\ K' \in {4, 6, 8, 11, 12, 13, 14, 16} BY <1>2, <1>3
  <1>5. Place'
    <2>1. pc' \in -1 .. Off + 16 BY <1>2, <1>3, <1>4
    <2> QED BY <1>1, <2>1, Framed
  <1>6. Reached(K + 1) = Reached(K)
    BY DEF Reached, PLATFORM_EARLY, PLATFORM, KERNEL_EARLY, KERNEL, LAST
  <1>7. \A h : Called(h)' <=> Called(h) BY DEF Called
  <1>8. SetUp'
    <2>1. "bss" \in ready' /\ "data" \in ready' BY <1>1 DEF LateInv, SetUp
    <2>2. K' >= 4 => "clock" \in ready' BY <1>1, <1>4 DEF LateInv, SetUp
    <2>3. K' >= 6 => "priorities" \in ready' BY <1>1, <1>4 DEF LateInv, SetUp
    <2>4. \A h \in Hooks : Called(h)' => Provides(h) \subseteq ready'
      BY <1>1, <1>7 DEF LateInv, SetUp
    <2> QED BY <2>1, <2>2, <2>3, <2>4 DEF SetUp
  <1>9. Levels' BY <1>1, <1>4, <1>6 DEF LateInv, Levels
  <1>10. ~InHooks /\ ~InHooks' BY <1>3 DEF InHooks
  <1>11. HooksRan' BY <1>1, <1>7, <1>10 DEF LateInv, HooksRan
  <1>12. LateInv' BY <1>8, <1>9, <1>10, <1>11 DEF LateInv
  <1>13. Once' BY <1>1 DEF Once
  <1>14. ~(pc' \in 1 .. Off') /\ ~(K' \in 1 .. 2) BY <1>2, <1>4
  <1> QED BY <1>5, <1>12, <1>13, <1>14 DEF IInv

\* The same for the lines of the loader but the last.
LEMMA QuietLoader ==
  ASSUME IInv, pc \in 1 .. 5, Off = 6, Advance,
         UNCHANGED <<image, ran, last_level>>, missing' \subseteq {<<"panic", "console">>},
         ready \subseteq ready', pc = 2 => "clock" \in ready', pc = 3 => "priorities" \in ready',
         pc = 4 => "console" \in ready', pc = 5 /\ Loadable => "data" \in ready'
  PROVE  IInv'
  <1>1. Place /\ LoaderInv /\ Once BY DEF IInv
  <1>2. Off' = 6 /\ pc' = pc + 1 /\ K' = pc' - 6 BY <1>1, Framed DEF Advance
  <1>3. Place' BY <1>1, <1>2, Framed
  <1>4. Loadable' <=> Loadable BY DEF Loadable
  <1>5. LoaderInv' BY <1>1, <1>2, <1>4 DEF LoaderInv
  <1>6. Once' BY <1>1 DEF Once
  <1>7. ~(K' \in 1 .. 2) /\ ~(K' \in 3 .. 16) BY <1>2
  <1> QED BY <1>3, <1>5, <1>6, <1>7 DEF IInv

\* Nothing but sub changes, and no hook is involved.
LEMMA SubOnly ==
  ASSUME IInv, UNCHANGED <<image, pc, last_level, ran, ready, missing>>,
         K \notin {4, 6, 8, 9, 14} \/ (sub # 1 /\ sub' # 1)
  PROVE  IInv'
  <1>1. Place /\ Once BY DEF IInv
  <1>2. Off' = Off /\ K' = K BY <1>1, Framed
  <1>3. Place' BY <1>1 DEF Place, Off
  <1>4. \A h : Called(h)' <=> Called(h) BY DEF Called
  <1>5. ~InHooks /\ ~InHooks' BY <1>2 DEF InHooks
  <1>6. Loadable' <=> Loadable BY DEF Loadable
  <1>7. pc' \in 1 .. Off' => LoaderInv' BY <1>2, <1>6 DEF IInv, LoaderInv
  <1>8. K' \in 1 .. 2 => EarlyInv' BY <1>2 DEF IInv, EarlyInv
  <1>9. LateInv => LateInv'
    <2>1. SetUp => SetUp' BY <1>2, <1>4 DEF SetUp
    <2>2. Levels => Levels' BY <1>2 DEF Levels
    <2>3. HooksRan => HooksRan' BY <1>4, <1>5 DEF HooksRan
    <2> QED BY <1>5, <2>1, <2>2, <2>3 DEF LateInv
  <1>10. Once' BY <1>1 DEF Once
  <1> QED BY <1>2, <1>3, <1>7, <1>8, <1>9, <1>10 DEF IInv

LEMMA EnterStep ==
  ASSUME IInv, EnterHooks
  PROVE  IInv'
  <1>1. Place /\ Once BY DEF IInv
  <1>2. K \in {1, 4, 6, 8, 9, 14} BY <1>1, CallSites DEF EnterHooks, Sites
  <1>3. /\ sub = 0 /\ sub' = 1 /\ todo' = Hooks /\ maxCalled' = last_level
        /\ UNCHANGED <<image, pc, last_level, ran, ready, missing>>
    BY DEF EnterHooks
  <1>4. Off' = Off /\ K' = K BY <1>1, <1>3, Framed
  <1>5. CASE K = 1 BY <1>3, <1>5, SubOnly
  <1>6. CASE K \in {4, 6, 8, 9, 14}
    <2>1. LateInv BY <1>6 DEF IInv
    <2>2. \A h : Called(h)' <=> Called(h) BY <1>3 DEF Called
    <2>3. SetUp' BY <1>3, <1>4, <2>1, <2>2 DEF LateInv, SetUp
    <2>4. Levels' BY <1>3, <1>4, <2>1 DEF LateInv, Levels
    <2>5. CallInv'
      <3>1. last_level \in Int /\ last_level <= Reached(K) BY <2>1 DEF LateInv, Levels
      <3>2. last_level <= Asked(K) BY <1>6, <3>1, LevelTable
      <3> QED BY <1>3, <1>4, <3>1, <3>2 DEF CallInv
    <2>6. HooksRan' BY <1>3, <2>1, <2>2 DEF LateInv, HooksRan, InHooks
    <2>7. LateInv' BY <2>3, <2>4, <2>5, <2>6 DEF LateInv
    <2>8. Place' /\ Once' BY <1>1, <1>3, <1>4 DEF Place, Once
    <2>9. ~(pc' \in 1 .. Off') /\ ~(K' \in 1 .. 2) BY <1>1, <1>3, <1>4, <1>6, Framed
    <2> QED BY <1>3, <2>7, <2>8, <2>9 DEF IInv
  <1> QED BY <1>2, <1>5, <1>6

LEMMA RunStep ==
  ASSUME IInv, NEW h \in Hooks, RunHook(h)
  PROVE  IInv'
  <1>1. Place /\ Once BY DEF IInv
  <1>2. K \in {1, 4, 6, 8, 9, 14} /\ Script[pc].level = Asked(K)
    BY <1>1, CallSites DEF RunHook, Sites
  <1>3. /\ sub = 1 /\ h \in todo /\ last_level < HookLevel[h] /\ HookLevel[h] <= Asked(K)
        /\ todo' = todo \ {h} /\ maxCalled' = MaxOf(maxCalled, HookLevel[h])
        /\ ran' = Append(ran, h) /\ Perform(h)
        /\ UNCHANGED <<image, pc, sub, last_level>>
    <2>1. Due(h) BY DEF RunHook
    <2>2. HookLevel[h] > last_level /\ HookLevel[h] <= Asked(K) BY <1>2, <2>1 DEF Due
    <2> QED BY <2>2 DEF RunHook
  <1>4. Off' = Off /\ K' = K BY <1>1, <1>3, Framed
  <1>5. K \in {4, 6, 8, 9, 14}
    <2>1. HookLevel[h] \in Int /\ 2 <= HookLevel[h] /\ Asked(1) = 1 BY LevelTypes
    <2>2. K # 1 BY <1>3, <2>1
    <2> QED BY <1>2, <2>2
  <1>6. LateInv /\ InHooks /\ CallInv BY <1>3, <1>5 DEF IInv, LateInv, InHooks
  <1>7. ready' = ready \cup Provides(h) /\ missing' \subseteq {<<"panic", "console">>}
    <2>1. Uses(h) \subseteq ready BY <1>3, <1>5, <1>6, HookFinds
    <2>2. missing' = missing BY <1>3, <2>1 DEF Perform, Use
    <2> QED BY <1>3, <2>2 DEF Perform, IInv
  <1>8. ~Called(h)
    <2>1. last_level \in Int /\ HookLevel[h] \in Int BY <1>6, LevelTypes DEF LateInv, Levels
    <2>2. ~(HookLevel[h] <= last_level) BY <1>3, <2>1
    <2> QED BY <1>3, <1>6, <2>2 DEF LateInv, HooksRan
  <1>9. Once' /\ \A g : Called(g)' <=> g = h \/ Called(g)
    <2>1. ran \in Seq(Hooks) /\ (\A i, j \in DOMAIN ran : ran[i] = ran[j] => i = j)
      BY <1>1 DEF Once
    <2>2. \A i \in DOMAIN ran : ran[i] # h BY <1>8 DEF Called
    <2> QED BY <1>3, <2>1, <2>2, Appended DEF Once, Called
  <1>10. SetUp' BY <1>4, <1>6, <1>7, <1>9 DEF LateInv, SetUp
  <1>11. Levels' BY <1>3, <1>4, <1>6 DEF LateInv, Levels
  <1>12. CallInv'
    <2>1. /\ last_level \in Int /\ maxCalled \in Int /\ HookLevel[h] \in Int /\ Asked(K) \in Int
          /\ last_level <= maxCalled /\ maxCalled <= Asked(K)
      BY <1>5, <1>6, LevelTypes, LevelTable DEF LateInv, Levels, CallInv
    <2>2. /\ maxCalled' \in Int /\ maxCalled <= maxCalled' /\ HookLevel[h] <= maxCalled'
          /\ last_level <= maxCalled' /\ maxCalled' <= Asked(K)
      BY <1>3, <2>1 DEF MaxOf
    <2>3. ASSUME NEW g \in Hooks \ todo'
          PROVE  /\ last_level < HookLevel[g] /\ HookLevel[g] <= maxCalled'
                 /\ HookLevel[g] <= Asked(K)
      <3>1. CASE g = h BY <1>3, <2>2, <3>1
      <3>2. CASE g # h
        <4>1. g \in Hooks \ todo BY <1>3, <3>2
        <4>2. /\ last_level < HookLevel[g] /\ HookLevel[g] <= maxCalled
              /\ HookLevel[g] <= Asked(K) /\ HookLevel[g] \in Int
          BY <1>6, <4>1, LevelTypes DEF CallInv
        <4> QED BY <2>1, <2>2, <4>2
      <3> QED BY <3>1, <3>2
    <2> QED BY <1>3, <1>4, <1>6, <2>2, <2>3 DEF CallInv
  <1>13. HooksRan' BY <1>3, <1>4, <1>6, <1>9 DEF LateInv, HooksRan, InHooks
  <1>14. LateInv' BY <1>10, <1>11, <1>12, <1>13 DEF LateInv
  <1>15. Place' BY <1>1, <1>3, <1>4 DEF Place
  <1>16. ~(pc' \in 1 .. Off') /\ ~(K' \in 1 .. 2) BY <1>1, <1>3, <1>4, <1>5, Framed
  <1> QED BY <1>7, <1>9, <1>14, <1>15, <1>16 DEF IInv

LEMMA LeaveStep ==
  ASSUME IInv, LeaveHooks
  PROVE  IInv'
  <1>1. Place /\ Once BY DEF IInv
  <1>2. K \in {1, 4, 6, 8, 9, 14} /\ Script[pc].level = Asked(K)
    BY <1>1, CallSites DEF LeaveHooks, Sites
  <1>3. /\ sub = 1 /\ last_level' = maxCalled /\ pc' = pc + 1 /\ sub' = 0
        /\ UNCHANGED <<image, todo, ran, ready, missing>>
    BY DEF LeaveHooks, Advance
  <1>4. Off' = Off /\ Off \in {0, 6} /\ pc \in Int /\ K = pc - Off /\ K' = pc' - Off
    BY <1>1, <1>3, Framed
  <1>5. K' = K + 1 /\ pc' \in -1 .. Off + 16 BY <1>2, <1>3, <1>4
  <1>6. Place' /\ Once' BY <1>1, <1>3, <1>4, <1>5 DEF Place, Once
  <1>7. ~(pc' \in 1 .. Off') /\ missing' \subseteq {<<"panic", "console">>}
    BY <1>2, <1>3, <1>4, <1>5 DEF IInv
  <1>8. CASE K = 1
    <2>1. EarlyInv' BY <1>3, <1>8 DEF IInv, EarlyInv
    <2>2. K' = 2 BY <1>5, <1>8
    <2> QED BY <1>6, <1>7, <2>1, <2>2 DEF IInv
  <1>9. CASE K \in {4, 6, 8, 9, 14}
    <2>1. LateInv /\ InHooks /\ CallInv BY <1>3, <1>9 DEF IInv, LateInv, InHooks
    <2>2. \A h : Called(h)' <=> Called(h) BY <1>3 DEF Called
    <2>3. SetUp'
      <3>2. K = 4 => K' = 5 BY <1>5
      <3>3. K' >= 6 => "priorities" \in ready BY <1>9, <2>1, <3>2 DEF LateInv, SetUp
      <3>4. "clock" \in ready BY <1>9, <2>1 DEF LateInv, SetUp
      <3> QED BY <1>3, <2>1, <2>2, <3>3, <3>4 DEF LateInv, SetUp
    <2>4. Reached(K') = Asked(K) /\ Asked(K) \in Int BY <1>5, <1>9, LevelTypes, LevelTable
    <2>5. /\ last_level \in Int /\ maxCalled \in Int /\ 0 <= last_level
          /\ last_level <= maxCalled /\ maxCalled <= Asked(K)
      BY <2>1 DEF LateInv, Levels, CallInv
    <2>6. ASSUME NEW h \in Hooks
          PROVE  /\ HookLevel[h] <= Asked(K) => HookLevel[h] <= maxCalled
                 /\ HookLevel[h] <= maxCalled => HookLevel[h] <= last_level \/ h \notin todo
                 /\ h \notin todo => HookLevel[h] <= maxCalled
      <3>1. HookLevel[h] \in Int BY LevelTypes
      <3>2. h \notin todo => HookLevel[h] <= maxCalled BY <2>1 DEF CallInv
      <3>3. h \in todo => ~Due(h) BY DEF LeaveHooks
      <3>4. h \in todo => HookLevel[h] <= last_level \/ HookLevel[h] > Asked(K)
        BY <1>2, <2>4, <2>5, <3>1, <3>3 DEF Due
      <3> QED BY <2>4, <2>5, <3>1, <3>2, <3>4
    <2>7. Levels' BY <1>3, <2>4, <2>5, <2>6 DEF Levels
    <2>8. ~InHooks' BY <1>3 DEF InHooks
    <2>9. HooksRan'
      <3>1. ASSUME NEW h \in Hooks PROVE Called(h)' <=> HookLevel[h] <= maxCalled
        <4>1. Called(h) <=> HookLevel[h] <= last_level \/ h \notin todo
          BY <2>1 DEF LateInv, HooksRan
        <4>2. HookLevel[h] <= last_level => HookLevel[h] <= maxCalled BY <2>5, LevelTypes
        <4> QED BY <2>2, <2>6, <4>1, <4>2
      <3> QED BY <1>3, <2>8, <3>1 DEF HooksRan
    <2>10. LateInv' BY <2>3, <2>7, <2>8, <2>9 DEF LateInv
    <2>11. ~(K' \in 1 .. 2) BY <1>5, <1>9
    <2> QED BY <1>6, <1>7, <2>10, <2>11 DEF IInv
  <1> QED BY <1>2, <1>8, <1>9

LEMMA SegmentsStep ==
  ASSUME IInv, Segments
  PROVE  IInv'
  <1>1. Place /\ Once BY DEF IInv
  <1>2. K = 2 BY <1>1, CallSites DEF Segments, Sites
  <1>3. EarlyInv BY <1>2 DEF IInv
  <1>4. /\ ready' = ready \cup {"bss"} \cup (IF image.loader THEN {} ELSE {"data"})
        /\ last_level' = 0 /\ pc' = pc + 1 /\ sub' = 0 /\ UNCHANGED <<image, ran, missing>>
    BY DEF Segments, Advance
  <1>5. Off' = Off /\ Off \in {0, 6} /\ pc \in Int /\ K = pc - Off /\ K' = pc' - Off
    BY <1>1, <1>4, Framed
  <1>6. K' = 3 /\ pc' \in -1 .. Off + 16 BY <1>2, <1>4, <1>5
  <1>7. Place' /\ Once' BY <1>1, <1>4, <1>5, <1>6 DEF Place, Once
  <1>8. "bss" \in ready' /\ "data" \in ready' BY <1>3, <1>4 DEF EarlyInv
  <1>9. \A h : ~Called(h)' BY <1>3, <1>4 DEF EarlyInv, Called
  <1>10. Reached(3) = 0 BY DEF Reached
  <1>11. \A h \in Hooks : ~(HookLevel[h] <= 0) BY LevelTypes
  <1>12. SetUp' BY <1>6, <1>8, <1>9 DEF SetUp
  <1>13. Levels' BY <1>4, <1>6, <1>10, <1>11 DEF Levels
  <1>14. ~InHooks' BY <1>6 DEF InHooks
  <1>15. HooksRan' BY <1>4, <1>9, <1>11, <1>14 DEF HooksRan
  <1>16. LateInv' BY <1>12, <1>13, <1>14, <1>15 DEF LateInv
  <1>17. ~(pc' \in 1 .. Off') /\ ~(K' \in 1 .. 2) BY <1>2, <1>4, <1>5, <1>6
  <1> QED BY <1>4, <1>7, <1>16, <1>17 DEF IInv

LEMMA PanicStep ==
  ASSUME IInv, ClockPanic
  PROVE  IInv'
  <1>1. Place /\ Once BY DEF IInv
  <1>2. pc' = 0 /\ UNCHANGED <<image, ran>> BY DEF ClockPanic, Panicked
  <1>3. Off' = Off /\ Off \in {0, 6} /\ K' = pc' - Off BY <1>1, <1>2, Framed
  <1>4. Place' /\ Once' BY <1>1, <1>2, <1>3 DEF Place, Once
  <1>5. missing' \subseteq {<<"panic", "console">>}
    <2>1. Uses("panic") = {"console"} BY CalledAssumption DEF Uses
    <2> QED BY <2>1 DEF ClockPanic, Use, IInv
  <1>6. ~(pc' \in 1 .. Off') /\ ~(K' \in 1 .. 2) /\ ~(K' \in 3 .. 16) BY <1>2, <1>3
  <1> QED BY <1>4, <1>5, <1>6 DEF IInv

LEMMA PllStep ==
  ASSUME IInv, PllReady
  PROVE  IInv'
  <1>1. Place BY DEF IInv
  <1>2. K = 3 \/ (pc = 2 /\ Off = 6) BY <1>1, CallSites DEF PllReady, Sites
  <1>3. Uses("sys_clock_init") = {}
    <2>1. "sys_clock_init" \notin Hooks BY CalledAssumption, LoaderLines
    <2> QED BY <2>1 DEF Uses
  <1>4. Provides("sys_clock_init") = {"clock"} BY DEF Provides
  <1>5. ready' = ready \cup {"clock"} /\ missing' \subseteq {<<"panic", "console">>}
    BY <1>3, <1>4 DEF PllReady, Perform, Use, IInv
  <1>6. Advance /\ UNCHANGED <<image, ran, last_level>> BY DEF PllReady
  <1>7. CASE K = 3 BY <1>5, <1>6, <1>7, Quiet
  <1>8. CASE pc = 2 /\ Off = 6 BY <1>5, <1>6, <1>8, QuietLoader
  <1> QED BY <1>2, <1>7, <1>8

\* What the functions of a single step use is there.
LEMMA StepFinds ==
  ASSUME IInv, Running, Script[pc].fn \in Simple
  PROVE  Uses(Script[pc].fn) \subseteq ready
  <1> DEFINE f == Script[pc].fn
  <1>1. Place /\ Sites BY CallSites DEF IInv
  <1>2. At(f) BY DEF At
  <1>3. f \notin Hooks
    <2>1. \/ f \in {__loader_start[i].fn : i \in DOMAIN __loader_start}
          \/ f \in {__l4_start[i].fn : i \in DOMAIN __l4_start}
      BY <1>1, LineFacts, LoaderLines, StartLines
    <2> QED BY <2>1, CalledAssumption
  <1> HIDE DEF f
  <1>4. CASE f \in {"loader_segments", "irq_init", "mpu_enable"}
    <2>1. Uses(f) = {} BY <1>3, <1>4 DEF Uses
    <2> QED BY <2>1 DEF f
  <1>5. CASE f = "dbg_uart_init"
    <2>1. pc = 4 /\ Off = 6 BY <1>1, <1>2, <1>5 DEF Sites
    <2>2. "clock" \in ready /\ "priorities" \in ready BY <2>1 DEF IInv, LoaderInv
    <2>3. Uses(f) = {"clock", "priorities"} BY <1>3, <1>5 DEF Uses
    <2> QED BY <2>2, <2>3 DEF f
  <1>6. CASE f \in {"banner", "create_idle_thread", "create_root_thread", "ktimer_event_create",
                   "switch_to_kernel"}
    <2>1. K \in {7, 10, 11, 12, 15} /\ (f # "banner" => K \in {10, 11, 12, 15})
      BY <1>1, <1>2, <1>6 DEF Sites
    <2>2. LateInv /\ K \in Int BY <2>1 DEF IInv
    <2>3. 20 <= Reached(K) /\ (f # "banner" => 40 <= Reached(K))
      BY <2>1 DEF Reached, PLATFORM, KERNEL, LAST
    <2>4. "bss" \in ready /\ "data" \in ready /\ "console" \in ready
      BY <2>2, <2>3, EarlyHooks DEF LateInv, SetUp
    <2>5. CASE f = "banner"
      <3>1. Uses(f) = {"bss", "data", "console"} BY <2>5 DEF Uses
      <3> QED BY <2>4, <3>1 DEF f
    <2>6. CASE f # "banner"
      <3>1. {"slots", "fpages", "spaces", "threads", "ktimer", "syscalls"} \subseteq ready
        BY <2>2, <2>3, <2>6, EarlyHooks, LevelTypes
      <3>2. Uses(f) \subseteq {"slots", "fpages", "spaces", "threads", "ktimer", "syscalls"}
        BY <1>3, <1>6, <2>6 DEF Uses
      <3> QED BY <3>1, <3>2 DEF f
    <2> QED BY <2>5, <2>6
  <1>7. f \in Simple BY DEF f
  <1> QED BY <1>4, <1>5, <1>6, <1>7 DEF Simple

LEMMA SimpleStep ==
  ASSUME IInv, Step
  PROVE  IInv'
  <1> DEFINE f == Script[pc].fn
  <1>1. Place /\ Sites BY CallSites DEF IInv
  <1>2. /\ Running /\ f \in Simple /\ Perform(f) /\ Advance
        /\ UNCHANGED <<image, ran, last_level>>
    BY DEF Step
  <1>3. At(f) BY <1>2 DEF At
  <1>4. Uses(f) \subseteq ready BY <1>2, StepFinds
  <1> HIDE DEF f
  <1>5. missing' = missing /\ ready' = ready \cup Provides(f) BY <1>2, <1>4 DEF Perform, Use
  <1>6. missing' \subseteq {<<"panic", "console">>} /\ ready \subseteq ready' BY <1>5 DEF IInv
  <1>7. Provides("irq_init") = {"priorities"} /\ Provides("dbg_uart_init") = {"console"}
    BY DEF Provides
  <1>8. \/ pc \in {1, 3, 4} /\ Off = 6
        \/ K \in {5, 7, 10, 11, 12, 13, 15}
    BY <1>1, <1>2, <1>3 DEF Sites, Simple
  <1>9. CASE pc \in {1, 3, 4} /\ Off = 6
    <2>1. Script[pc] = __loader_start[pc]
      <3>1. pc \in 1 .. Off BY <1>9
      <3> QED BY <1>1, <3>1, ScriptLines
    <2>2. (pc = 3 => f = "irq_init") /\ (pc = 4 => f = "dbg_uart_init")
      BY <2>1, LoaderLines DEF f
    <2> QED BY <1>2, <1>5, <1>6, <1>7, <1>9, <2>2, QuietLoader
  <1>10. CASE K \in {5, 7, 10, 11, 12, 13, 15}
    <2>1. K = 5 => f = "irq_init"
      <3>1. pc \in Int /\ Off \in {0, 6} /\ Off + K = pc BY <1>1, LineFacts DEF K
      <3>2. Script[Off + 5] = __l4_start[5] BY <1>1, ScriptLines
      <3> QED BY <3>1, <3>2, StartLines DEF f
    <2> QED BY <1>2, <1>5, <1>6, <1>7, <1>10, <2>1, Quiet
  <1> QED BY <1>8, <1>9, <1>10

LEMMA LoadedStep ==
  ASSUME IInv, LoadDone
  PROVE  IInv'
  <1>1. Place BY DEF IInv
  <1>2. pc = 5 /\ Off = 6 BY <1>1, CallSites DEF LoadDone, Sites
  <1>3. "console" \in ready BY <1>2 DEF IInv, LoaderInv
  <1>4. Uses("elf_loadFile") = {"console"} BY NotHooks DEF Uses
  <1>5. missing' \subseteq {<<"panic", "console">>} BY <1>3, <1>4 DEF LoadDone, Use, IInv
  <1>6. ready \subseteq ready' /\ (Loadable => "data" \in ready') BY DEF LoadDone
  <1>7. Advance /\ UNCHANGED <<image, ran, last_level>> BY DEF LoadDone
  <1> QED BY <1>2, <1>5, <1>6, <1>7, QuietLoader

LEMMA EntryStep ==
  ASSUME IInv, kernel_entry
  PROVE  IInv'
  <1>1. Place /\ Once BY DEF IInv
  <1>2. pc = 6 /\ Off = 6 /\ image.loader BY <1>1, CallSites DEF kernel_entry, Sites
  <1>3. LoaderInv BY <1>2 DEF IInv
  <1>4. ready' = ready \cap {"data"} /\ UNCHANGED <<image, ran, missing>> BY DEF kernel_entry
  <1>5. (pc' = 7 /\ Loadable) \/ pc' = -1 BY <1>2 DEF kernel_entry, Advance, Lost
  <1>6. Off' = 6 /\ K' = pc' - 6 BY <1>1, <1>2, <1>4, Framed
  <1>7. Place' /\ Once'
    <2>1. pc' \in -1 .. Off + 16 BY <1>2, <1>5
    <2>2. Place' BY <1>1, <1>4, <2>1, Framed
    <2>3. Once' BY <1>1, <1>4 DEF Once
    <2> QED BY <2>2, <2>3
  <1>8. EarlyInv' \/ pc' = -1 BY <1>2, <1>3, <1>4, <1>5 DEF LoaderInv, EarlyInv
  <1>9. /\ ~(pc' \in 1 .. Off') /\ ~(K' \in 3 .. 16)
        /\ (pc' = -1 => ~(K' \in 1 .. 2))
    BY <1>5, <1>6
  <1>10. missing' \subseteq {<<"panic", "console">>} BY <1>4 DEF IInv
  <1> QED BY <1>7, <1>8, <1>9, <1>10 DEF IInv

LEMMA Started == Init => IInv
  <1> SUFFICES ASSUME Init PROVE IInv OBVIOUS
  <1>1. /\ image \in Images /\ pc = 1 /\ ran = <<>> /\ ready = {} /\ missing = {} BY DEF Init
  <1>2. Place /\ Off \in {0, 6} /\ (image.loader => Off = 6) /\ K = 1 - Off
    BY <1>1, ImageAssumption DEF Place, Off, K
  <1>3. Once BY <1>1 DEF Once
  <1>4. LoaderInv BY <1>1 DEF LoaderInv
  <1>5. K \in 1 .. 2 => EarlyInv BY <1>1, <1>2 DEF EarlyInv
  <1>6. ~(K \in 3 .. 16) BY <1>2
  <1> QED BY <1>1, <1>2, <1>3, <1>4, <1>5, <1>6 DEF IInv

LEMMA Kept ==
  ASSUME IInv, [Next]_vars
  PROVE  IInv'
  <1>0. Place BY DEF IInv
  <1>1. ASSUME NEW rdy \in BOOLEAN, PollHse(rdy) PROVE IInv'
    <2>1. K \notin {4, 6, 8, 9, 14}
      <3>1. K = 3 \/ (pc = 2 /\ Off = 6) BY <1>0, <1>1, CallSites DEF PollHse, Sites
      <3> QED BY <3>1 DEF K
    <2> QED BY <1>1, <2>1, SubOnly DEF PollHse
  <1>2. CASE LoadSegment
    <2>1. K \notin {4, 6, 8, 9, 14}
      <3>1. pc = 5 /\ Off = 6 BY <1>0, <1>2, CallSites DEF LoadSegment, Sites
      <3> QED BY <3>1 DEF K
    <2> QED BY <1>2, <2>1, SubOnly DEF LoadSegment
  <1>3. CASE UNCHANGED vars
    BY <1>3 DEF vars, IInv, Place, Once, LoaderInv, Loadable, EarlyInv, LateInv, SetUp, Levels,
                CallInv, HooksRan, InHooks, Called, K, Off
  <1>4. CASE Code
    BY <1>2, <1>4, EnterStep, RunStep, LeaveStep, SegmentsStep, SimpleStep, PanicStep, PllStep,
       LoadedStep, EntryStep DEF Code
  <1> QED BY <1>1, <1>3, <1>4 DEF Next

\* The start-up sets up before it uses and calls each hook once, for any hooks at
\* levels above INIT_LEVEL_EARLIEST and any order of them in the section, although
\* run_init_hook() remembers only the highest level it called and its first call
\* finds anything in last_level.
THEOREM StartUpInOrder == Spec => []InitBeforeUse
  <1>1. ASSUME IInv PROVE InitBeforeUse
    <2>1. ASSUME Done PROVE {ran[i] : i \in DOMAIN ran} = Hooks
      <3>1. K = 16 /\ LateInv BY <1>1, <2>1, LineFacts DEF IInv
      <3>2. Reached(16) = 255 BY DEF Reached, LAST
      <3>3. \A h \in Hooks : Called(h) BY <3>1, <3>2, LevelTypes, AskedHasRun
      <3>4. ran \in Seq(Hooks) BY <1>1 DEF IInv, Once
      <3>5. \A i \in DOMAIN ran : ran[i] \in Hooks BY <3>4
      <3> QED BY <3>3, <3>5 DEF Called
    <2> QED BY <1>1, <2>1 DEF IInv, Once, InitBeforeUse
  <1>2. IInv /\ [Next]_vars => IInv' BY Kept
  <1>3. IInv => InitBeforeUse BY <1>1
  <1> QED BY Started, <1>2, <1>3, PTL DEF Spec

-----------------------------------------------------------------------------
(* The loader *)

Filled(i, a) == a \in elf_getProgramHeaderPaddr(image, i)
                      .. elf_getProgramHeaderPaddr(image, i) + elf_getProgramHeaderFileSize(image, i) - 1
ByteOf(i, a) == elf_getProgramHeaderOffset(image, i) + a - elf_getProgramHeaderPaddr(image, i)

\* RAM after the first m segments.
Loaded(m) ==
  \A a \in Ram : \/ ram[a] = -1 /\ \A i \in 0 .. m - 1 : ~Filled(i, a)
                \/ \E i \in 0 .. m - 1 : Filled(i, a) /\ ram[a] = ByteOf(i, a)

LoadInv ==
  /\ DOMAIN ram = Ram
  /\ image.loader =>
       /\ pc \in 1 .. 4 => ram = [a \in Ram |-> -1]
       /\ pc = 5 /\ Loadable => sub \in 0 .. elf32_getNumProgramHeaders(image) /\ Loaded(sub)
       /\ pc >= 6 /\ Loadable => Loaded(elf32_getNumProgramHeaders(image))
       /\ pc >= 7 => Loadable

Segment(i) ==
  /\ elf_getProgramHeaderPaddr(image, i) \in Nat /\ elf_getProgramHeaderVaddr(image, i) \in Nat
  /\ elf_getProgramHeaderOffset(image, i) \in Nat
  /\ elf_getProgramHeaderFileSize(image, i) \in Nat
  /\ elf_getProgramHeaderMemorySize(image, i) \in Nat
  /\ elf_getProgramHeaderFileSize(image, i) <= elf_getProgramHeaderMemorySize(image, i)
  /\ elf_getProgramHeaderPaddr(image, i) + elf_getProgramHeaderMemorySize(image, i) <= UINT32_MAX
  /\ elf_getProgramHeaderVaddr(image, i) + elf_getProgramHeaderMemorySize(image, i) <= UINT32_MAX
  /\ elf_getProgramHeaderPaddr(image, i)
       .. elf_getProgramHeaderPaddr(image, i) + elf_getProgramHeaderMemorySize(image, i) - 1 \subseteq Ram

LEMMA ImageFacts ==
  ASSUME Place, image.loader, Loadable
  PROVE  /\ Linked(image) /\ elf32_getNumProgramHeaders(image) \in Nat
         /\ \A i \in Segs : Segment(i)
  <1>1. Linked(image) BY ImageAssumption DEF Place, Loadable
  <1>2. ASSUME NEW i \in Segs PROVE Segment(i)
    <2> DEFINE h == Header(image, i)
    <2>1. /\ h.p_paddr \in Nat /\ h.p_vaddr \in Nat /\ h.p_offset \in Nat
          /\ h.p_filesz \in Nat /\ h.p_memsz \in Nat /\ h.p_filesz <= h.p_memsz
          /\ h.p_paddr + h.p_memsz <= UINT32_MAX /\ h.p_vaddr + h.p_memsz <= UINT32_MAX
          /\ h.p_paddr .. h.p_paddr + h.p_memsz - 1 \subseteq Ram
      BY <1>1, Zenon DEF Linked, Segs
    <2> QED BY <2>1, Zenon DEF Segment, elf_getProgramHeaderPaddr, elf_getProgramHeaderVaddr,
                        elf_getProgramHeaderOffset, elf_getProgramHeaderFileSize,
                        elf_getProgramHeaderMemorySize
  <1> QED BY <1>1, <1>2 DEF Linked

LEMMA LoadSegmentStep ==
  ASSUME Place, LoadInv, LoadSegment
  PROVE  LoadInv'
  <1> DEFINE n == elf32_getNumProgramHeaders(image)
             dest == elf_getProgramHeaderPaddr(image, sub)
             src == elf_getProgramHeaderOffset(image, sub)
             len == elf_getProgramHeaderFileSize(image, sub)
  <1>1. pc = 5 /\ image.loader /\ Loadable
    BY CallSites DEF LoadSegment, Sites, Place, Off
  <1>2. /\ sub < n /\ sub' = sub + 1 /\ image' = image /\ pc' = 5
        /\ ram' = [a \in DOMAIN ram |-> IF a \in dest .. dest + len - 1 THEN src + a - dest ELSE ram[a]]
    BY <1>1 DEF LoadSegment, CopyLen
  <1>3. n \in Nat /\ sub \in 0 .. n /\ Loaded(sub) /\ DOMAIN ram = Ram
    BY <1>1, ImageFacts DEF LoadInv
  <1>4. /\ \A i, a : Filled(i, a)' = Filled(i, a) /\ ByteOf(i, a)' = ByteOf(i, a)
        /\ Loadable' = Loadable
    BY <1>2 DEF Filled, ByteOf, Loadable
  <1>5. ASSUME NEW a \in Ram
        PROVE  ram'[a] = IF Filled(sub, a) THEN ByteOf(sub, a) ELSE ram[a]
    BY <1>2, <1>3 DEF Filled, ByteOf
  <1>6. DOMAIN ram' = Ram BY <1>2, <1>3
  <1> HIDE DEF n, dest, src, len
  <1>7. 0 .. sub' - 1 = 0 .. sub - 1 \cup {sub} /\ sub' \in 0 .. n BY <1>2, <1>3
  <1>8. ASSUME NEW a \in Ram
        PROVE  \/ ram'[a] = -1 /\ \A i \in 0 .. sub' - 1 : ~Filled(i, a)
               \/ \E i \in 0 .. sub' - 1 : Filled(i, a) /\ ram'[a] = ByteOf(i, a)
    <2>1. CASE Filled(sub, a) BY <1>5, <1>7, <2>1
    <2>2. CASE ~Filled(sub, a)
      <3>1. ram'[a] = ram[a] BY <1>5, <2>2
      <3>2. \/ ram[a] = -1 /\ \A i \in 0 .. sub - 1 : ~Filled(i, a)
            \/ \E i \in 0 .. sub - 1 : Filled(i, a) /\ ram[a] = ByteOf(i, a)
        BY <1>3 DEF Loaded
      <3> QED BY <1>7, <2>2, <3>1, <3>2
    <2> QED BY <2>1, <2>2
  <1>9. Loaded(sub)' BY <1>4, <1>8 DEF Loaded
  <1>10. sub' \in 0 .. elf32_getNumProgramHeaders(image)' BY <1>2, <1>7 DEF n
  <1> QED BY <1>2, <1>6, <1>9, <1>10 DEF LoadInv

\* The steps that leave RAM alone.
LEMMA RamKept ==
  ASSUME Place, LoadInv, UNCHANGED <<image, ram>>,
         \/ pc' \in {-1, 0}
         \/ pc' = pc /\ (Off = 6 /\ pc = 5 => sub' = sub)
         \/ Advance /\ pc >= 1 /\ ~(Off = 6 /\ pc \in 5 .. 6)
  PROVE  LoadInv'
  <1>2. Loadable' = Loadable /\ pc \in Int /\ Off \in {0, 6} BY DEF Loadable, Place, Off
  <1>3. CASE ~image.loader BY <1>3 DEF LoadInv
  <1>4. CASE image.loader /\ pc' \in {-1, 0} BY <1>4 DEF LoadInv
  <1>5. CASE image.loader /\ pc' = pc /\ (pc = 5 => sub' = sub)
    <2>1. pc = 5 => Loaded(sub)' = Loaded(sub) BY <1>5 DEF Loaded, Filled, ByteOf
    <2>2. Loaded(elf32_getNumProgramHeaders(image))' = Loaded(elf32_getNumProgramHeaders(image))
      BY DEF Loaded, Filled, ByteOf
    <2> QED BY <1>2, <1>5, <2>1, <2>2 DEF LoadInv
  <1>6. CASE image.loader /\ Advance /\ pc >= 1 /\ pc \notin 5 .. 6
    <2>1. pc' = pc + 1 /\ sub' = 0 BY <1>6 DEF Advance
    <2>2. CASE pc < 4 BY <1>2, <1>6, <2>1, <2>2 DEF LoadInv
    <2>3. CASE pc = 4
      <3>1. ram = [a \in Ram |-> -1] BY <1>6, <2>3 DEF LoadInv
      <3>2. \A a \in Ram : ram'[a] = -1 BY <3>1
      <3>3. Loaded(sub)' BY <2>1, <3>2 DEF Loaded
      <3>4. Loadable => elf32_getNumProgramHeaders(image) \in Nat BY <1>6, ImageFacts
      <3> QED BY <1>2, <2>1, <2>3, <3>3, <3>4 DEF LoadInv
    <2>4. CASE pc >= 7
      <3>1. Loaded(elf32_getNumProgramHeaders(image))' = Loaded(elf32_getNumProgramHeaders(image))
        BY DEF Loaded, Filled, ByteOf
      <3> QED BY <1>2, <1>6, <2>1, <2>4, <3>1 DEF LoadInv
    <2> QED BY <1>2, <1>6, <2>2, <2>3, <2>4
  <1> QED BY <1>2, <1>3, <1>4, <1>5, <1>6 DEF Off

LEMMA LoadInvKept ==
  ASSUME Place, LoadInv, [Next]_vars
  PROVE  LoadInv'
  <1>1. Sites /\ pc \in Int /\ Off \in {0, 6} /\ (Off = 6 <=> image.loader)
    BY CallSites DEF Place, Off
  <1>2. Running => pc >= 1
    <2>1. Running => pc \in 1 .. Off + 15 BY ScriptLines DEF Running
    <2> QED BY <1>1, <2>1
  <1>3. CASE EnterHooks
    <2>1. ~(Off = 6 /\ pc = 5) BY <1>1, <1>3 DEF EnterHooks, Sites, K
    <2> QED BY <1>3, <2>1, RamKept DEF EnterHooks
  <1>4. ASSUME NEW h \in Hooks, RunHook(h) PROVE LoadInv'
    BY <1>4, RamKept DEF RunHook
  <1>5. CASE LeaveHooks
    <2>1. ~(Off = 6 /\ pc \in 5 .. 6) BY <1>1, <1>5 DEF LeaveHooks, Sites, K
    <2> QED BY <1>2, <1>5, <2>1, RamKept DEF LeaveHooks, At
  <1>6. CASE Segments
    <2>1. ~(Off = 6 /\ pc \in 5 .. 6) BY <1>1, <1>6 DEF Segments, Sites, K
    <2> QED BY <1>2, <1>6, <2>1, RamKept DEF Segments, At
  <1>7. CASE Step
    <2> DEFINE f == Script[pc].fn
    <2>1. At(f) /\ f \in Simple BY <1>7 DEF Step, At
    <2> HIDE DEF f
    <2>2. ~(Off = 6 /\ pc \in 5 .. 6) BY <1>1, <2>1 DEF Simple, Sites, K
    <2> QED BY <1>2, <1>7, <2>2, RamKept DEF Step
  <1>8. CASE ClockPanic BY <1>8, RamKept DEF ClockPanic, Panicked
  <1>9. CASE PllReady
    <2>1. ~(Off = 6 /\ pc \in 5 .. 6) BY <1>1, <1>9 DEF PllReady, Sites, K
    <2> QED BY <1>2, <1>9, <2>1, RamKept DEF PllReady, At
  <1>10. CASE LoadSegment BY <1>10, LoadSegmentStep
  <1>11. CASE LoadDone
    <2>1. /\ pc = 5 /\ image.loader /\ pc' = 6 /\ image' = image /\ ram' = ram
          /\ (Loadable => sub = elf32_getNumProgramHeaders(image))
      BY <1>1, <1>11 DEF LoadDone, Sites, Advance
    <2>2. Loadable => Loaded(elf32_getNumProgramHeaders(image)) BY <2>1 DEF LoadInv
    <2>3. Loaded(elf32_getNumProgramHeaders(image))' = Loaded(elf32_getNumProgramHeaders(image))
      BY <2>1 DEF Loaded, Filled, ByteOf
    <2>4. Loadable' = Loadable BY <2>1 DEF Loadable
    <2> QED BY <2>1, <2>2, <2>3, <2>4 DEF LoadInv
  <1>12. CASE kernel_entry
    <2>1. /\ pc = 6 /\ image.loader /\ image' = image /\ ram' = ram
          /\ ((pc' = 7 /\ Loadable) \/ pc' = -1)
      BY <1>1, <1>12 DEF kernel_entry, Sites, Advance, Lost
    <2>2. Loaded(elf32_getNumProgramHeaders(image))' = Loaded(elf32_getNumProgramHeaders(image))
      BY <2>1 DEF Loaded, Filled, ByteOf
    <2>3. Loadable' = Loadable BY <2>1 DEF Loadable
    <2> QED BY <2>1, <2>2, <2>3 DEF LoadInv
  <1>13. ASSUME NEW rdy \in BOOLEAN, PollHse(rdy) PROVE LoadInv'
    <2>1. ~(Off = 6 /\ pc = 5) BY <1>1, <1>13 DEF PollHse, Sites, K
    <2> QED BY <1>13, <2>1, RamKept DEF PollHse
  <1>14. CASE UNCHANGED vars BY <1>14, RamKept DEF vars
  <1> QED BY <1>3, <1>4, <1>5, <1>6, <1>7, <1>8, <1>9, <1>10, <1>11, <1>12, <1>13, <1>14
          DEF Next, Code

LEMMA MinIsLeast ==
  ASSUME NEW T \in SUBSET Nat, T # {}
  PROVE  Min(T) \in T /\ \A n \in T : Min(T) <= n
  <1>1. \E m \in T : \A n \in T : m <= n BY LeastNumber
  <1> QED BY <1>1, Zenon DEF Min

LEMMA MaxIsMost ==
  ASSUME NEW T \in SUBSET Nat, T # {}, NEW b \in Nat, \A n \in T : n <= b
  PROVE  Max(T) \in T /\ \A n \in T : n <= Max(T)
  <1>1. PICK m \in T : \A n \in T : n <= m BY GreatestNumber
  <1>2. \A n \in T : m >= n BY <1>1
  <1>3. Max(T) \in T /\ \A n \in T : Max(T) >= n BY <1>1, <1>2, Zenon DEF Max
  <1> QED BY <1>3

\* elf_getMemoryBounds() has every segment that takes memory.
LEMMA BoundsHold ==
  ASSUME Place, image.loader, Loadable, NEW phys \in BOOLEAN
  PROVE  /\ elf_getMemoryBounds(image, phys).min \in Nat
         /\ elf_getMemoryBounds(image, phys).max \in Nat
         /\ \A i \in Segs : elf_getProgramHeaderMemorySize(image, i) # 0 =>
              LET start == IF phys THEN elf_getProgramHeaderPaddr(image, i)
                           ELSE elf_getProgramHeaderVaddr(image, i)
              IN  /\ elf_getMemoryBounds(image, phys).min <= start
                  /\ start + elf_getProgramHeaderMemorySize(image, i)
                       <= elf_getMemoryBounds(image, phys).max
  <1> DEFINE start(i) == IF phys THEN elf_getProgramHeaderPaddr(image, i)
                         ELSE elf_getProgramHeaderVaddr(image, i)
             size(i) == elf_getProgramHeaderMemorySize(image, i)
             phs == {i \in Segs : size(i) # 0}
             low == {UINT32_MAX} \cup {start(i) : i \in phs}
             high == {0} \cup {start(i) + size(i) : i \in phs}
  <1>1. /\ elf_getMemoryBounds(image, phys).min = Min(low)
        /\ elf_getMemoryBounds(image, phys).max = Max(high)
    BY DEF elf_getMemoryBounds, Loadable, Segs
  <1>2. \A i \in Segs : start(i) \in Nat /\ size(i) \in Nat /\ start(i) + size(i) <= UINT32_MAX
    BY ImageFacts DEF Segment
  <1>3. UINT32_MAX \in Nat BY ImageAssumption
  <1> HIDE DEF start, size
  <1>4. \A i \in Segs : start(i) + size(i) \in Nat BY <1>2
  <1>5. low \in SUBSET Nat /\ low # {} BY <1>2, <1>3
  <1>6. high \in SUBSET Nat /\ high # {} BY <1>4
  <1>7. \A n \in high : n <= UINT32_MAX BY <1>2, <1>3
  <1>8. \A i \in phs : start(i) \in low /\ start(i) + size(i) \in high BY Zenon
  <1> HIDE DEF low, high
  <1>9. Min(low) \in low /\ \A n \in low : Min(low) <= n BY <1>5, MinIsLeast
  <1>10. Max(high) \in high /\ \A n \in high : n <= Max(high) BY <1>3, <1>6, <1>7, MaxIsMost
  <1>11. Min(low) \in Nat /\ Max(high) \in Nat BY <1>5, <1>6, <1>9, <1>10
  <1>12. \A i \in phs : Min(low) <= start(i) /\ start(i) + size(i) <= Max(high)
    BY <1>8, <1>9, <1>10, Zenon
  <1> QED BY <1>1, <1>11, <1>12 DEF start, size

LEMMA SectionsFoundByName ==
  ASSUME Place, image.loader, Loadable, image.e_shstrndx # 0,
         NEW s \in 0 .. elf32_getNumSections(image) - 1
  PROVE  elf32_getSectionNamed(image, elf32_getSectionName(image, s)) = elf32_getSection(image, s)
  <1> DEFINE N == 0 .. elf32_getNumSections(image) - 1
             named == {i \in N : elf32_getSectionName(image, i) = elf32_getSectionName(image, s)}
  <1>1. named = {s} BY ImageFacts DEF Linked
  <1>2. s \in Nat OBVIOUS
  <1>3. Min({s}) = s BY <1>2, MinIsLeast
  <1>4. elf32_getSectionNamed(image, elf32_getSectionName(image, s))
          = IF named = {} THEN NullPtr ELSE elf32_getSection(image, Min(named))
    BY DEF elf32_getSectionNamed
  <1> HIDE DEF named
  <1> QED BY <1>1, <1>3, <1>4

\* For any image that a linker may have made, and any number of segments, in any
\* order and overlapping or not, elf_loadFile() has put the bytes of the file where
\* the program headers say when the kernel is entered, has touched nothing else, and
\* the ELF library's bounds, translation of addresses and search for sections agree
\* with what was loaded.
THEOREM ImageIsLoaded == Spec => []ImageInPlace
  <1> DEFINE Inv == IInv /\ LoadInv
  <1>1. Init => Inv
    <2> SUFFICES ASSUME Init PROVE LoadInv BY Started
    <2>1. pc = 1 /\ ram = [a \in Ram |-> -1] BY DEF Init
    <2> QED BY <2>1 DEF LoadInv
  <1>2. Inv /\ [Next]_vars => Inv' BY Kept, LoadInvKept DEF IInv
  <1>3. ASSUME Inv PROVE ImageInPlace
    <2> SUFFICES ASSUME image.loader, pc > Len(__loader_start) PROVE ImageInPlace
      BY DEF ImageInPlace
    <2> DEFINE n == elf32_getNumProgramHeaders(image)
               paddr(i) == elf_getProgramHeaderPaddr(image, i)
               vaddr(i) == elf_getProgramHeaderVaddr(image, i)
               filesz(i) == elf_getProgramHeaderFileSize(image, i)
               memsz(i) == elf_getProgramHeaderMemorySize(image, i)
    <2>1. Place /\ LoadInv /\ pc \in Int BY <1>3 DEF IInv, Place
    <2>2. pc >= 7 BY <2>1, LoaderLines
    <2>3. Loadable /\ Loaded(n) /\ DOMAIN ram = Ram BY <2>1, <2>2 DEF LoadInv
    <2>4. n \in Nat /\ \A i \in Segs : Segment(i) BY <2>1, <2>3, ImageFacts
    <2>5. Ram \subseteq Int BY ImageAssumption
    <2>6. \A a : Bytes(a) = {ByteOf(i, a) : i \in {i \in Segs : Filled(i, a)}}
      BY DEF Bytes, ByteOf, Filled
    <2>7. ASSUME NEW a \in Ram
          PROVE  \/ ram[a] = -1 /\ Bytes(a) = {} /\ \A i \in Segs : ~Filled(i, a)
                 \/ ram[a] \in Bytes(a) /\ \E i \in Segs : Filled(i, a) /\ ram[a] = ByteOf(i, a)
      <3>1. \/ ram[a] = -1 /\ \A i \in Segs : ~Filled(i, a)
            \/ \E i \in Segs : Filled(i, a) /\ ram[a] = ByteOf(i, a)
        BY <2>3 DEF Loaded, Segs
      <3> QED BY <2>6, <3>1
    <2>8. ASSUME NEW a \in Ram, NEW i \in Segs, Filled(i, a) PROVE ByteOf(i, a) # -1
      <3>1. a \in Int /\ Segment(i) BY <2>4, <2>5
      <3> QED BY <2>8, <3>1 DEF Filled, ByteOf, Segment
    <2>9. ASSUME NEW a \in Ram
          PROVE  IF Bytes(a) = {} THEN ram[a] = -1 ELSE ram[a] \in Bytes(a)
      BY <2>7
    <2>10. ASSUME NEW a \in Ram, ram[a] # -1
           PROVE  a \in elf_getMemoryBounds(image, TRUE).min
                          .. elf_getMemoryBounds(image, TRUE).max - 1
      <3>1. PICK i \in Segs : Filled(i, a) BY <2>7, <2>10
      <3>2. a \in Int /\ Segment(i) BY <2>4, <2>5
      <3>3. memsz(i) # 0 /\ paddr(i) <= a /\ a < paddr(i) + memsz(i)
        BY <3>1, <3>2 DEF Filled, Segment
      <3>4. /\ elf_getMemoryBounds(image, TRUE).min \in Nat
            /\ elf_getMemoryBounds(image, TRUE).max \in Nat
            /\ elf_getMemoryBounds(image, TRUE).min <= paddr(i)
            /\ paddr(i) + memsz(i) <= elf_getMemoryBounds(image, TRUE).max
        BY <2>1, <2>3, <3>3, BoundsHold
      <3>5. paddr(i) \in Nat /\ memsz(i) \in Nat BY <3>2 DEF Segment
      <3> DEFINE min == elf_getMemoryBounds(image, TRUE).min
                 max == elf_getMemoryBounds(image, TRUE).max
      <3> HIDE DEF min, max, paddr, memsz
      <3>6. min \in Nat /\ max \in Nat /\ min <= paddr(i) /\ paddr(i) + memsz(i) <= max
        BY <3>4 DEF min, max
      <3>7. a \in min .. max - 1 BY <3>2, <3>3, <3>5, <3>6
      <3> QED BY <3>7 DEF min, max
    <2>11. ASSUME NEW i \in Segs,
                  NEW v \in elf_getMemoryBounds(image, FALSE).min
                              .. elf_getMemoryBounds(image, FALSE).max - 1,
                  elf_vaddrInProgramHeader(image, i, v)
           PROVE  LET a == elf_vtopProgramHeader(image, i, v)
                  IN  ram[a] \in Bytes(a) \cup {-1} /\ (ram[a] = -1 => v >= vaddr(i) + filesz(i))
      <3> DEFINE a == v - vaddr(i) + paddr(i)
      <3>1. /\ elf_getMemoryBounds(image, FALSE).min \in Nat
            /\ elf_getMemoryBounds(image, FALSE).max \in Nat
        BY <2>1, <2>3, BoundsHold
      <3>2. v \in Int BY <3>1
      <3>3. v >= vaddr(i) /\ v < vaddr(i) + memsz(i) BY <2>11 DEF elf_vaddrInProgramHeader
      <3>4. Segment(i) BY <2>4
      <3>5. a \in Ram
        <4>1. a \in paddr(i) .. paddr(i) + memsz(i) - 1 BY <3>2, <3>3, <3>4 DEF Segment
        <4> HIDE DEF a
        <4> QED BY <3>4, <4>1 DEF Segment
      <3>6. ~Filled(i, a) => v >= vaddr(i) + filesz(i)
        BY <3>2, <3>3, <3>4 DEF Filled, Segment
      <3>7. elf_vtopProgramHeader(image, i, v) = a BY DEF elf_vtopProgramHeader
      <3> HIDE DEF a
      <3>8. ram[a] = -1 => ~Filled(i, a)
        <4> SUFFICES ASSUME ram[a] = -1, Filled(i, a) PROVE FALSE OBVIOUS
        <4>1. PICK j \in Segs : Filled(j, a) /\ ram[a] = ByteOf(j, a) BY <2>7, <3>5
        <4> QED BY <2>8, <3>5, <4>1
      <3>9. ram[a] \in Bytes(a) \cup {-1} BY <2>7, <3>5
      <3> QED BY <3>6, <3>7, <3>8, <3>9
    <2>12. ASSUME NEW s \in 0 .. elf32_getNumSections(image) - 1, image.e_shstrndx # 0
           PROVE  elf32_getSectionNamed(image, elf32_getSectionName(image, s))
                    = elf32_getSection(image, s)
      BY <2>1, <2>3, <2>12, SectionsFoundByName
    <2> QED BY <2>3, <2>9, <2>10, <2>11, <2>12, Zenon DEF ImageInPlace
  <1>4. Inv => ImageInPlace BY <1>3
  <1> QED BY <1>1, <1>2, <1>4, PTL DEF Spec
=============================================================================
