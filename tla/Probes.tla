------------------------------ MODULE Probes ------------------------------
(***************************************************************************)
(* Kernel probes (kernel/kprobes.c, platform/kprobes-arch.c) on hardware    *)
(* and software breakpoints (platform/breakpoint*.c), with the processor    *)
(* that runs into them: a probed instruction raises the debug monitor       *)
(* exception, is then single-stepped with its breakpoint disabled, and the  *)
(* exception behind it enables the breakpoint again.                        *)
(***************************************************************************)
EXTENDS Integers, Sequences, FiniteSets

CONSTANTS Kprobes, Kretprobes,  \* the probes; a kretprobe fires on a return
          NumBkpt, NumComp,     \* BKPT_MAX_NUM and FPB_MAX_COMP
          Flow,                 \* the program: address -> possible next addresses
          Size,                 \* bytes of the instruction at an address
          Sites,                \* probe -> the addresses it may be placed at
          LR,                   \* address -> the link register when it is reached
          RamStart,             \* addresses from here on are in RAM (0x20000000)
          Isr,                  \* address of the one instruction of a handler
          NULL

VARIABLES k,          \* the probes and breakpoints, a record (see ProbesInit)
          owned,      \* the probes whose owner has registered them
          pc,         \* the instruction to be executed next
          resume,     \* where the interrupt handler returns to, or NULL
          monStep,    \* DEMCR.MON_STEP: the address being stepped, or NULL
          halted,     \* a single step has been completed (DFSR.HALTED)
          strayed,    \* probed addresses whose last step ended elsewhere than behind
          dropped     \* whether a kretprobe failed to register itself again

vars == <<k, owned, pc, resume, monStep, halted, strayed, dropped>>

AllProbes == Kprobes \cup Kretprobes
Addrs == DOMAIN Flow
Slots == 0 .. NumBkpt - 1
Comps == 0 .. NumComp - 1
BKPT == -2                                   \* the instruction 0xbe11
First(S) == CHOOSE x \in S : \A y \in S : x <= y

-----------------------------------------------------------------------------
(* platform/breakpoint.c, breakpoint-hard.c, breakpoint-soft.c *)

breakpoint_type_by_addr(a) == IF a < RamStart THEN "hard" ELSE "soft"

Avail(s) == {b \in Slots : s.bp[b].type = "none"}
AvailHard(s) == {c \in Comps : s.hard[c] = -1}

hard_breakpoint_config(s, b, a) ==
  LET c == First(AvailHard(s))
  IN  [s EXCEPT !.hard[c] = b, !.bp[b] = [type |-> "hard", addr |-> a, raw |-> c]]
soft_breakpoint_config(s, b, a) ==
  [s EXCEPT !.bp[b] = [type |-> "soft", addr |-> a, raw |-> s.text[a]]]

\* Whether breakpoint_install() returns a breakpoint, and what it sets up then.
Installs(s, a) == Avail(s) # {} /\ (breakpoint_type_by_addr(a) = "hard" => AvailHard(s) # {})
breakpoint_install(s, a) ==
  IF breakpoint_type_by_addr(a) = "hard" THEN hard_breakpoint_config(s, First(Avail(s)), a)
  ELSE soft_breakpoint_config(s, First(Avail(s)), a)

\* The functions of a slot are those of its last configuration.
IsSoft(s, b) == breakpoint_type_by_addr(s.bp[b].addr) = "soft"

hard_breakpoint_enable(s, b) == [s EXCEPT !.comp[s.bp[b].raw] = s.bp[b].addr]
hard_breakpoint_disable(s, b) == [s EXCEPT !.comp[s.bp[b].raw] = NULL]
hard_breakpoint_release(s, b) ==
  [s EXCEPT !.comp[s.bp[b].raw] = NULL, !.hard[s.bp[b].raw] = -1, !.bp[b].type = "none"]

insert_bkpt(s, b) == [s EXCEPT !.text[s.bp[b].addr] = BKPT]
delete_bkpt(s, b) == [s EXCEPT !.text[s.bp[b].addr] = s.bp[b].raw]
\* A released software breakpoint leaves its instruction where it is.
soft_breakpoint_release(s, b) == [s EXCEPT !.bp[b].type = "none"]

enable_breakpoint(s, b) == IF IsSoft(s, b) THEN insert_bkpt(s, b) ELSE hard_breakpoint_enable(s, b)
disable_breakpoint(s, b) == IF IsSoft(s, b) THEN delete_bkpt(s, b) ELSE hard_breakpoint_disable(s, b)
breakpoint_uninstall(s, b) ==
  IF IsSoft(s, b) THEN soft_breakpoint_release(s, b) ELSE hard_breakpoint_release(s, b)

-----------------------------------------------------------------------------
(* kernel/kprobes.c and platform/kprobes-arch.c *)

RECURSIVE ListFrom(_, _)
ListFrom(s, p) == IF p = NULL THEN <<>> ELSE <<p>> \o ListFrom(s, s.next[p])
Listed(s) == {ListFrom(s, s.head)[i] : i \in DOMAIN ListFrom(s, s.head)}

RECURSIVE SearchFrom(_, _, _)
SearchFrom(s, a, p) == IF p = NULL \/ s.addr[p] = a THEN p ELSE SearchFrom(s, a, s.next[p])
kplist_search(s, a) == SearchFrom(s, a, s.head)

\* A bug: the probe is appended, not prepended.
kplist_add_last(s, p) ==
  LET tail == {q \in Listed(s) : s.next[q] = NULL}
  IN  IF tail = {} THEN [s EXCEPT !.head = p, !.next[p] = NULL]
      ELSE [s EXCEPT !.next = [q \in AllProbes |-> IF q = p THEN NULL
                                                   ELSE IF q \in tail THEN p ELSE s.next[q]]]
kplist_add(s, p) == [s EXCEPT !.next[p] = s.head, !.head = p]
kplist_del(s, p) ==
  IF s.head = p THEN [s EXCEPT !.head = s.next[p]]
  ELSE [s EXCEPT !.next = [q \in AllProbes |-> IF q \in Listed(s) /\ s.next[q] = p
                                               THEN s.next[p] ELSE s.next[q]]]

Adds(s, p, a) == kplist_search(s, a) # NULL \/ Installs(s, a)
kprobe_arch_add(s, p) ==
  LET found == kplist_search(s, s.addr[p])
      b == First(Avail(s))
  IN  IF found # NULL THEN [s EXCEPT !.bkpt[p] = s.bkpt[found]]
      ELSE [enable_breakpoint(breakpoint_install(s, s.addr[p]), b) EXCEPT !.bkpt[p] = b]

\* A bug: the breakpoint is released though another probe shares it.
kprobe_arch_del_always(s, p) == breakpoint_uninstall(s, s.bkpt[p])
kprobe_arch_del(s, p) ==
  IF kplist_search(s, s.addr[p]) = NULL THEN breakpoint_uninstall(s, s.bkpt[p]) ELSE s

At(s, p, a) == [s EXCEPT !.addr[p] = a]
step_addr(s, p) == s.addr[p] + Size[s.addr[p]]

\* Both addresses are set even when no breakpoint is left.
kprobe_register(s, p, a) ==
  IF Adds(s, p, a) THEN kplist_add(kprobe_arch_add(At(s, p, a), p), p) ELSE At(s, p, a)
kprobe_unregister(s, p) == kprobe_arch_del(kplist_del(s, p), p)

kretprobe_register(s, p, a) ==
  kprobe_register([s EXCEPT !.pre[p] = "entry", !.post[p] = "none"], p, a)

__kretprobe_pre_handler(s, p) ==
  kprobe_register([kprobe_unregister(s, p) EXCEPT !.backup[p] = s.addr[p],
                                                  !.pre[p] = "user", !.post[p] = "return"],
                  p, LR[s.addr[p]])
__kretprobe_post_handler(s, p) == kretprobe_register(kprobe_unregister(s, p), p, s.backup[p])

PreHandler(s, p) == IF s.pre[p] = "entry" THEN __kretprobe_pre_handler(s, p) ELSE s
PostHandler(s, p) == IF s.post[p] = "return" THEN __kretprobe_post_handler(s, p) ELSE s

\* The two loops, with the probes whose handlers they have called: a handler may
\* move its own probe to the head of the list.
RECURSIVE kprobe_prebreak(_, _)
kprobe_prebreak(r, p) ==
  LET visit(n) == kprobe_prebreak(n, n.s.next[p])
  IN  IF p = NULL THEN r
      ELSE IF r.s.addr[p] = pc /\ r.s.pre[p] # "none"
      THEN visit([s |-> PreHandler(r.s, p), called |-> r.called \cup {p}])
      ELSE visit(r)

Prebreak == kprobe_prebreak([s |-> k, called |-> {}], k.head)

RECURSIVE kprobe_postbreak(_, _)
kprobe_postbreak(r, p) ==
  LET visit(n) == kprobe_postbreak(n, n.s.next[p])
  IN  IF p = NULL THEN r
      ELSE IF step_addr(r.s, p) = pc /\ r.s.post[p] # "none"
      THEN visit([s |-> PostHandler(r.s, p), called |-> r.called \cup {p}])
      ELSE visit(r)

RECURSIVE kprobe_breakpoint_enable(_, _)
kprobe_breakpoint_enable(s, p) ==
  IF p = NULL THEN s
  ELSE kprobe_breakpoint_enable(IF step_addr(s, p) = pc THEN enable_breakpoint(s, s.bkpt[p]) ELSE s,
                                s.next[p])
RECURSIVE kprobe_breakpoint_disable(_, _)
kprobe_breakpoint_disable(s, p) ==
  IF p = NULL THEN s
  ELSE kprobe_breakpoint_disable(IF s.addr[p] = pc THEN disable_breakpoint(s, s.bkpt[p]) ELSE s,
                                 s.next[p])
-----------------------------------------------------------------------------
(* The processor and the owners of the probes *)

kprobe_init == [head |-> NULL, next |-> [p \in AllProbes |-> NULL],
                addr |-> [p \in AllProbes |-> 0],
                backup |-> [p \in AllProbes |-> 0], bkpt |-> [p \in AllProbes |-> 0],
                pre |-> [p \in AllProbes |-> "user"], post |-> [p \in AllProbes |-> "user"],
                bp |-> [b \in Slots |-> [type |-> "none", addr |-> 0, raw |-> 0]],
                hard |-> [c \in Comps |-> -1],
                comp |-> [c \in Comps |-> NULL],
                text |-> [a \in Addrs |-> a]]

Init == /\ k = kprobe_init /\ owned = {}
        /\ pc = First(Addrs) /\ resume = NULL /\ monStep = NULL /\ halted = FALSE
        /\ strayed = {} /\ dropped = FALSE

\* The history variables strayed and dropped after a step.
Keeps(stray) == /\ strayed' = {a \in stray : kplist_search(k', a) # NULL}
                /\ dropped' = (dropped \/ ~(owned' \subseteq Listed(k')))

\* Probes are registered and unregistered by kernel code outside of the exceptions.
Thread == monStep = NULL /\ resume = NULL

Register(p, a) ==
  /\ Thread /\ p \notin owned
  /\ k' = IF p \in Kprobes THEN kprobe_register(k, p, a) ELSE kretprobe_register(k, p, a)
  /\ owned' = IF Adds(k, p, a) THEN owned \cup {p} ELSE owned
  /\ Keeps(strayed)
  /\ UNCHANGED <<pc, resume, monStep, halted>>

\* The structure of an unregistered probe is its owner's again.
Forget(s, p) == [s EXCEPT !.next[p] = NULL, !.addr[p] = 0, !.backup[p] = 0, !.bkpt[p] = 0,
                          !.pre[p] = "user", !.post[p] = "user"]

Unregister(p) ==
  /\ Thread /\ p \in owned
  /\ k' = Forget(kprobe_unregister(k, p), p) /\ owned' = owned \ {p}
  /\ Keeps(strayed)
  /\ UNCHANGED <<pc, resume, monStep, halted>>

\* The fetch of the next instruction raises the exception.
Trapped == k.text[pc] = BKPT \/ \E c \in Comps : k.comp[c] = pc

\* arch_kprobe_handler() with DFSR.BKPT.
HandleBkpt ==
  /\ ~halted /\ Trapped
  /\ \E r \in {Prebreak} :
       k' = kprobe_breakpoint_disable(r.s, r.s.head)
  /\ monStep' = pc /\ UNCHANGED <<owned, pc, resume, halted>> /\ Keeps(strayed)

\* With DFSR.HALTED.
HandleHalted ==
  /\ halted /\ halted' = FALSE /\ monStep' = NULL
  /\ \E r \in {kprobe_postbreak([s |-> k, called |-> {}], k.head)} :
       k' = kprobe_breakpoint_enable(r.s, r.s.head)
  /\ UNCHANGED <<owned, pc, resume>>
  /\ Keeps(IF pc = monStep + Size[monStep] THEN strayed \ {monStep} ELSE strayed \cup {monStep})

Execute ==
  /\ ~halted /\ ~Trapped
  /\ IF pc = Isr THEN pc' = resume /\ resume' = NULL
     ELSE pc' \in Flow[pc] /\ UNCHANGED resume
  /\ halted' = (monStep # NULL)
  /\ UNCHANGED <<k, owned, monStep, strayed, dropped>>

Interrupt ==
  /\ ~halted /\ resume = NULL
  /\ resume' = pc /\ pc' = Isr
  /\ UNCHANGED <<k, owned, monStep, halted, strayed, dropped>>

Next == \/ \E p \in AllProbes : Unregister(p) \/ \E a \in Sites[p] : Register(p, a)
        \/ HandleBkpt \/ HandleHalted \/ Execute \/ Interrupt

Spec == Init /\ [][Next]_vars

-----------------------------------------------------------------------------
Armed(a) == k.text[a] = BKPT \/ \E c \in Comps : k.comp[c] = a

\* Unless a kretprobe was dropped, every registered probe has a breakpoint at its
\* address, probes share one exactly when they share the address, nothing else
\* occupies a slot or a comparator, and each comparator knows its slot: none
\* leaks when a registration fails half-way or a kretprobe moves between a
\* function and its return address (kprobe_arch_add(), kprobe_arch_del()).  The
\* breakpoint is off only while its instruction is being stepped, or after a step
\* that an interrupt or a branch led elsewhere than to step_addr, where
\* kprobe_breakpoint_enable() looks for it.
BreakpointsOwned ==
  ~dropped =>
    /\ Listed(k) = owned
    /\ \A p \in owned : k.bp[k.bkpt[p]].type # "none" /\ k.bp[k.bkpt[p]].addr = k.addr[p]
    /\ \A p, q \in owned : k.addr[p] = k.addr[q] => k.bkpt[p] = k.bkpt[q]
    /\ Slots \ Avail(k) = {k.bkpt[p] : p \in owned}
    /\ \A b \in Slots : k.bp[b].type = "hard" => k.hard[k.bp[b].raw] = b
    /\ Cardinality(AvailHard(k)) = NumComp - Cardinality({b \in Slots : k.bp[b].type = "hard"})
    /\ \A p \in owned : Armed(k.addr[p]) \/ k.addr[p] = monStep \/ k.addr[p] \in strayed

\* kprobe_prebreak() skips no probe of the address, though the handlers of
\* kretprobes unlink themselves and move to the head of the list it walks.
EveryProbeCalled ==
  ~halted /\ Trapped => {p \in Listed(k) : k.addr[p] = pc} \subseteq Prebreak.called
=============================================================================
