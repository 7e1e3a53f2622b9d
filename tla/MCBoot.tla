------------------------------- MODULE MCBoot -------------------------------
EXTENDS Boot, TLC

MCRam == 0 .. 15

MCHooks == [h \in {"dbg_device_init_hook"} |-> PLATFORM]
           @@ [h \in {"sched_init", "memory_init", "ksym_init"} |-> KERNEL_EARLY]
           @@ [h \in {"thread_init_subsys", "ktimer_event_init", "syscall_init", "kprobe_init",
                      "kdb_init"} |-> KERNEL]

Ph(p, v, o, f, m) == [p_paddr |-> p, p_vaddr |-> v, p_offset |-> o, p_filesz |-> f, p_memsz |-> m]
Sh(n, o) == [sh_name |-> n, sh_offset |-> o]

\* A file: program headers at 52, sections (none, text, data, names) at 80, names at 90.
File(l, m, c, shstrndx, ph) ==
  [loader |-> l, magic |-> m, class |-> c, e_entry |-> 1, e_phoff |-> 52, e_phnum |-> Len(ph),
   e_shoff |-> 80, e_shnum |-> 4, e_shstrndx |-> shstrndx,
   tables |-> (52 :> ph) @@ (80 :> <<Sh(0, 0), Sh(1, 2), Sh(7, 6), Sh(13, 90)>>),
   names |-> (90 :> "") @@ (91 :> ".text") @@ (97 :> ".data") @@ (103 :> ".shstrtab")]
MCImages == {File(FALSE, FALSE, 0, 0, <<>>), File(TRUE, FALSE, 32, 0, <<>>),
             File(TRUE, TRUE, 64, 3, <<Ph(0, 0, 2, 4, 4)>>),
             File(TRUE, TRUE, 32, 3, <<Ph(0, 20, 2, 4, 4), Ph(4, 24, 6, 3, 6), Ph(10, 10, 9, 2, 2)>>),
             File(TRUE, TRUE, 32, 0, <<Ph(8, 8, 1, 4, 6), Ph(2, 2, 20, 6, 6), Ph(1, 1, 0, 0, 0)>>)}
=============================================================================
