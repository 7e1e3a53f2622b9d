------------------------------- MODULE MCLib -------------------------------
(***************************************************************************)
(* The library of the kernel (tables, memory functions, output, the        *)
(* profiler, the tickless clock), its drivers, and the library of the      *)
(* applications (message buffers, encodings, memory descriptors).  The     *)
(* parts share no state: a behaviour exercises one of them, chosen at the  *)
(* start.                                                                  *)
(***************************************************************************)
EXTENDS KTable, Sampling, MemLib, Printf, Tickless, Messages, Encodings, Descriptors, Devices,
        Console

VARIABLE part

uVars == <<msgVars, bufVars, word, descVars, devVars, conVars>>
kernelVars == <<ktVars, sVars, mVars, pVars, tVars>>
libVars == <<part, kernelVars, uVars>>

\* Five, three and one symbol.
MCTables == {[i \in 0 .. 4 |-> 2 * i + 2], [i \in 0 .. 2 |-> 3 * i + 2], [i \in 0 .. 0 |-> 1]}

D(k, w, z) == [kind |-> k, width |-> w, zero |-> z, c |-> "-"]
MCDirectives == {D("d", 0, FALSE), D("d", 12, FALSE), D("ld", 3, TRUE), D("x", 6, TRUE),
                 D("x", 0, FALSE), D("p", 0, FALSE), D("s", 3, FALSE), D("c", 0, FALSE),
                 D("text", 0, FALSE), [D("text", 0, FALSE) EXCEPT !.c = "\n"]}
MCStrings == {<<"H", "\n">>, <<>>}

MCPeriods == UNION {{2^k - 1, 2^k, 2^k + 1, 2^k + 2^(k-1) + 7} : k \in 1 .. 30}
               \cup {0, 389, 390, 391, 500000, 1000000}

Pin(pin, pupd, func, o_type) == [port |-> 0, pin |-> pin, pupd |-> pupd, speed |-> 2,
                                 type |-> GPIO_MODER_ALT, func |-> func, o_type |-> o_type]
MCPins == {Pin(7, 1, 9, 1), Pin(8, 2, 15, 1), Pin(9, 0, 7, 0)}
MCInterrupts == {CR1 * 256 + 7, USART_IT_RXNE, CR2 * 256 + 6, USART_IT_CTS}
\* The console of the board on USART1 and, at a lower rate, on UART4.
MCLines == {[u_num |-> 4, fast |-> TRUE, baud |-> 115200, irq |-> 37,
             tx |-> Pin(9, 0, 7, 0), rx |-> Pin(10, 0, 7, 0)],
            [u_num |-> 4, fast |-> FALSE, baud |-> 9600, irq |-> 52,
             tx |-> Pin(0, 0, 8, 0), rx |-> Pin(1, 0, 8, 0)]}
MCPriorities == {[irq |-> 37, group |-> 3, sub |-> 1], [irq |-> -1, group |-> 1, sub |-> 6],
                 [irq |-> 5, group |-> 0, sub |-> 9]}

MCConsoles == {<<"uart">>, <<"ram">>, <<"uart", "ram">>}

MCBuild == [ktext |-> 256, utext |-> 256, kdata |-> 256, udata |-> 256, ubss |-> 256, ccm |-> 0,
            loader |-> FALSE]

\* The parts that a behaviour does not exercise start in one state.
Fixed(p, init, choice) == IF part = p THEN init ELSE choice /\ init

Init == /\ part \in {"table", "sampling", "memory", "print", "tickless",
                    "message", "buffer", "encodings", "descriptors", "devices",
                    "console"}
        /\ tInit /\ MsgInit /\ BufInit /\ devInit
        /\ Fixed("table", ktInit, bits = {})
        /\ Fixed("console", conInit, build = <<"uart">>)
        /\ Fixed("descriptors", DescInit, memmap = Linked(MCBuild))
        /\ Fixed("sampling", sInit, tbl = [i \in 0 .. 0 |-> 1])
        /\ Fixed("memory", mInit, call = [fn |-> "memset", d |-> Dest, n |-> 0])
        /\ Fixed("print", pInit, dirs = <<>> /\ enabledLayer = TRUE)
        /\ Fixed("encodings", EncInit, word = [what |-> "tag", a |-> 0, b |-> 0])

Next == /\ UNCHANGED part
        /\ \/ part = "table" /\ ktNext /\ UNCHANGED <<sVars, mVars, pVars, tVars, uVars>>
           \/ part = "sampling" /\ sNext /\ UNCHANGED <<ktVars, mVars, pVars, tVars, uVars>>
           \/ part = "memory" /\ mNext /\ UNCHANGED <<ktVars, sVars, pVars, tVars, uVars>>
           \/ part = "print" /\ pNext /\ UNCHANGED <<ktVars, sVars, mVars, tVars, uVars>>
           \/ part = "tickless" /\ tNext /\ UNCHANGED <<ktVars, sVars, mVars, pVars, uVars>>
           \/ part = "message" /\ MsgNext /\ UNCHANGED <<kernelVars, word, descVars, devVars, conVars>>
           \/ part = "buffer" /\ BufNext /\ UNCHANGED <<kernelVars, word, descVars, devVars, conVars>>
           \/ part = "descriptors" /\ DescNext
                /\ UNCHANGED <<kernelVars, msgVars, bufVars, word, devVars, conVars>>
           \/ part = "devices" /\ devNext
                /\ UNCHANGED <<kernelVars, msgVars, bufVars, word, descVars, conVars>>
           \/ part = "console" /\ conNext
                /\ UNCHANGED <<kernelVars, msgVars, bufVars, word, descVars, devVars>>

Spec == Init /\ [][Next]_libVars
=============================================================================
