------------------------------ MODULE MCProbes ------------------------------
EXTENDS Probes, TLC

\* A loop in flash, 0 and 2, that calls a function in RAM, 4 and 6, and the one
\* instruction of an interrupt handler, 8.  A kretprobe is placed at the function.
MCFlow == (0 :> {4}) @@ (2 :> {0}) @@ (4 :> {6}) @@ (6 :> {2}) @@ (8 :> {})
MCSize == [a \in {0, 2, 4, 6, 8} |-> 2]
MCLR == [a \in {0, 2, 4, 6, 8} |-> 2]
MCSites == [p \in AllProbes |-> IF p \in Kretprobes THEN {4} ELSE {0, 2, 4}]
=============================================================================
