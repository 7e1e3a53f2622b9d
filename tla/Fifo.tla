-------------------------------- MODULE Fifo --------------------------------
(***************************************************************************)
(* What the documentation of lib/queue.h promises: elements leave in the   *)
(* order in which they came, and none is lost.                             *)
(***************************************************************************)
EXTENDS Sequences

CONSTANT Elements

VARIABLES
  buf,  \* the elements in the queue
  got   \* those that were taken out of it, in order

Init == buf = <<>> /\ got = <<>>

Push == \E x \in Elements : buf' = Append(buf, x) /\ UNCHANGED got

Pop == buf # <<>> /\ buf' = Tail(buf) /\ got' = Append(got, Head(buf))

Spec == Init /\ [][Push \/ Pop]_<<buf, got>>

=============================================================================
