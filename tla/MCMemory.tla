------------------------------ MODULE MCMemory ------------------------------
(***************************************************************************)
(* A small memory: 64 addresses, pages of two and more.  The root thread   *)
(* hands out parts of user text and data, which are pages of four, and     *)
(* free memory that takes two pages; two UTCBs share a page, as UTCBs of   *)
(* 128 bytes do in pages of 256.                                           *)
(***************************************************************************)
EXTENDS Memory

Area(base, size) == [base |-> base, size |-> size]

MCPools ==
  {[start |-> 2, end |-> 6, user |-> FALSE, always |-> FALSE],     \* KIP
   [start |-> 8, end |-> 12, user |-> TRUE, always |-> TRUE],      \* UTEXT
   [start |-> 12, end |-> 16, user |-> TRUE, always |-> TRUE],     \* UDATA
   [start |-> 32, end |-> 34, user |-> TRUE, always |-> TRUE],     \* UBSS
   [start |-> 16, end |-> 32, user |-> FALSE, always |-> FALSE]}   \* MEM0
MCAreas == {Area(8, 2), Area(10, 2), Area(14, 2), Area(26, 4)}
MCKipArea == <<Area(2, 2), Area(4, 1)>>
MCUtcb == <<Area(5, 1), Area(18, 1), Area(19, 1)>>
MCStack == <<Area(32, 2), Area(26, 4), Area(28, 2)>>
MCOutcomes == {[end |-> FALSE, fault |-> f] : f \in BOOLEAN}
=============================================================================
