SPECIFICATION Spec
CONSTANTS
  Kprobes = {p1, p2}
  Kretprobes = {r1}
  NumBkpt = 2
  NumComp = 1
  Flow <- MCFlow
  Size <- MCSize
  Sites <- MCSites
  LR <- MCLR
  RamStart = 4
  Isr = 8
  NULL = NULL
INVARIANTS BreakpointsOwned EveryProbeCalled
