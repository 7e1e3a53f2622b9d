CONSTANTS
  Size = 4
  MaxTx = 4
  MaxRx = 4
  TxPending = 2
  RxPending = 2
  MayPanic = TRUE
SPECIFICATION FairSpec
INVARIANTS
  AtMostOneStranded
PROPERTIES
  RxIsFifo
  BusyEnds
CHECK_DEADLOCK FALSE
