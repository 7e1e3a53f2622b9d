SPECIFICATION Spec
CONSTANTS
  Num = 8
  Bits = 9
  WordBits = 5
  Bitband = FALSE
  NULL = NULL
  SymbolTables <- MCTables
  Pcs = {1, 3, 6, 9}
  MaxSampling = 3
  Source = 200
  Dest = 400
  MaxLen = 72
  Directives <- MCDirectives
  MaxDirs = 2
  Numbers = {0, 9, 10, 65535}
  Strings <- MCStrings
  HexDigits = 4
  Heartbeat = 6
  MaxReload = 31
  Word = 1024
  Comp = 0
  IntComp = 0
  Gaps = {2}
  Deltas = {1, 3}
  MaxReal = 22
  MaxRecord = 2
  NumMRs = 6
  NumRegs = 3
  NumBRs = 7
  MaxStr = 4
  Values = {1}
  Lengths = {0, 1}
  Addrs = {1}
  Periods <- MCPeriods
  Bases = {0, 1024, 4096, 8192, 65536}
  Sizes = {1024, 1025, 1536, 2048, 4095, 4096, 65536}
  ThreadNos = {0, 1, 23, 131071}
  Versions = {0, 1, 2, 16383}
  SectionLengths = {0, 100, 256}
  CcmUsed = {0, 20}
  PinConfigs <- MCPins
  Interrupts <- MCInterrupts
  Lines <- MCLines
  Priorities <- MCPriorities
  MaxCalls = 4
  Builds <- MCConsoles
  BufSize = 3
  Chars = {"a", "b"}
  MaxPrinted = 5
INVARIANTS FillsExactly PrintsAsAsked ClockExact BuffersAsAppended EncodingsAgree
  SectionsFound RegistersAsAsked MemoryKeepsLast
PROPERTIES TableIsPool CreditedNear MessageIsSequences
CHECK_DEADLOCK FALSE
