CONSTANTS
  Width = 6
  Granule = 2
  MaxPages = 20
  MaxSpaces = 3
  Regions = 3
  Pools <- MCPools
  Areas <- MCAreas
  KipArea <- MCKipArea
  Utcb <- MCUtcb
  Stack <- MCStack
  Pc = 8
  Accesses = {8, 12, 18}
  MaxOps = 5
  Outcomes <- MCOutcomes
SPECIFICATION Spec
INVARIANT NoPageLost
PROPERTIES RegionsOfSpace MapExact
CHECK_DEADLOCK FALSE
