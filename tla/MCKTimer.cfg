CONSTANTS
  Deliver = deliver
  Sleeps = {s1, s2}
  Mod = 16
  MinTicks = 2
  MaxTicks = 3
  First = 2
  Period = 6
  SleepTicks = {0, 1, 3, 5, 7}
SPECIFICATION FairSpec
INVARIANTS
  ListMatchesTable
PROPERTIES
  LeavesByRunning
  KeepsExpiring
