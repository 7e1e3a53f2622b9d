CONSTANTS
  MaxThreads = 6
  MaxSpaces = 3
  UserTids = {3, 4, 5}
  Disciplined = TRUE
SPECIFICATION Spec
VIEW View
INVARIANTS
  MapFindsAll
  SelectFindsRunnable
  SpacesCounted
