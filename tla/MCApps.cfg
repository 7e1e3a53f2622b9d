CONSTANTS
  N = 7
  Root = 1
  Pager <- PagerOf
  NIL = nil
  ANY = any
  LOG = log
  ABSENT = absent
  Kinds = {"start", "words"}
  Timeouts = {"none"}
  TableSize = 0
  Images <- MCImages
  NumWords = 4
SPECIFICATION AppSpec
INVARIANTS
  TestsPass
  PingHasPong
PROPERTIES
  AppsProgress
