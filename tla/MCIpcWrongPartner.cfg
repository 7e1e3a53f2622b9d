CONSTANTS
  N = 3
  Root = 1
  Pager <- MCPager
  NIL = nil
  ANY = any
  LOG = log
  ABSENT = absent
  Kinds = {"start", "words"}
  Timeouts = {"none"}
  TableSize = 0
SPECIFICATION MCSpec
PROPERTY SentToWaiting
