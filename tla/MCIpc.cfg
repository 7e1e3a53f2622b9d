CONSTANTS
  N = 3
  Root = 1
  Pager <- MCPager
  NIL = nil
  ANY = any
  LOG = log
  ABSENT = absent
  Kinds = {"start", "words", "overflow"}
  Timeouts = {"none", "short", "long"}
  TableSize = 1
SPECIFICATION MCSpec
INVARIANT
  BlockedHasContext
PROPERTIES
  OneTransferPerCall
  PhaseEndsWithTransfer
  Rendezvous
