\* Two requests of any kind with their polls, next to the status sync; two nodes.
SPECIFICATION Spec
CONSTANTS
  Op = {o1, o2}
  Node = {n1, n2}
  None = None
  Failed = Failed
  Kinds = {"create", "reinstall", "transfer", "delete", "suspend", "unsuspend",
           "power", "bulk", "stats"}
  PollLimit = 1
  Grace = 1
  MaxMoves = 1
  Syncing = TRUE
  Unreachable = FALSE
  SlowInstalls = FALSE
SYMMETRY Symmetry
INVARIANTS TypeOK OneHome
PROPERTIES DeletedStaysDeleted SuspensionHoldsAgainstObservers
