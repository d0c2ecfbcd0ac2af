\* Liveness needs the full graph: no symmetry, one node, no status sync.
SPECIFICATION FairSpec
CONSTANTS
  Op = {o1, o2}
  Node = {n1}
  None = None
  Failed = Failed
  Kinds = {"reinstall", "delete"}
  PollLimit = 1
  Grace = 0
  MaxMoves = 0
  Syncing = FALSE
  Unreachable = TRUE
  SlowInstalls = TRUE
PROPERTY InstallResolved
