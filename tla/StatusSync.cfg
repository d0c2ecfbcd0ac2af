SPECIFICATION FairSpec
CONSTANTS
  Worker = {w1, w2}
  Server = {s1, s2}
  None = None
  MaxMoves = 3
INVARIANTS ADeleteKillsOneLoop
PROPERTY FollowsOrDies
