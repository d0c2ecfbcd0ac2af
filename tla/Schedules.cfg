SPECIFICATION FairSpec
CONSTANTS
  Worker = {w1, w2}
  Schedule = {s1, s2}
  Recurring = {s1}
  Period = 3
  OnceWindow = 4
  CronWindow = 10
  None = None
  Deleted = Deleted
  MaxCrashes = 1
INVARIANTS TypeOK FiredOncePerCrash MissedOnlyAfterFault
PROPERTY KeepsFiring
