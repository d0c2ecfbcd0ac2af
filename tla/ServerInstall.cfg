\* Two installs, of which the newer may replace the older in the registry, one
\* delete, and a restart of the daemon at any time.
SPECIFICATION FairSpec
CONSTANTS
  Install = {i1, i2}
  Delete = {d1}
  None = None
  Restarts = TRUE
INVARIANTS RegistryNamesNewestInstall WaitedInstallLeavesNoContainer
PROPERTY DeleteAnswered
