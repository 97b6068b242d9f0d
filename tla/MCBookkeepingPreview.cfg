SPECIFICATION Spec
CONSTANTS
  full = full
  bare = bare
  Commands = {c1}
  Plugins <- MCPlugins
  Requests <- MCRequests
  RollbackSql <- MCRollbackSql
  SmokeScripts = {full}
  InstalledProbes = {full}
  RemovedProbes = {full}
  Truncated = Truncated
  Mixed = Mixed
  NoRecord = NoRecord
  MaxFaults = 1
  MaxCrashes = 0
  MaxRegistrations = 0
SYMMETRY MCSymmetry
INVARIANTS RemovedMeansRolledBack
CHECK_DEADLOCK FALSE
