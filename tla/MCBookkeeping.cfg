SPECIFICATION Spec
CONSTANTS
  full = full
  bare = bare
  Commands = {c1, c2}
  Plugins <- MCPlugins
  Requests <- MCRequests
  RollbackSql <- MCRollbackSql
  SmokeScripts = {full}
  InstalledProbes = {full}
  RemovedProbes = {full}
  Truncated = Truncated
  Mixed = Mixed
  NoRecord = NoRecord
  MaxFaults = 1
  MaxCrashes = 1
  MaxRegistrations = 1
SYMMETRY MCSymmetry
INVARIANTS TypeOK RecordsKept ArchiveFollowsLog ArchiveMatchesDatabase PassedRollbackRan
PROPERTIES UnreadableStays
CHECK_DEADLOCK FALSE
