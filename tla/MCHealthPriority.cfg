SPECIFICATION MCSpec
CONSTANTS
  cn1 = cn1
  cn2 = cn2
  dn1 = dn1
  Coordinators = {cn1, cn2}
  Datanodes = {dn1}
  Home = cn1
  NodeRank <- MCNodeRank
  FileRank <- MCFileRank
  Files = {"library", "rollback_sql"}
  Scanned = {}
  Declared = {"library"}
  Libraries = {"library"}
  Scripts = {"rollback_sql"}
  Unsupported = {}
  Builds = {"b1", "b2"}
  Versions = {"1.0"}
  Absent = Absent
  NameValid = TRUE
  CProject = TRUE
  RemovedProbe = TRUE
  MaxWorkers = 2
  MaxFaults = 1
  MaxChanges = 1
INVARIANT RegisteredTakesPriority
CHECK_DEADLOCK FALSE
