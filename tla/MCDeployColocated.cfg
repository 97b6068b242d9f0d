SPECIFICATION FairSpec
CONSTANTS
  cn = cn
  dn = dn
  hostA = hostA
  hostB = hostB
  Coordinators <- MCCoordinators
  Datanodes <- MCDatanodes
  NodeRank <- MCNodeRank
  Site <- OneHost
  Files <- SqlFiles
  FileRank <- SqlFileRank
  Manifest = "manifest"
  Scanned = {}
  SourceRoot = TRUE
  Declared = {"install_sql"}
  OutsideRoot = {}
  Suffix <- SqlSuffix
  Base <- SqlBase
  PackageDir <- SqlPackageDir
  Versions = {"v0", "v1"}
  Current = "v1"
  Leftovers <- NothingThere
  Absent = Absent
  Torn = Torn
  Backend = "ssh_scp"
  MaxWorkers = 2
  MaxFaults = 0
  MaxEdits = 0
INVARIANTS FaultlessDeploySucceeds
CHECK_DEADLOCK FALSE
