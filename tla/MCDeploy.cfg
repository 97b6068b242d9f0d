SPECIFICATION FairSpec
CONSTANTS
  cn = cn
  dn = dn
  hostA = hostA
  hostB = hostB
  Coordinators <- MCCoordinators
  Datanodes <- MCDatanodes
  NodeRank <- MCNodeRank
  Site <- SeparateHosts
  Files <- MCFiles
  FileRank <- MCFileRank
  Manifest = "manifest"
  Scanned = {"library"}
  SourceRoot = TRUE
  Declared = {"install_sql"}
  OutsideRoot = {}
  Suffix <- MCSuffix
  Base <- MCBase
  PackageDir <- MCPackageDir
  Versions = {"v1", "v2"}
  Current = "v1"
  Leftovers <- NothingThere
  Absent = Absent
  Torn = Torn
  Backend = "ssh_scp"
  MaxWorkers = 2
  MaxFaults = 1
  MaxEdits = 1
INVARIANTS TypeOK DeployedMatchesPlan NoFaultSwallowed FaultlessDeploySucceeds VerifiedCopiesStay
PROPERTIES OnlyPlannedWrites
CHECK_DEADLOCK FALSE
