SPECIFICATION MCSpec
CONSTANTS
  cn1 = cn1
  cn2 = cn2
  dn1 = dn1
  dn2 = dn2
  Inits = {i1, i2}
  Readers = {b1, b2}
  Requests <- MCRequests
  Servers = {"new", "old", "gone"}
  Nodes <- MCNodes
  Role <- MCRole
  PrintRank <- AsPrinted
  CtlRank <- ByName
  PgxcRank <- ByName
  Local <- MCLocal
  Described <- MCDescribed
  FirstFiles <- MCFiles
  None = None
  NoFile = NoFile
  Truncated = Truncated
  Mixed = Mixed
  MaxDisturbances = 1
  Manifests <- MCManifests
  Installed = {"new", "old"}
  InPath = "old"
SYMMETRY Alike
INVARIANTS
  BuildTypeOK PortsMatchNodes AutoFindsWhatAnswers LoadedIsWhole InitTakesEffect GoodBuildIsFresh
CHECK_DEADLOCK FALSE
