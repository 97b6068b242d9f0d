SPECIFICATION Spec
CONSTANTS
  f = f
  g = g
  Shells = {s1, s2}
  Ids = {1, 2, 3}
  Builtins = {3}
  Folders <- MCFolders
  Here <- MCHere
  Lines <- MCLines
  FirstManifests <- MCFirstManifests
  FirstPackages = {2}
  Builtin = Builtin
  Package = Package
  None = None
  Broken = Broken
  Truncated = Truncated
  Mixed = Mixed
  MaxLines = 3
  MaxEdits = 1
  MaxKills = 1
SYMMETRY MCSymmetry
INVARIANTS TypeOK ActsAsPreviewed DeploysNamedFolder AddedIsFound RemovedIsGone
PROPERTIES UnreadableStays
CHECK_DEADLOCK FALSE
