SPECIFICATION FairSpec
CONSTANTS
  first = first
  second = second
  preview = preview
  Commands = {first, second, preview}
  Mode <- MCMode
  Coordinators = {"cn1", "cn2"}
  Primary = "cn1"
  Versions = {"v1", "v2"}
  Nothing = Nothing
  MaxFaults = 1
  MaxDrops = 1
INVARIANTS TypeOK CreatedMeansUniform OkMeansRegistered RefusedForAReason
PROPERTIES AllAnswered KeepsContract
CHECK_DEADLOCK FALSE
