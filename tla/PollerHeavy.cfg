SPECIFICATION Spec
CONSTANTS
  Targets = {"a", "b"}
  Layouts <- MCRewalk
  Hash <- MCHash
  DeviceType <- MCType
  HeavyTiers <- MCHeavy
  MaxConcurrent = 2
  Shards = 1
  MgmtPort = TRUE
  FastThreshold = 2
  HeavyThreshold = 1
  MaxOthers = 1
  MaxFaults = 2
INVARIANT HeavyNeverSilences
CHECK_DEADLOCK FALSE
