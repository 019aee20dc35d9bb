SPECIFICATION FairSpec
CONSTANTS
  Targets = {"a", "b"}
  Layouts <- MCLayouts
  Hash <- MCHash
  DeviceType <- MCType
  HeavyTiers <- MCHeavy
  MaxConcurrent = 2
  Shards = 1
  MgmtPort = TRUE
  FastThreshold = 1
  HeavyThreshold = 1
  MaxOthers = 1
  MaxFaults = 1
INVARIANTS SessionsSafe
PROPERTIES HeartbeatGoesOn
CHECK_DEADLOCK FALSE
