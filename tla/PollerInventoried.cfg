SPECIFICATION Spec
CONSTANTS
  Targets = {"a", "b"}
  Layouts <- MCLayouts
  Hash <- MCHash
  DeviceType <- MCType
  HeavyTiers <- MCHeavy
  MaxConcurrent = 2
  Shards = 1
  MgmtPort = TRUE
  FastThreshold = 1
  HeavyThreshold = 1
  MaxOthers = 1
  MaxFaults = 1
INVARIANT InventoriedBeforeDone
CHECK_DEADLOCK FALSE
