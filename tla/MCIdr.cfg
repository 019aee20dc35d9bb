SPECIFICATION IdrFairSpec
CONSTANTS
  NPackets = 4
  QueueCap = 2
  FlushAt = 2
  MaxWire = 2
  MaxBreaks = 1
  MaxOutages = 1
  MaxRejects = 1
  MaxStops = 1
  MaxCorrupt = 1
INVARIANTS PacketsAccounted
PROPERTIES OutageKeepsQueue QueueDrains
CHECK_DEADLOCK FALSE
