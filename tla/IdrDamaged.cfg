SPECIFICATION IdrFairSpec
CONSTANTS
  NPackets = 4
  QueueCap = 2
  FlushAt = 2
  MaxWire = 2
  MaxBreaks = 0
  MaxOutages = 0
  MaxRejects = 0
  MaxStops = 0
  MaxCorrupt = 1
PROPERTIES DamagedEntryLeaves
CHECK_DEADLOCK FALSE
