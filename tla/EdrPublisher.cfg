CONSTANTS
  NPackets = 3
  Urgent = {2}
  BatchSize = 2
  MaxInFlight = 2
  QueueCap = 2
  DownAfter = 1
  MaxPolls = 1
  MaxAttempts = 2
  MaxRejects = 1
  MaxFlaps = 1
  MaxStops = 1
SPECIFICATION FairSpec
INVARIANTS TypeOK NothingVanishes GateMatchesStreak
PROPERTIES BacklogDrains CollectionResumes
CHECK_DEADLOCK FALSE
