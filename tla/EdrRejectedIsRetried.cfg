CONSTANTS
  NPackets = 3
  Urgent = {2}
  BatchSize = 2
  MaxInFlight = 2
  QueueCap = 2
  DownAfter = 2
  MaxPolls = 2
  MaxAttempts = 2
  MaxRejects = 1
  MaxFlaps = 1
  MaxStops = 1
SPECIFICATION Spec
INVARIANTS RejectedIsRetried
CHECK_DEADLOCK FALSE
