CONSTANTS
  NPackets = 2
  EventSources <- TwoEvents
  Energy = {}
  Malformed = {}
  DeviceOf <- NoDevices
  Workers = {w1, w2}
  ChannelSize = 2
  BufferRows = 2
  DepthModulus = 8
  MaxBatch = 2
  MaxSends = 2
  MaxRedisErrs = 1
  MaxDbErrs = 0
  MaxStops = 0
SPECIFICATION Spec
INVARIANTS DropsOnlySeen
CHECK_DEADLOCK FALSE
