CONSTANTS
  NPackets = 4
  EventSources <- MCEventSources
  Energy = {3}
  Malformed = {4}
  DeviceOf <- MCDeviceOf
  Workers = {w1, w2}
  ChannelSize = 1
  BufferRows = 2
  DepthModulus = 8
  MaxBatch = 2
  MaxSends = 3
  MaxRedisErrs = 1
  MaxDbErrs = 1
  MaxStops = 1
SPECIFICATION FairSpec
INVARIANTS Accounted EventStoredOnce
PROPERTIES AllSettles
CHECK_DEADLOCK FALSE
