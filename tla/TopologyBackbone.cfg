SPECIFICATION TopologySpec
CONSTANTS
  Devices = {1, 2, 3, 4}
  Links <- TwoLinks
  Form <- TwoForm
  Early = {1, 2, 3, 4}
  Stored <- TwoStored
  Loose = {}
  ChannelCap = 1
  NWorkers = 2
  Warmup = 1
  Reassert = 2
  MaxFaults = 1
  NetOf <- TwoNetOf
  Root = 0
  TypeOf <- TwoTypeOf
  HostTiers <- MCHostTiers
  ModelTiers <- MCModelTiers
  Admins = {4}
INVARIANTS RunnerResult
CHECK_DEADLOCK FALSE
