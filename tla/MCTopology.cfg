SPECIFICATION TopologyFairSpec
CONSTANTS
  Devices = {1, 2, 3}
  Links <- MCLinks
  Form <- MCForm
  Early = {1, 2}
  Stored <- MCStored
  Loose <- MCLoose
  ChannelCap = 1
  NWorkers = 2
  Warmup = 1
  Reassert = 2
  MaxFaults = 1
  NetOf <- MCNetOf
  Root = 0
  TypeOf <- MCTypeOf
  HostTiers <- MCHostTiers
  ModelTiers <- MCModelTiers
  Admins = {2}
INVARIANTS LinkStateTrue RunnerResult
PROPERTIES OnlyTrapTurnsOn EveryLinkStored CatchesUp
CHECK_DEADLOCK FALSE
