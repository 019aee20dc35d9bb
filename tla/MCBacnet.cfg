SPECIFICATION FairSpec
CONSTANTS
  Bindings <- MCBindings
  Plant = {"pump"}
  FirstAlarms = {"pump"}
  UseCOV = TRUE
  Retries = 1
  ChannelCap = 1
  MaxToggles = 2
  MaxFaults = 1
INVARIANTS OncePerEdge
PROPERTIES AlarmKnown
CHECK_DEADLOCK FALSE
