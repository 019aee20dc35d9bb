SPECIFICATION FleetSpec
CONSTANTS
  Ips = {"i", "j"}
  Addresses = {"i", "j"}
  Names = {"x", "y"}
  FirstName <- MCFirstName
  Unnamed = "none"
  Agent = "agent"
  Configured = {}
  Seed = {"i"}
  Hours = {0, 1}
  Heartbeat = TRUE
  GnmiEnabled = TRUE
  HasProxy = TRUE
  MaxChanges = 1
  MaxLosses = 1
  MaxOutages = 1
INVARIANT OneWalkerPerDevice
CHECK_DEADLOCK FALSE
