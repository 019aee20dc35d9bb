CONSTANTS
  Rows <- MCRows
  TableOrder <- MCTableOrder
  Table <- MCTable
  Scopes = {"A", "B"}
  Scope <- MCScope
  Ends <- MCEnds
  Limit <- MCLimit
  MaxIdleSkips = 1
  Attempts = 2
  MaxLate = 1
  MaxClock = 3
  MaxFaults = 1
SPECIFICATION FairSpec
INVARIANTS CursorsSafe WakeCovers
PROPERTIES EventuallySent
