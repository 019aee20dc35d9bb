SPECIFICATION FairSpec
CONSTANTS
  Boxes = {1, 2, 3}
  Addressless = {3}
  FirstName <- FirstName_
  Names = {1, 2, 3, 4}
  Workers = {1, 2}
  Ids = {1, 2, 3, 4, 5, 6, 7, 8, 9, 10, 11, 12}
  CacheCap = 1
  Plans <- HostPlans
INVARIANTS RowsSound NoStrays
PROPERTIES Converges
CHECK_DEADLOCK FALSE
