SPECIFICATION FairSpec
CONSTANTS
  Warehouses = {"w1", "w2"}
  MovementTypes = {"stock_in", "transfer_out", "transfer_in"}
  Movements <- TwoMovements
  Entries <- MovementEntries
  Filters <- ByTypeToo
  PageSize = 1
  MaxRequests = 3
INVARIANTS
  TypeOK
  ListIsDescending
  SkipsNothing
  ShowsSelectedUnlessOvertaken
PROPERTY
  LoadingEnds
