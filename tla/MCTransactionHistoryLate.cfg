SPECIFICATION Spec
CONSTANTS
  Warehouses = {"w1", "w2"}
  MovementTypes = {"stock_in", "transfer_out", "transfer_in"}
  Movements <- TwoMovements
  Entries <- MovementEntries
  Filters <- AllOrOne
  PageSize = 1
  MaxRequests = 3
INVARIANT
  ShowsSelected
