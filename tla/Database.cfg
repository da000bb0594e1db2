SPECIFICATION Spec
CONSTANTS
  Ids = {1}
  Values = {7, 8}
  none = none
  NoRow = none
  Headers <- OnlyDefault
  IndexColumns = {"value"}
  Large <- LargeTable
  Garbage <- Damaged
  Reinserts = TRUE
  MaxInserts = 2
  MaxCrashes = 1
INVARIANTS
  AckedRowsStay
  IndexFindsAckedRows
  IndexNeverAhead
PROPERTY ImplementsRowStore
