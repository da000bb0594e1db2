SPECIFICATION Spec
CONSTANTS
  Ids = {1}
  Values = {7}
  none = none
  NoRow = none
  Headers <- OnlyDefault
  IndexColumns = {"value"}
  Large = {}
  Garbage = {}
  Reinserts = FALSE
  MaxInserts = 2
  MaxCrashes = 0
INVARIANT EachRowOnce
