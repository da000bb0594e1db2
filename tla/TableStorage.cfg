SPECIFICATION SpecStorage
CONSTANTS
  MaxKeys = 2
  Keys = {1, 2, 3, 4, 5}
  MaxInserts = 7
  CachePages = 4
  MaxStored = 4
CHECK_DEADLOCK FALSE
INVARIANTS
  ChainFollowsTree
  PagesAreOneTree
  TableIsMap
  IndexKeepsAll
  FileIsLastCheckpoint
