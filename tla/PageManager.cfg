SPECIFICATION Spec
CONSTANTS
  a = a
  b = b
  blank = blank
  Contents = {blank, a}
  Blank = blank
  CacheSize = 2
  MaxPages = 3
INVARIANTS
  TypeOK
  LruMatchesCache
  EvictsLeastRecent
  SyncedSizeSurvives
  CleanMatchesFile
  CrashKeepsAVersion
PROPERTY ImplementsPageStore
