SPECIFICATION Spec
CONSTANT MaxInserts = 4
INVARIANTS
  HeardRecordsSurvive
  ReplayIsPrefix
  NothingResurrected
