SPECIFICATION Spec
CONSTANTS
  MaxStages = 3
  PipeCap = 1
  SourceItems = 2
  MaxInterrupts = 1
  Behaviour <- MCBehaviour
  Lines <- MCLines
  Dirs <- MCDirs
  WordsToQuote <- MCWords
  LoginHome <- MCLoginHome
  StartDir <- MCLoginHome
  MaxLines = 2
  MaxSessions = 2
  MaxPiece = 1
CHECK_DEADLOCK FALSE
INVARIANTS StagesWired PromptIsClean HistoryKept QuotingKeepsWords
PROPERTIES PipelineFinishes
