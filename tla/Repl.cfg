SPECIFICATION Spec
CONSTANTS
  Words <- MCWords
  Digits <- MCDigits
  MaxInt = 8
  Lines <- MCLines
  Probes <- MCProbes
  HistoryLimit = 2
  MaxLines = 3
  MaxRestarts = 1
CHECK_DEADLOCK FALSE
INVARIANTS ParserKnowsTheDialect StatementsRunWhole AnswersAreRight PlanIsWhatRuns HistoryIsTheTail
