SPECIFICATION Spec
CONSTANTS
  WorldTexts <- MCWorldTexts
  Slots = {"s1"}
  Foreign <- MCForeign
  Verbs = {"go", "get", "drop", "use", "look"}
  Words <- MCWords
  MaxEdits = 2
INVARIANTS ItemsConserved SavesAreFaithful NeverInTheVoid
PROPERTIES LoadIsAllOrNothing
