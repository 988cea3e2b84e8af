SPECIFICATION Spec
CONSTANTS
  Players = {1, 2}
  Node = {1, 2, 3, 4, 5, 6, 7, 8, 9, 10}
  MaxActions = 3
  Weights = {1}
  Whole = 6
  SavedGames <- Trees
  MaxEdits = 2
CHECK_DEADLOCK FALSE
INVARIANTS TreeWellFormed RecallJudged StrategiesReduced
PROPERTIES BranchesKeepTheirActions RevealsOnlyTheMove
