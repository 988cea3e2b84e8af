SPECIFICATION Spec
CONSTANTS
  InitialDims <- Opened
  MaxPlayers = 3
  MaxStrategies = 3
  MaxLists = 1
  MaxTexts = 4
  NewPayoffs = {9}
INVARIANTS EquilibriaOfThisGame
