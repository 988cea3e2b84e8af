SPECIFICATION FairSpec
CONSTANTS
  Players = {1, 2}
  NumStrategies <- ThreeByTwo
  Games <- AllGames
INVARIANTS LevelsAreUndominated NashSurvives NoFalseNash
PROPERTIES SearchEnds
