SPECIFICATION Spec
CONSTANTS
  NumThreads = 2
  None = None
  Individuals <- TwoCandidates
INVARIANT SolvedGamesAreReported
CHECK_DEADLOCK FALSE
