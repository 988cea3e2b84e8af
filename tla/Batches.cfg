SPECIFICATION Spec
CONSTANTS
  None = None
  MaxReports = 4
  LastDate = 3
  LastStreamDate = 5
  DayLength = 2
  Targets = {1, 2}
INVARIANTS ResolvedAreFirstFixes ClosedBatchesAreUsed StreamAddsUp
