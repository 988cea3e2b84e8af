SPECIFICATION Spec
CONSTANTS
  None = None
  Reporters = {r1, r2}
  InflatingReporters = {r1}
  DeflatingReporters = {r2}
  HasGatekeeper = TRUE
  InflationPenalty = None
  SimpleReportingModel = FALSE
  TeamCapacity = 2
  GatekeeperCapacity = 1
  TargetFixes = 2
  ViewsToDiscard = 0
  IgnorePercent <- NonSevereIgnored
  CatchOutcomes = {TRUE}
  FixEfforts <- Effort1or2
  ReviewTimes = {1}
  InterarrivalTimes = {0, 2}
  BatchSizes = {1, 2}
  HourLength = 1
  MaxTime = 7
  MaxReports = 3
INVARIANTS IInv TriagedPriority LedgersAgree ResolutionTakesItsTime
PROPERTIES FirstComeFirstReviewed ImplementsLifecycle
