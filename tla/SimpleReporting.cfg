SPECIFICATION FairSpec
CONSTANTS
  None = None
  Reporters = {r1, r2}
  InflatingReporters = {r1}
  DeflatingReporters = {}
  HasGatekeeper = FALSE
  InflationPenalty = None
  SimpleReportingModel = TRUE
  TeamCapacity = 1
  GatekeeperCapacity = 1
  TargetFixes = 2
  ViewsToDiscard = 0
  IgnorePercent <- NobodyIgnored
  CatchOutcomes = {TRUE}
  FixEfforts <- Effort1or2
  ReviewTimes = {0}
  InterarrivalTimes = {0, 1}
  BatchSizes = {1, 2}
  HourLength = 1
  MaxTime = 20
  MaxReports = 3
INVARIANTS DeveloperHours
PROPERTIES SeverestFirst EventuallyStops
