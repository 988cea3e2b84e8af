SPECIFICATION Spec
CONSTANTS
  None = None
  Reporters = {r1, r2}
  InflatingReporters = {r1}
  DeflatingReporters = {r2}
  HasGatekeeper = FALSE
  InflationPenalty = 40
  SimpleReportingModel = FALSE
  TeamCapacity = 1
  GatekeeperCapacity = 1
  TargetFixes = 2
  ViewsToDiscard = 2
  IgnorePercent <- NonSevereIgnored
  CatchOutcomes = {TRUE, FALSE}
  FixEfforts <- Effort1or2
  ReviewTimes = {0}
  InterarrivalTimes = {1, 2}
  BatchSizes = {1, 2}
  HourLength = 2
  MaxTime = 8
  MaxReports = 3
INVARIANTS IInv PenaltyMatchesOffences PromptStop IgnoredFate
PROPERTIES LatestHourFirst
