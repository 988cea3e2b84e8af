SPECIFICATION Spec
CONSTANTS
  honest = honest
  inflate = inflate
  None = None
  Main = main
  Workers = {w1, w2}
  ParallelBlocks = 2
  MaxIterations = {3}
  ReporterConfigs <- Configs
  StrategyCatalog <- OneStrategy
  NumberOfTeams = 2
  PlayerCounts = {2}
INVARIANTS AllReplicationsRun
