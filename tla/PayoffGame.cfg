SPECIFICATION FairSpec
CONSTANTS
  honest = honest
  inflate = inflate
  None = None
  Main = main
  Workers = {w1, w2}
  ParallelBlocks = 3
  MaxIterations = {1, 4}
  ReporterConfigs <- Configs
  StrategyCatalog <- HonestInflate
  NumberOfTeams = 2
  PlayerCounts = {2, 3}
INVARIANTS ListsInStep RunsIndependent PayoffsOfTheirProfile ComparablePayoffs NoMixtureSimulatedTwice EquilibriumRead
PROPERTIES GameCompletes ImplementsExperiment
