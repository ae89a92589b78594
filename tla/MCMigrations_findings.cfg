SPECIFICATION MigrationsSpec
CONSTANTS
  Procs = {p1, p2}
  Docs <- MCDocs
  Models <- MCModels
  Configs <- ThreeConfigs
  Generations <- EveryStore
  MaxCrashes = 1
  MaxOpens = 3
SYMMETRY Symmetric
CHECK_DEADLOCK FALSE
INVARIANT RowsSurviveCrash
PROPERTY AnotherDimensionOpens
PROPERTY PartialStateOpens
INVARIANT OpenMeansPair
INVARIANT OneCanonicalAfterCrash
INVARIANT StaticPairAgrees
INVARIANT SearchableOnce
INVARIANT SwapDetected
