SPECIFICATION MigrationsSpec
CONSTANTS
  Procs = {p1, p2}
  Docs <- MCDocs
  Models <- MCModels
  Configs <- ThreeConfigs
  Generations <- EveryStore
  MaxCrashes = 1
  MaxOpens = 3
SYMMETRY Symmetric
INVARIANT RowsSurviveAlone
INVARIANT OpenMeansComplete
PROPERTY AloneNeverRefused
CHECK_DEADLOCK FALSE
