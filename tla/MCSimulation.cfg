SPECIFICATION Spec
CONSTANTS
  Draws <- SomeDraws
  Configs <- AllConfigs
  PipelineTables <- SomeTables
  Roundings <- SomeRoundings
  Steps = 5
INVARIANTS SimulationTypeOK GroupsConserve StepNeverDiverges
PROPERTIES FulfilledWasNeeded BandwagonNeverTurns
CHECK_DEADLOCK FALSE
