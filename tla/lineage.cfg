SPECIFICATION Spec
CONSTANTS
  Sources <- MCSources
  Windows <- MCWindows
  MaxStages = 4
  MaxRows = 2
INVARIANTS
  ParentsCarryTheCells
  TraceTellsTheTruth
  PathHoldsItsLoads
CHECK_DEADLOCK FALSE
