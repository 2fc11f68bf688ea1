SPECIFICATION FairSpec
CONSTANTS
  Workers = {"joiner", "solver", "sweeper"}
  Role <- MCRole
  MaxFaults = 2
  MaxCrashes = 1
  MaxRounds = 5
  Overtaking = TRUE
  Deauthorizes = TRUE
INVARIANTS TypeOK PassIsFinal
PROPERTIES KeepsContract RowsResolve
CHECK_DEADLOCK FALSE
