SPECIFICATION JoinedSpec
CONSTANTS
  Workers = {"sender", "admin", "sweeper"}
  Role <- MCRole
  MaxFaults = 0
  MaxCrashes = 0
  MaxRounds = 3
  Overtaking = FALSE
  Deauthorizes = FALSE
INVARIANTS NoOrphanMute
PROPERTIES BanNotResurrected
CHECK_DEADLOCK FALSE
