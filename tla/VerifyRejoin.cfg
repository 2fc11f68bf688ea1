SPECIFICATION Spec
CONSTANTS
  Workers = {"joiner", "sender", "sweeper"}
  Role <- MCRole
  MaxFaults = 2
  MaxCrashes = 1
  MaxRounds = 5
  Overtaking = TRUE
  Deauthorizes = FALSE
INVARIANTS BanInForce NoSilentBan
CHECK_DEADLOCK FALSE
