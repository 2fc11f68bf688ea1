SPECIFICATION FairSpec
CONSTANTS
  u1 = u1
  u2 = u2
  ordinary = ordinary
  critical = critical
  Updates = {u1}
  Procs = {p1}
  Jobs = {j1, j2}
  NoJob = NoJob
  NoUpdate = NoUpdate
  Lanes <- OneLane
  Ordinary = ordinary
  Lane <- AllOrdinary
  Capacity <- OneSlot
  Workers <- OneSlot
  MaxAttempts = 2
  DbFails = TRUE
  MaxExits = 1
INVARIANTS TypeOK OneCopyPerProcess DoneMeansHandled AttemptsAccounted
PROPERTY EventuallySettled
CHECK_DEADLOCK FALSE
