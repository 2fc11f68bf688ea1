SPECIFICATION CriticalFairSpec
CONSTANTS
  u1 = u1
  u2 = u2
  ordinary = ordinary
  critical = critical
  Updates = {u1, u2}
  Procs = {p1}
  Jobs = {j1, j2}
  NoJob = NoJob
  NoUpdate = NoUpdate
  Lanes <- TwoLanes
  Ordinary = ordinary
  Lane <- Mixed
  Capacity <- OneSlot
  Workers <- OneSlot
  MaxAttempts = 1
  DbFails = FALSE
  MaxExits = 0
PROPERTY CriticalSettled
CHECK_DEADLOCK FALSE
