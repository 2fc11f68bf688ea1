SPECIFICATION Spec
CONSTANTS
  u1 = u1
  u2 = u2
  ordinary = ordinary
  critical = critical
  Updates = {u1}
  Procs = {p1, p2}
  Jobs = {j1, j2}
  NoJob = NoJob
  NoUpdate = NoUpdate
  Lanes <- OneLane
  Ordinary = ordinary
  Lane <- AllOrdinary
  Capacity <- OneSlot
  Workers <- OneSlot
  MaxAttempts = 2
  DbFails = FALSE
  MaxExits = 1
SYMMETRY JobSymmetry
INVARIANT ExclusiveWork
PROPERTIES NoStartOnSettled ImplementsContract
CHECK_DEADLOCK FALSE
