SPECIFICATION FairSpec
CONSTANTS
  n1 = n1
  n2 = n2
  h1 = h1
  h2 = h2
  c1 = c1
  c2 = c2
  Tasks = {n1, n2, h1, h2, c1, c2}
  Tier <- MCTier
  Capacity <- MCCapacity
INVARIANTS TypeOK PermitsConserved NoIdlePermit ReserveForUrgent
PROPERTY UrgentServed
