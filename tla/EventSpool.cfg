SPECIFICATION Spec
CONSTANTS
  Procs = {p1, p2}
  Batches = {b1, b2}
  StaleAge = 0
  IdleAge = 1
  MaxTime = 1
  MaxGen = 2
  MaxEpoch = 1
  MaxCrashes = 1
  None = None
SYMMETRY Symmetry
INVARIANTS DeliveredAtMostOnce TagsHonest
PROPERTY ImplementsAtMostOnce
