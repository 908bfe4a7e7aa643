SPECIFICATION FairSpec
CONSTANTS
  Procs = {p1, p2}
  Batches = {b1}
  StaleAge = 0
  IdleAge = 1
  MaxTime = 2
  MaxGen = 2
  MaxEpoch = 1
  MaxCrashes = 1
  None = None
PROPERTY SpoolDrained
