SPECIFICATION Spec
CONSTANTS
  Caps = {c1, c2}
  Sessions = {s1, s2, s3}
  Interval = 1
  Window = 1
  IdleAge = 1
  MaxTime = 2
  MaxRec = 2
  MaxFaults = 1
  None = None
SYMMETRY Symmetry
CHECK_DEADLOCK FALSE
INVARIANTS LabelsUnique AbandonedNotResumed RegistryHonest OneSessionPerEpoch
