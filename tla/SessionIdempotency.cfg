SPECIFICATION Spec
CONSTANTS
  Pods = {p1}
  Reqs = {r1, r2}
  Sessions = {s1, s2}
  n1 = n1
  n2 = n2
  a0 = a0
  a1 = a1
  b0 = b0
  Namespaces = {n1}
  Clients = {a0}
  NsOf <- OneDefault
  Protected = {a0}
  Keys = {k1, k2}
  TTLs = {1}
  MaxTTL = 1
  IdemTTL = 1
  CacheSize = 0
  DedupSize = 1
  MaxTime = 2
  MaxRestarts = 0
  None = None
SYMMETRY IdSymmetry
INVARIANT IdempotentOnPod
PROPERTY ActivityMonotone
