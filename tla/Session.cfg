SPECIFICATION Spec
CONSTANTS
  Pods = {p1, p2}
  Reqs = {r1, r2}
  Sessions = {s1}
  n1 = n1
  n2 = n2
  a0 = a0
  a1 = a1
  b0 = b0
  Namespaces = {n1, n2}
  Clients = {a1, b0}
  NsOf <- TwoClients
  Protected = {b0}
  Keys = {k1}
  TTLs = {1}
  MaxTTL = 1
  IdemTTL = 1
  CacheSize = 1
  DedupSize = 1
  MaxTime = 1
  MaxRestarts = 0
  None = None
SYMMETRY ReqSymmetry
INVARIANTS NamespaceIsolation StaleEntryExplained
