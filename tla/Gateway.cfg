CONSTANTS
  a = a
  d = d
  u = u
  None = None
  Reqs = {1, 2}
  Kinds <- RequestKinds
  Clients = {a, d, u}
  Credentialed = {a}
  Default = d
  Sessions = {1, 2, 3}
  Owners <- ThreeSessions
  Labels <- OneLabelled
  MaxChunks = 2
  MaxFaults = 1
SPECIFICATION FairSpec
CHECK_DEADLOCK FALSE
INVARIANTS TypeOK CredentialKnown CascadeCountsExact
PROPERTIES FeedbackTruthful TenantsApart RequestsEnd
