SPECIFICATION FairSpec
CONSTANTS
  Paths = {p1}
  c1 = c1
  c2 = c2
  big = big
  Contents = {c1, c2, big}
  Oversize = {big}
  Cut <- MCCut
  Clients = {calm_adapter}
  DefaultClient = calm_adapter
  KeepSession = FALSE
  MaxCaptures = 2
  MaxWrites = 1
  MaxFaults = 2
  None = None
CHECK_DEADLOCK FALSE
INVARIANTS LabelsTrue NoSessionLeak
PROPERTIES NoBlindOverwrite FreshReplacement Answered
