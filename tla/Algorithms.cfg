SPECIFICATION Spec
CONSTANTS
  Alphabet <- MCAlphabet
  MaxItems <- MCMaxItems
  ChunkTargetBytes = 4
  ChunkMaxBytes = 8
  Root <- MCRoot
  Invocations <- MCInvocations
  PathOf <- MCPathOf
  Flags <- MCFlags
  Commands <- MCCommands
  MaxLabelLen = 15
  MaxSeqSuffix = 2
  HashLen = 4
  MaxTraceSnippet = 2
  MaxOutputBytes = 7
  WholeInlineMax = 2
  RangedMax = 3
  FailHead = 2
  FailTail = 3
  InventoryMaxEntries = 4
  InventoryMaxBytes = 9
  InventoryHeader = 2
  SnippetBudget = 5
  Terms <- MCTerms
  Noise = {3}
  SearchLimit = 2
  Budget = 7
  QueryCount = 2
  Envelope = 2
  Marker = 1
  Budgets = {2, 4, 5, 9}
  Limits = {0, 1, 3}
  SnapshotRowCap = 3
  Dirs <- MCDirs
  Parent <- MCParent
  Base <- MCBase
  Home = "home"
  Launch = "lib"
  Repositories = {"lib", "app"}
  Manifests = {"vendor"}
  NoAnchor = NoAnchor
  IPRate = 1
  SweepThreshold = 0
  SweepEvery = 2
  NamespaceRates <- MCNamespaceRates
  GlobalRate = 2
  Addresses = {"p", "q"}
  BinPath <- MCBinPath
  HookSessions <- MCHookSessions
  ExitCodes = {0, 3}
  ApiKeys = {"A", "B"}
CHECK_DEADLOCK FALSE
INVARIANTS
  ChunksFaithful LabelsFaithful SecretsKeptOut OutputFaithful WorkspacesStable
  SnippetBest SearchShared BudgetCutsClean LimitsFair CaptureTransparent PairingSafe
