SPECIFICATION Spec
CONSTANTS
  i1 = i1
  i2 = i2
  Procs = {i1, i2}
  Packs <- MCPacks
  SmokePack = 2
  Sample <- MCSample
  TurnsOf <- MCTurnsOf
  Observed <- MCObserved
  Kinds <- MCKinds
  Settings <- MCSettings
  InPrice = 2
  CachedPrice = 1
  OutPrice = 3
  Quantum = 2
  PromptBytes = 1
  ControlBytes = 1
  RetryBytes = 1
  BytesPerToken = 4
  Framing = 1
  AuthorizationFraming = 1
  MaxOutput = 1
  Retries = 1
  PackLimit = 30
  MatrixLimit = 40
  MaxInvocations = 2
  MaxKills = 1
SYMMETRY MCSymmetry
INVARIANTS
  SpendingIsOnRecord
  AggregateIsEarned
PROPERTIES
  PurchasesAreJustified
  Immutable
CHECK_DEADLOCK FALSE
