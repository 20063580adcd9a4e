SPECIFICATION InvocationSpec
CONSTANTS
  a1 = a1
  a2 = a2
  t1 = t1
  c1 = c1
  v1 = v1
  Address = {a1, a2}
  TaskId = {t1}
  Contributor = {c1}
  Vault = {v1}
  None = None
  U32Max = 3
  U64Max = 3
  FAILURE_THRESHOLD = 1
  ARCHIVE_AFTER_SECONDS = 0
  DEFAULT_WEIGHT_THRESHOLD = 1
  Scores = {1}
  WeightThresholds = {2}
  Amounts = {}
  LockThresholds <- StakeWaived
  Endowment = 0
  GenesisTime = 1
  MaxTime = 2
  MaxFailures = 0
  MaxGuardianEntries = 2
  MaxDepth = 2
SYMMETRY AddressSymmetry
INVARIANTS NoVoteLost
PROPERTIES ImplementsAtomic
