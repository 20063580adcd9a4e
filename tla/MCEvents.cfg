SPECIFICATION EventSpec
CONSTANTS
  a1 = a1
  a2 = a2
  t1 = t1
  c1 = c1
  Address = {a1, a2}
  TaskId = {t1}
  Contributor = {c1}
  Vault = {}
  None = None
  U32Max = 3
  U64Max = 3
  FAILURE_THRESHOLD = 0
  ARCHIVE_AFTER_SECONDS = 0
  DEFAULT_WEIGHT_THRESHOLD = 1
  Scores = {1}
  WeightThresholds = {2, 3}
  Amounts = {}
  LockThresholds <- StakeWaived
  Endowment = 0
  GenesisTime = 1
  MaxTime = 2
  MaxFailures = 1
  MaxGuardianEntries = 2
  MaxLog = 6
  MAX_SNAPSHOT_BATCH_SIZE = 3
SYMMETRY AddressSymmetry
INVARIANTS SnapshotAddsUp ReplayAgrees LogOrdered
PROPERTIES SettledFrozen FrozenWhenPaused ImplementsTaskLifecycle RestartsAnnounced
