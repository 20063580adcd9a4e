SPECIFICATION ReaderSpec
CONSTANTS
  a1 = a1
  t1 = t1
  t2 = t2
  c1 = c1
  Address = {a1}
  TaskId = {t1, t2}
  Contributor = {c1}
  Vault = {}
  None = None
  U32Max = 3
  U64Max = 2
  FAILURE_THRESHOLD = 1
  ARCHIVE_AFTER_SECONDS = 0
  DEFAULT_WEIGHT_THRESHOLD = 1
  Scores = {1}
  WeightThresholds = {}
  Amounts = {}
  LockThresholds <- StakeWaived
  Endowment = 0
  GenesisTime = 1
  MaxTime = 2
  MaxFailures = 0
  MaxGuardianEntries = 2
  MAX_SNAPSHOT_BATCH_SIZE = 1
  PageLimit = 2
SYMMETRY TaskSymmetry
INVARIANTS TasksPartition StreamsOnlyForResolved NothingSkipped EmptyPageIsEnd
