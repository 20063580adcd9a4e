SPECIFICATION ArchiveSpec
CONSTANTS
  a1 = a1
  a2 = a2
  t1 = t1
  Address = {a1, a2}
  TaskId = {t1}
  Contributor = {}
  Vault = {}
  None = None
  U32Max = 2
  U64Max = 3
  FAILURE_THRESHOLD = 0
  ARCHIVE_AFTER_SECONDS = 1
  DEFAULT_WEIGHT_THRESHOLD = 1
  Scores = {1}
  WeightThresholds = {1, 3}
  Amounts = {1}
  LockThresholds = {0}
  Endowment = 1
  GenesisTime = 1
  MaxTime = 4
  MaxFailures = 1
  MaxGuardianEntries = 2
INVARIANTS ResolvedStamp
PROPERTIES ArchiveProgress RecordMonotone ImplementsConsensus
