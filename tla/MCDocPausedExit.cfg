SPECIFICATION Spec
CONSTANTS
  a1 = a1
  t1 = t1
  t2 = t2
  c1 = c1
  Address = {a1}
  TaskId = {t1, t2}
  Contributor = {c1}
  Vault = {}
  None = None
  U32Max = 2
  U64Max = 3
  FAILURE_THRESHOLD = 0
  ARCHIVE_AFTER_SECONDS = 1
  DEFAULT_WEIGHT_THRESHOLD = 2
  Scores = {1, 2}
  WeightThresholds = {1}
  Amounts = {1}
  LockThresholds = {0}
  Endowment = 1
  GenesisTime = 1
  MaxTime = 4
  MaxFailures = 1
  MaxGuardianEntries = 1
PROPERTIES StakeHeldWhenPaused
