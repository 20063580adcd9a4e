SPECIFICATION Spec
CONSTANTS
  a1 = a1
  a2 = a2
  t1 = t1
  v1 = v1
  Address = {a1, a2}
  TaskId = {t1}
  Contributor = {}
  Vault = {v1}
  None = None
  U32Max = 2
  U64Max = 3
  FAILURE_THRESHOLD = 1
  ARCHIVE_AFTER_SECONDS = 0
  DEFAULT_WEIGHT_THRESHOLD = 2
  Scores = {0, 1, 2}
  WeightThresholds = {1, 3}
  Amounts = {1}
  LockThresholds = {0}
  Endowment = 1
  GenesisTime = 1
  MaxTime = 1
  MaxFailures = 0
  MaxGuardianEntries = 3
SYMMETRY AddressSymmetry
INVARIANTS ThresholdMeansDone
