SPECIFICATION Spec
CONSTANTS
  a1 = a1
  a2 = a2
  t1 = t1
  Address = {a1, a2}
  TaskId = {t1}
  Contributor = {}
  Vault = {}
  None = None
  U32Max = 2
  U64Max = 3
  FAILURE_THRESHOLD = 0
  ARCHIVE_AFTER_SECONDS = 0
  DEFAULT_WEIGHT_THRESHOLD = 1
  Scores = {1}
  WeightThresholds = {1, 2, 3}
  Amounts = {1}
  LockThresholds = {0}
  Endowment = 1
  GenesisTime = 1
  MaxTime = 3
  MaxFailures = 0
  MaxGuardianEntries = 2
SYMMETRY AddressSymmetry
PROPERTIES InvariantAfterVote
