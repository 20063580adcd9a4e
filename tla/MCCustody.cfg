SPECIFICATION TtlSpec
CONSTANTS
  a1 = a1
  a2 = a2
  Address = {a1, a2}
  TaskId = {}
  Contributor = {}
  Vault = {}
  None = None
  U32Max = 3
  U64Max = 1
  FAILURE_THRESHOLD = 1
  ARCHIVE_AFTER_SECONDS = 0
  DEFAULT_WEIGHT_THRESHOLD = 1
  Scores = {}
  WeightThresholds = {}
  Amounts <- TriedAmounts
  LockThresholds = {0}
  Endowment = 2
  GenesisTime = 1
  MaxTime = 5
  MaxFailures = 3
  MaxGuardianEntries = 2
  LEDGER_TTL = 2
  InitialTtls = {1, 3}
  RestoredTtl = 1
INVARIANTS CustodyExact ExitAlwaysOpen WindowHonoured
PROPERTIES StakeBound BreakerReTrips FundsRecoverable
