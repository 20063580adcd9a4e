----------------------------- MODULE VeroStorage -----------------------------
(***************************************************************************)
(* The instance storage of the VeroCore contract, one variable per DataKey *)
(* (types.rs), and the part of the outside world the contract reads or     *)
(* moves: the ledger clock, the token balances and the escrow vault.       *)
(*                                                                         *)
(* Conventions shared by all handlers.                                     *)
(*  - A handler is one atomic step: the Soroban host runs one invocation   *)
(*    at a time, refuses re-entry into the contract, and rolls back every  *)
(*    write of an invocation that returns Err or panics.  A rejected call  *)
(*    is therefore a stuttering step; the operators named ...Error give    *)
(*    the first early return the handler takes, Ok if it takes none.       *)
(*  - DataKey::Lock is set and removed inside one invocation, so it is     *)
(*    absent in every state between two invocations and has no variable    *)
(*    here; module Invocation splits the handlers and has one.             *)
(*  - The admin argument of a handler is authenticated but compared with   *)
(*    nothing stored (DataKey::Admin is never written), so it is dropped.  *)
(***************************************************************************)
EXTENDS Integers, Sequences, FiniteSets

CONSTANTS
  Address,       \* accounts that hold tokens and may become guardians
  TaskId,        \* the u64 ids of tasks
  Contributor,   \* accounts a reward stream may pay
  Vault,         \* escrow contracts set_vault_address may name
  None,          \* an absent storage entry
  U32Max, U64Max,             \* the largest u32 and u64
  FAILURE_THRESHOLD,          \* failures tolerated before the breaker trips
  ARCHIVE_AFTER_SECONDS,      \* age a resolution needs before archiving
  DEFAULT_WEIGHT_THRESHOLD    \* weight threshold before one is set

CONSTANTS        \* arguments callers may pass
  Scores, WeightThresholds, Amounts, LockThresholds

CONSTANTS        \* the environment, and the bounds of the finite instances
  Endowment,             \* tokens each account owns at deployment
  GenesisTime,           \* ledger timestamp at deployment
  MaxTime,               \* bound on the ledger timestamp
  MaxFailures,           \* bound on the failures reported between resets
  MaxGuardianEntries     \* bound on the length of all_guardians

TaskRecord == [votes                : 0..U32Max,
               is_done              : BOOLEAN,
               resolved_at          : Nat,
               total_weight_accrued : 0..U64Max,
               is_cancelled         : BOOLEAN]

(* Guardian(a): no entry, true, or false (written by resign_guardian).     *)
GuardianStatus == {"absent", "active", "resigned"}

ASSUME ConstantsAssumption ==
  /\ U32Max \in Nat
  /\ U64Max \in Nat
  /\ FAILURE_THRESHOLD \in Nat
  /\ ARCHIVE_AFTER_SECONDS \in Nat
  /\ DEFAULT_WEIGHT_THRESHOLD \in 0..U64Max
  /\ Endowment \in Nat
  /\ MaxTime \in Nat
  /\ MaxFailures \in Nat
  /\ MaxGuardianEntries \in Nat

(* A live network's ledger timestamps are positive; resolved_at = 0 is the *)
(* contract's marker for "not resolved".                                   *)
ASSUME GenesisAssumption == GenesisTime \in Nat \ {0}

(* An Address is a 32-byte key.  Only sums over accounts need this.        *)
ASSUME AddressAssumption == IsFiniteSet(Address)

ASSUME InputAssumption ==
  /\ Scores \subseteq 0..U64Max
  /\ WeightThresholds \subseteq 0..U64Max
  /\ Amounts \subseteq Int
  /\ LockThresholds \subseteq Int

ASSUME NoneAssumption ==
  /\ None \notin 0..U64Max
  /\ None \notin TaskRecord
  /\ None \notin Contributor
  /\ None \notin Vault

VARIABLES
  paused,            \* Paused, absent = FALSE
  failure_count,     \* FailureCount
  guardian,          \* Guardian(Address)
  all_guardians,     \* AllGuardians
  reputation,        \* Reputation(Address)
  initialized,       \* Initialized and TokenAddress, written together
  lock_threshold,    \* LockThreshold
  locked_balance,    \* LockedBalance(Address), absent = 0
  weight_threshold,  \* WeightThreshold, absent = the default
  active_task,       \* ActiveTask(u64)
  archived_task,     \* ArchivedTask(u64)
  all_tasks,         \* AllTasks
  voted,             \* Voted(u64, Address): the keys present
  all_votes,         \* AllVotes
  vault_address,     \* VaultAddress
  reward_stream,     \* RewardStream(u64), abstracted to its contributor
  all_streams,       \* AllRewardStreams
  \* outside the contract
  now,               \* env.ledger().timestamp()
  wallet,            \* token balance of each account
  held,              \* token balance of the contract
  released,          \* release_funds calls committed by the vault, per task
  ballot             \* weights published by the wt_vote events

breakerVars  == <<paused, failure_count>>
guardianVars == <<guardian, all_guardians, reputation>>
tokenVars    == <<initialized, lock_threshold, locked_balance, wallet, held>>
taskVars     == <<active_task, archived_task, all_tasks>>
voteVars     == <<weight_threshold, voted, all_votes, ballot>>
vaultVars    == <<vault_address, released>>
streamVars   == <<reward_stream, all_streams>>

vars == <<breakerVars, guardianVars, tokenVars, taskVars, voteVars,
          vaultVars, streamVars, now>>

(* What a handler that takes no early return answers.                      *)
Ok == "Ok"

TypeOK ==
  /\ paused \in BOOLEAN
  /\ failure_count \in 0..U32Max
  /\ guardian \in [Address -> GuardianStatus]
  /\ all_guardians \in Seq(Address)
  /\ reputation \in [Address -> (0..U64Max) \cup {None}]
  /\ initialized \in BOOLEAN
  /\ lock_threshold \in Int
  /\ locked_balance \in [Address -> Nat]
  /\ wallet \in [Address -> Nat]
  /\ held \in Nat
  /\ weight_threshold \in 0..U64Max
  /\ active_task \in [TaskId -> TaskRecord \cup {None}]
  /\ archived_task \in [TaskId -> TaskRecord \cup {None}]
  /\ all_tasks \in Seq(TaskId)
  /\ voted \subseteq TaskId \X Address
  /\ all_votes \in Seq(TaskId \X Address)
  /\ ballot \in [TaskId -> [Address -> 0..U64Max]]
  /\ vault_address \in Vault \cup {None}
  /\ released \in [TaskId -> Nat]
  /\ reward_stream \in [TaskId -> Contributor \cup {None}]
  /\ all_streams \in Seq(TaskId)
  /\ now \in Nat

(* A freshly deployed contract: no entry in its storage.                   *)
Init ==
  /\ paused = FALSE
  /\ failure_count = 0
  /\ guardian = [a \in Address |-> "absent"]
  /\ all_guardians = <<>>
  /\ reputation = [a \in Address |-> None]
  /\ initialized = FALSE
  /\ lock_threshold = 0
  /\ locked_balance = [a \in Address |-> 0]
  /\ wallet = [a \in Address |-> Endowment]
  /\ held = 0
  /\ weight_threshold = DEFAULT_WEIGHT_THRESHOLD
  /\ active_task = [t \in TaskId |-> None]
  /\ archived_task = [t \in TaskId |-> None]
  /\ all_tasks = <<>>
  /\ voted = {}
  /\ all_votes = <<>>
  /\ ballot = [t \in TaskId |-> [a \in Address |-> 0]]
  /\ vault_address = None
  /\ released = [t \in TaskId |-> 0]
  /\ reward_stream = [t \in TaskId |-> None]
  /\ all_streams = <<>>
  /\ now = GenesisTime

(* A ledger closes: the timestamp moves on between two invocations.        *)
Tick ==
  /\ now < MaxTime
  /\ now' = now + 1
  /\ UNCHANGED <<breakerVars, guardianVars, tokenVars, taskVars, voteVars,
                 vaultVars, streamVars>>
=============================================================================
