---------------------------- MODULE VeroCoreProofs ----------------------------
(***************************************************************************)
(* Theorems about VeroCore, for all values of its constants.               *)
(***************************************************************************)
EXTENDS VeroCore, FiniteSetTheorems, TLAPS

-----------------------------------------------------------------------------
(* Type correctness                                                        *)

(* A vote whose total does not overflow and whose counter is not at its    *)
(* limit writes back a well-formed record.                                 *)
LEMMA AccrueType ==
  ASSUME NEW task \in TaskRecord, NEW weight \in 0..U64Max, now \in Nat,
         ~Overflows(task, weight), task.votes # U32Max
  PROVE  /\ Accrue(task, weight) \in TaskRecord
         /\ Accrue(task, weight).votes = task.votes + 1
         /\ Accrue(task, weight).total_weight_accrued
              = task.total_weight_accrued + weight
         /\ Accrue(task, weight).is_cancelled = task.is_cancelled
         /\ Accrue(task, weight).is_done
              <=> (task.is_done \/ Resolves(task, weight))
         /\ Accrue(task, weight).resolved_at
              = IF Resolves(task, weight) THEN now ELSE task.resolved_at
PROOF
<1>1. Resolves(task, weight) \in BOOLEAN
  BY DEF Resolves
<1>2. task.is_done \in BOOLEAN
  BY DEF TaskRecord
<1>3. (task.is_done \/ Resolves(task, weight)) \in BOOLEAN
  OBVIOUS
<1>4. WeightAfter(task, weight) \in 0..U64Max
  BY ConstantsAssumption DEF WeightAfter, Overflows, TaskRecord
<1>5. task.votes + 1 \in 0..U32Max
  BY ConstantsAssumption DEF TaskRecord
<1> QED
  BY <1>1, <1>2, <1>3, <1>4, <1>5 DEF Accrue, TaskRecord, WeightAfter

LEMMA BreakerStepType ==
  ASSUME TypeOK, BreakerStep PROVE TypeOK'
PROOF
<1> USE DEF TypeOK, breakerVars, guardianVars, tokenVars, taskVars, voteVars,
            vaultVars, streamVars
<1>1. CASE TogglePause
  BY <1>1 DEF TogglePause, SetPaused
<1>2. CASE Pause
  BY <1>2 DEF Pause, SetPaused
<1>3. CASE Unpause
  BY <1>3 DEF Unpause, SetPaused
<1>4. CASE RecordFailure
  <2>1. failure_count' \in 0..U32Max
    BY <1>4, ConstantsAssumption DEF RecordFailure
  <2>2. paused' \in BOOLEAN
    BY <1>4 DEF RecordFailure
  <2> QED
    BY <1>4, <2>1, <2>2 DEF RecordFailure
<1>5. CASE ResetCircuitBreaker
  <2>1. failure_count' \in 0..U32Max
    BY <1>5, ConstantsAssumption DEF ResetCircuitBreaker
  <2>2. paused' \in BOOLEAN
    BY <1>5 DEF ResetCircuitBreaker
  <2> QED
    BY <1>5, <2>1, <2>2 DEF ResetCircuitBreaker
<1> QED
  BY <1>1, <1>2, <1>3, <1>4, <1>5, BreakerStep DEF BreakerStep

LEMMA GuardianStepType ==
  ASSUME TypeOK, GuardianStep PROVE TypeOK'
PROOF
<1> USE DEF TypeOK, breakerVars, guardianVars, tokenVars, taskVars, voteVars,
            vaultVars, streamVars, GuardianStatus
<1>1. ASSUME NEW g \in Address, AddGuardian(g) PROVE TypeOK'
  BY <1>1 DEF AddGuardian
<1>2. ASSUME NEW g \in Address, RemoveGuardian(g) PROVE TypeOK'
  BY <1>2 DEF RemoveGuardian
<1>3. ASSUME NEW g \in Address, NEW s \in Scores, SetReputation(g, s)
      PROVE  TypeOK'
  BY <1>3, InputAssumption DEF SetReputation
<1> QED
  BY <1>1, <1>2, <1>3, GuardianStep DEF GuardianStep

LEMMA TokenStepType ==
  ASSUME TypeOK, TokenStep PROVE TypeOK'
PROOF
<1> USE DEF TypeOK, breakerVars, guardianVars, tokenVars, taskVars, voteVars,
            vaultVars, streamVars
<1> DEFINE Refunded == /\ wallet' \in [Address -> Nat]
                       /\ locked_balance' \in [Address -> Nat]
                       /\ held' \in Nat
<1>1. ASSUME NEW th \in LockThresholds, Initialize(th) PROVE TypeOK'
  BY <1>1, InputAssumption DEF Initialize
<1>2. ASSUME NEW g \in Address, NEW amount \in Amounts, LockTokens(g, amount)
      PROVE  TypeOK'
  <2>1. amount \in Nat /\ wallet[g] - amount \in Nat
    BY <1>2, InputAssumption DEF LockTokens, LockTokensError, Transferable, Ok
  <2>2. /\ wallet' \in [Address -> Nat]
        /\ locked_balance' \in [Address -> Nat]
        /\ held' \in Nat
    BY <1>2, <2>1 DEF LockTokens
  <2> QED
    BY <1>2, <2>2 DEF LockTokens
<1>3. ASSUME NEW g \in Address, ResignGuardian(g) PROVE TypeOK'
  <2>1. held - locked_balance[g] \in Nat
    BY <1>3 DEF ResignGuardian, ResignGuardianError, Transferable, Ok
  <2>2. Refunded
    <3>1. Refund(g)
      BY <1>3 DEF ResignGuardian
    <3> QED
      BY <3>1, <2>1 DEF Refund
  <2>3. guardian' \in [Address -> GuardianStatus]
    BY <1>3 DEF ResignGuardian, GuardianStatus
  <2> QED
    BY <1>3, <2>2, <2>3 DEF ResignGuardian
<1>4. ASSUME NEW g \in Address, UnlockTokens(g) PROVE TypeOK'
  <2>1. held - locked_balance[g] \in Nat
    BY <1>4 DEF UnlockTokens, UnlockTokensError, Transferable, Ok
  <2>2. Refunded
    <3>1. Refund(g)
      BY <1>4 DEF UnlockTokens
    <3> QED
      BY <3>1, <2>1 DEF Refund
  <2> QED
    BY <1>4, <2>2 DEF UnlockTokens
<1> QED
  BY <1>1, <1>2, <1>3, <1>4, TokenStep DEF TokenStep

LEMMA TaskStepType ==
  ASSUME TypeOK, TaskStep PROVE TypeOK'
PROOF
<1> USE DEF TypeOK, breakerVars, guardianVars, tokenVars, taskVars, voteVars,
            vaultVars, streamVars
<1>1. ASSUME NEW t \in TaskId, RegisterTask(t) PROVE TypeOK'
  <2>1. NewTask \in TaskRecord
    BY ConstantsAssumption DEF NewTask, TaskRecord
  <2> QED
    BY <1>1, <2>1 DEF RegisterTask
<1>2. ASSUME NEW t \in TaskId, CancelTask(t) PROVE TypeOK'
  <2>1. active_task[t] \in TaskRecord
    BY <1>2 DEF CancelTask, CancelTaskError, has_active_task, Ok
  <2>2. [active_task[t] EXCEPT !.is_cancelled = TRUE] \in TaskRecord
    BY <2>1 DEF TaskRecord
  <2> QED
    BY <1>2, <2>2 DEF CancelTask
<1>3. ASSUME NEW t \in TaskId, ArchiveTask(t) PROVE TypeOK'
  BY <1>3 DEF ArchiveTask
<1> QED
  BY <1>1, <1>2, <1>3, TaskStep DEF TaskStep

(* What the early returns of vote leave for the writes that follow them.   *)
AcceptedVote(g, t) ==
  /\ active_task[t] \in TaskRecord
  /\ ~active_task[t].is_cancelled
  /\ reputation[g] \in 1..U64Max
  /\ ~Overflows(active_task[t], reputation[g])
  /\ active_task[t].votes # U32Max
  /\ <<t, g>> \notin voted
  /\ is_guardian(g)
  /\ ~paused
  /\ Accrue(active_task[t], reputation[g]) \in TaskRecord
  /\ active_task' = [active_task EXCEPT
                       ![t] = Accrue(active_task[t], reputation[g])]

LEMMA VoteAccepted ==
  ASSUME TypeOK, NEW g \in Address, NEW t \in TaskId,
         NEW escrow_up \in BOOLEAN, Vote(g, t, escrow_up)
  PROVE  AcceptedVote(g, t)
PROOF
<1>1. VoterError(g, t) = Ok /\ TallyError(t, reputation[g], escrow_up) = Ok
  BY DEF Vote, calculate_voting_power
<1>2. /\ reputation[g] # None /\ reputation[g] # 0
      /\ <<t, g>> \notin voted /\ is_guardian(g) /\ ~paused
  BY <1>1 DEF VoterError, Ok, calculate_voting_power, HasVoted,
              require_not_paused
<1>3. /\ active_task[t] # None
      /\ ~active_task[t].is_cancelled
      /\ ~Overflows(active_task[t], reputation[g])
      /\ active_task[t].votes # U32Max
  BY <1>1 DEF TallyError, Ok, has_active_task
<1>4. reputation[g] \in 1..U64Max
  BY <1>2, ConstantsAssumption DEF TypeOK
<1>5. active_task' = [active_task EXCEPT
                        ![t] = Accrue(active_task[t], reputation[g])]
  BY DEF Vote, calculate_voting_power
<1>6. active_task[t] \in TaskRecord
  BY <1>3 DEF TypeOK
<1>7. Accrue(active_task[t], reputation[g]) \in TaskRecord
  <2>1. reputation[g] \in 0..U64Max /\ now \in Nat
    BY <1>4, ConstantsAssumption DEF TypeOK
  <2> QED
    BY <1>3, <1>6, <2>1, AccrueType
<1> QED
  BY <1>2, <1>3, <1>4, <1>5, <1>6, <1>7 DEF AcceptedVote

LEMMA VotingStepType ==
  ASSUME TypeOK, VotingStep PROVE TypeOK'
PROOF
<1>1. ASSUME NEW th \in WeightThresholds, SetWeightThreshold(th) PROVE TypeOK'
  BY <1>1, InputAssumption
  DEF SetWeightThreshold, TypeOK, breakerVars, guardianVars, tokenVars,
      taskVars, vaultVars, streamVars
<1>2. ASSUME NEW v \in Vault, SetVaultAddress(v) PROVE TypeOK'
  BY <1>2
  DEF SetVaultAddress, TypeOK, breakerVars, guardianVars, tokenVars, taskVars,
      voteVars, streamVars
<1>3. ASSUME NEW g \in Address, NEW t \in TaskId, NEW escrow_up \in BOOLEAN,
             Vote(g, t, escrow_up)
      PROVE  TypeOK'
  <2> AcceptedVote(g, t)
    BY <1>3, VoteAccepted
  <2>1. reputation[g] \in 0..U64Max
    BY ConstantsAssumption DEF AcceptedVote
  <2>2. active_task' \in [TaskId -> TaskRecord \cup {None}]
    BY DEF AcceptedVote, TypeOK
  <2>3. released' \in [TaskId -> Nat]
    BY <1>3 DEF Vote, TypeOK
  <2>4. ballot' \in [TaskId -> [Address -> 0..U64Max]]
    <3>1. [ballot[t] EXCEPT ![g] = reputation[g]] \in [Address -> 0..U64Max]
      BY <2>1 DEF TypeOK
    <3> QED
      BY <1>3, <3>1 DEF Vote, TypeOK, calculate_voting_power
  <2>5. voted' \subseteq TaskId \X Address
    BY <1>3 DEF Vote, TypeOK
  <2>6. all_votes' \in Seq(TaskId \X Address)
    BY <1>3 DEF Vote, TypeOK
  <2> QED
    BY <1>3, <2>2, <2>3, <2>4, <2>5, <2>6
    DEF Vote, TypeOK, breakerVars, guardianVars, tokenVars, streamVars
<1> QED
  BY <1>1, <1>2, <1>3, VotingStep DEF VotingStep

LEMMA StreamStepType ==
  ASSUME TypeOK, StreamStep PROVE TypeOK'
PROOF
<1>1. PICK c \in Contributor, t \in TaskId, drips_up \in BOOLEAN :
        StartRewardStream(c, t, drips_up)
  BY StreamStep DEF StreamStep
<1> QED
  BY <1>1
  DEF StartRewardStream, TypeOK, breakerVars, guardianVars, tokenVars,
      taskVars, voteVars, vaultVars

LEMMA NextType ==
  ASSUME TypeOK, [Next]_vars PROVE TypeOK'
PROOF
<1>1. CASE Tick
  BY <1>1
  DEF Tick, TypeOK, breakerVars, guardianVars, tokenVars, taskVars, voteVars,
      vaultVars, streamVars
<1>2. CASE UNCHANGED vars
  BY <1>2
  DEF TypeOK, vars, breakerVars, guardianVars, tokenVars, taskVars, voteVars,
      vaultVars, streamVars
<1> QED
  BY <1>1, <1>2, BreakerStepType, GuardianStepType, TokenStepType,
     TaskStepType, VotingStepType, StreamStepType, [Next]_vars DEF Next

LEMMA InitType ==
  ASSUME Init PROVE TypeOK
PROOF
<1> USE DEF Init
<1>1. failure_count \in 0..U32Max /\ now \in Nat /\ held \in Nat
  BY ConstantsAssumption, GenesisAssumption
<1>2. /\ locked_balance \in [Address -> Nat]
      /\ wallet \in [Address -> Nat]
      /\ weight_threshold \in 0..U64Max
      /\ released \in [TaskId -> Nat]
  BY ConstantsAssumption
<1>3. ballot \in [TaskId -> [Address -> 0..U64Max]]
  BY ConstantsAssumption
<1>4. /\ paused \in BOOLEAN
      /\ initialized \in BOOLEAN
  OBVIOUS
<1>5. /\ guardian \in [Address -> GuardianStatus]
      /\ reputation \in [Address -> (0..U64Max) \cup {None}]
      /\ active_task \in [TaskId -> TaskRecord \cup {None}]
      /\ archived_task \in [TaskId -> TaskRecord \cup {None}]
      /\ vault_address \in Vault \cup {None}
      /\ reward_stream \in [TaskId -> Contributor \cup {None}]
      /\ lock_threshold \in Int
  BY DEF GuardianStatus
<1>6. /\ all_guardians \in Seq(Address)
      /\ all_tasks \in Seq(TaskId)
      /\ all_votes \in Seq(TaskId \X Address)
      /\ all_streams \in Seq(TaskId)
      /\ voted \subseteq TaskId \X Address
  OBVIOUS
<1> QED
  BY <1>1, <1>2, <1>3, <1>4, <1>5, <1>6 DEF TypeOK

(* Every entry of the contract's storage keeps its type: in particular     *)
(* total_weight_accrued and votes stay within u64 and u32, and no locked   *)
(* or token balance is ever negative.                                      *)
THEOREM TypeCorrect == Spec => []TypeOK
PROOF
<1>1. Init => TypeOK
  BY InitType
<1>2. TypeOK /\ [Next]_vars => TypeOK'
  BY NextType
<1> QED
  BY <1>1, <1>2, PTL DEF Spec
=============================================================================
