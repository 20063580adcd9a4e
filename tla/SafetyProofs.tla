----------------------------- MODULE SafetyProofs -----------------------------
(***************************************************************************)
(* Theorems about what a step of the contract may never do, and about      *)
(* guardians and escrow.                                                   *)
(***************************************************************************)
EXTENDS TaskProofs

-----------------------------------------------------------------------------
(* Resolution                                                              *)

LEMMA ResolutionSteps ==
  ASSUME TypeOK, [Next]_vars, NEW t \in TaskId
  PROVE  ResolutionStep(t)
PROOF
<1>1. RecordStep(t)
  BY RecordSteps
<1>2. CASE LeavesUnregistered(t) \/ Opens(t)
  BY <1>2 DEF LeavesUnregistered, Opens, ResolutionStep, Done, NewTask
<1>3. CASE Keeps(t)
  BY <1>3 DEF Keeps, ResolutionStep, Done
<1>4. CASE Cancels(t)
  <2>1. Record(t) \in TaskRecord
    BY <1>4, RecordType DEF Cancels
  <2>2. Record(t)'.is_done = Record(t).is_done
    BY <1>4, <2>1 DEF Cancels, TaskRecord
  <2> QED
    BY <1>4, <2>2 DEF Cancels, ResolutionStep, Done
<1>5. ASSUME NEW g \in Address, Counts(t, g)
      PROVE  ResolutionStep(t)
  <2> DEFINE r == Record(t)
             w == reputation[g]
  <2>1. r \in TaskRecord
    BY <1>5, RecordType DEF Counts
  <2>2. w \in 0..U64Max /\ ~Overflows(r, w) /\ r.votes # U32Max
    BY <1>5, ConstantsAssumption DEF Counts
  <2>3. Record(t)' = Accrue(r, w) /\ Registered(t) /\ Registered(t)'
    BY <1>5 DEF Counts
  <2>4. is_guardian(g) /\ g \notin Voters(t) /\ g \in Voters(t)'
    BY <1>5 DEF Counts
  <2> HIDE DEF r, w
  <2>5. /\ Accrue(r, w).total_weight_accrued = r.total_weight_accrued + w
        /\ Accrue(r, w).is_done <=> (r.is_done \/ Resolves(r, w))
    BY <2>1, <2>2, AccrueType DEF TypeOK
  <2>6. Accrue(r, w).is_done <=>
          (r.is_done \/ Accrue(r, w).total_weight_accrued >= weight_threshold)
    BY <2>5 DEF Resolves, WeightAfter
  <2> QED
    BY <2>3, <2>4, <2>6 DEF ResolutionStep, Done, r
<1> QED
  BY <1>1, <1>2, <1>3, <1>4, <1>5 DEF RecordStep

(* A task is resolved by the new vote of an active guardian that brings    *)
(* its weight to the threshold then in force, and by nothing else.         *)
THEOREM ResolvedByVotesOnly == Spec => ResolutionSound
PROOF
<1>1. TypeOK /\ [Next]_vars => [\A t \in TaskId : ResolutionStep(t)]_vars
  BY ResolutionSteps
<1> QED
  BY <1>1, TypeCorrect, PTL DEF Spec, ResolutionSound

-----------------------------------------------------------------------------
(* The pause                                                               *)

Frozen ==
  /\ UNCHANGED <<taskVars, voted, all_votes, ballot, reputation,
                 all_guardians, released, streamVars>>
  /\ \A g \in Address : guardian'[g] # guardian[g] =>
       guardian[g] = "active" /\ guardian'[g] = "resigned"

LEMMA PausedStep ==
  ASSUME TypeOK, [Next]_vars, paused
  PROVE  Frozen
PROOF
<1> USE DEF Frozen, breakerVars, guardianVars, tokenVars, taskVars, voteVars,
            vaultVars, streamVars
<1>1. CASE BreakerStep
  BY <1>1 DEF BreakerStep, TogglePause, Pause, Unpause, SetPaused,
              RecordFailure, ResetCircuitBreaker
<1>2. CASE GuardianStep
  BY <1>2 DEF GuardianStep, AddGuardian, AddGuardianError, RemoveGuardian,
              RemoveGuardianError, SetReputation, SetReputationError,
              require_not_paused, Ok
<1>3. ASSUME NEW th \in LockThresholds, Initialize(th) PROVE Frozen
  BY <1>3 DEF Initialize
<1>4. ASSUME NEW g \in Address, NEW amount \in Amounts, LockTokens(g, amount)
      PROVE  Frozen
  BY <1>4 DEF LockTokens
<1>5. ASSUME NEW g \in Address, ResignGuardian(g) PROVE Frozen
  <2>1. guardian' = [guardian EXCEPT ![g] = "resigned"] /\ guardian[g] = "active"
    BY <1>5 DEF ResignGuardian, ResignGuardianError, is_guardian, Ok
  <2>2. \A a \in Address : guardian'[a] # guardian[a] =>
          guardian[a] = "active" /\ guardian'[a] = "resigned"
    BY <2>1 DEF TypeOK
  <2> QED
    BY <1>5, <2>2 DEF ResignGuardian
<1>6. ASSUME NEW g \in Address, UnlockTokens(g) PROVE Frozen
  BY <1>6 DEF UnlockTokens
<1>7. CASE TaskStep
  BY <1>7 DEF TaskStep, RegisterTask, RegisterTaskError, CancelTask,
              CancelTaskError, ArchiveTask, ArchiveTaskError,
              require_not_paused, Ok
<1>8. ASSUME NEW g \in Address, NEW t \in TaskId, NEW escrow_up \in BOOLEAN,
             Vote(g, t, escrow_up)
      PROVE  FALSE
  BY <1>8, VoteAccepted DEF AcceptedVote
<1>9. ASSUME NEW th \in WeightThresholds, SetWeightThreshold(th) PROVE Frozen
  BY <1>9 DEF SetWeightThreshold
<1>10. ASSUME NEW v \in Vault, SetVaultAddress(v) PROVE Frozen
  BY <1>10 DEF SetVaultAddress
<1>11. CASE StreamStep
  BY <1>11 DEF StreamStep, StartRewardStream, StartRewardStreamError,
               require_not_paused, Ok
<1>12. CASE Tick
  BY <1>12 DEF Tick
<1>13. CASE UNCHANGED vars
  BY <1>13 DEF vars
<1> QED
  BY <1>1, <1>2, <1>3, <1>4, <1>5, <1>6, <1>7, <1>8, <1>9, <1>10, <1>11,
     <1>12, <1>13, [Next]_vars
  DEF Next, TokenStep, VotingStep

(* A paused contract changes no task, vote, score, stream or list, whoever *)
(* calls it; a guardian may still resign.                                  *)
THEOREM PausedIsFrozen == Spec => FrozenWhenPaused
PROOF
<1>1. TypeOK /\ [Next]_vars => [paused => Frozen]_vars
  BY PausedStep
<1> QED
  BY <1>1, TypeCorrect, PTL DEF Spec, FrozenWhenPaused, Frozen

-----------------------------------------------------------------------------
(* Stakes                                                                  *)

StakeKept ==
  \A g \in Address : locked_balance'[g] < locked_balance[g] =>
    ~is_guardian(g)' /\ locked_balance'[g] = 0

LEMMA StakeStep ==
  ASSUME TypeOK, [Next]_vars
  PROVE  StakeKept
PROOF
<1> USE DEF breakerVars, guardianVars, tokenVars, taskVars, voteVars,
            vaultVars, streamVars
<1>1. ASSUME locked_balance' = locked_balance PROVE StakeKept
  BY <1>1 DEF StakeKept, TypeOK
<1>2. ASSUME NEW g \in Address, NEW amount \in Amounts, LockTokens(g, amount)
      PROVE  StakeKept
  <2>1. amount \in Nat
    BY <1>2, InputAssumption
    DEF LockTokens, LockTokensError, Transferable, Ok, TypeOK
  <2> QED
    BY <1>2, <2>1 DEF LockTokens, StakeKept, TypeOK
<1>3. ASSUME NEW g \in Address, ResignGuardian(g) PROVE StakeKept
  <2>1. /\ guardian' = [guardian EXCEPT ![g] = "resigned"]
        /\ locked_balance' = [locked_balance EXCEPT ![g] = 0]
    BY <1>3 DEF ResignGuardian, Refund
  <2> QED
    BY <2>1 DEF StakeKept, is_guardian, TypeOK
<1>4. ASSUME NEW g \in Address, UnlockTokens(g) PROVE StakeKept
  <2>1. /\ guardian' = guardian /\ guardian[g] # "active"
        /\ locked_balance' = [locked_balance EXCEPT ![g] = 0]
    BY <1>4 DEF UnlockTokens, UnlockTokensError, Refund, is_guardian, Ok
  <2> QED
    BY <2>1 DEF StakeKept, is_guardian, TypeOK
<1>5. CASE BreakerStep
  BY <1>1, <1>5 DEF BreakerStep, TogglePause, Pause, Unpause, SetPaused,
                    RecordFailure, ResetCircuitBreaker
<1>6. CASE GuardianStep
  BY <1>1, <1>6 DEF GuardianStep, AddGuardian, RemoveGuardian, SetReputation
<1>7. ASSUME NEW th \in LockThresholds, Initialize(th) PROVE StakeKept
  BY <1>1, <1>7 DEF Initialize
<1>8. CASE TaskStep
  BY <1>1, <1>8 DEF TaskStep, RegisterTask, CancelTask, ArchiveTask
<1>9. CASE VotingStep
  BY <1>1, <1>9 DEF VotingStep, SetWeightThreshold, SetVaultAddress, Vote
<1>10. CASE StreamStep
  BY <1>1, <1>10 DEF StreamStep, StartRewardStream
<1>11. CASE Tick
  BY <1>1, <1>11 DEF Tick
<1>12. CASE UNCHANGED vars
  BY <1>1, <1>12 DEF vars
<1> QED
  BY <1>2, <1>3, <1>4, <1>5, <1>6, <1>7, <1>8, <1>9, <1>10, <1>11, <1>12,
     [Next]_vars
  DEF Next, TokenStep

(* Stake leaves the contract whole, and only to an account that is not, or *)
(* no longer, a guardian.                                                  *)
THEOREM StakeStaysBound == Spec => StakeBound
PROOF
<1>1. TypeOK /\ [Next]_vars => [StakeKept]_vars
  BY StakeStep
<1> QED
  BY <1>1, TypeCorrect, PTL DEF Spec, StakeBound, StakeKept

-----------------------------------------------------------------------------
(* The circuit breaker                                                     *)

ReTrips ==
  failure_count' > failure_count =>
    /\ failure_count' > FAILURE_THRESHOLD => paused'
    /\ paused => paused'

LEMMA BreakerSteps ==
  ASSUME TypeOK, [Next]_vars
  PROVE  ReTrips
PROOF
<1> USE DEF breakerVars
<1>1. ASSUME failure_count' = failure_count PROVE ReTrips
  BY <1>1 DEF ReTrips, TypeOK
<1>2. CASE RecordFailure
  BY <1>2 DEF RecordFailure, Trips, ReTrips
<1>3. CASE ResetCircuitBreaker
  BY <1>3 DEF ResetCircuitBreaker, ReTrips, TypeOK
<1>4. CASE TogglePause \/ Pause \/ Unpause
  BY <1>1, <1>4 DEF TogglePause, Pause, Unpause, SetPaused
<1>5. CASE GuardianStep
  BY <1>1, <1>5 DEF GuardianStep, AddGuardian, RemoveGuardian, SetReputation
<1>6. CASE TokenStep
  BY <1>1, <1>6
  DEF TokenStep, Initialize, LockTokens, ResignGuardian, UnlockTokens
<1>7. CASE TaskStep
  BY <1>1, <1>7 DEF TaskStep, RegisterTask, CancelTask, ArchiveTask
<1>8. CASE VotingStep
  BY <1>1, <1>8 DEF VotingStep, SetWeightThreshold, SetVaultAddress, Vote
<1>9. CASE StreamStep
  BY <1>1, <1>9 DEF StreamStep, StartRewardStream
<1>10. CASE Tick
  BY <1>1, <1>10 DEF Tick
<1>11. CASE UNCHANGED vars
  BY <1>1, <1>11 DEF vars
<1> QED
  BY <1>2, <1>3, <1>4, <1>5, <1>6, <1>7, <1>8, <1>9, <1>10, <1>11,
     [Next]_vars
  DEF Next, BreakerStep

(* Lifting a pause by hand does not disarm the breaker: every failure      *)
(* reported beyond the threshold pauses the contract again.                *)
THEOREM BreakerStaysArmed == Spec => BreakerReTrips
PROOF
<1>1. TypeOK /\ [Next]_vars => [ReTrips]_vars
  BY BreakerSteps
<1> QED
  BY <1>1, TypeCorrect, PTL DEF Spec, BreakerReTrips, ReTrips

-----------------------------------------------------------------------------
(* Settled tasks                                                           *)

(* The vault is called by votes only.                                      *)
LEMMA ReleaseSteps ==
  ASSUME [Next]_vars
  PROVE  \/ released' = released
         \/ \E g \in Address, t \in TaskId, escrow_up \in BOOLEAN :
              Vote(g, t, escrow_up)
PROOF
<1> USE DEF vaultVars
<1>1. CASE BreakerStep
  BY <1>1 DEF BreakerStep, TogglePause, Pause, Unpause, SetPaused,
              RecordFailure, ResetCircuitBreaker
<1>2. CASE GuardianStep
  BY <1>2 DEF GuardianStep, AddGuardian, RemoveGuardian, SetReputation
<1>3. CASE TokenStep
  BY <1>3 DEF TokenStep, Initialize, LockTokens, ResignGuardian, UnlockTokens
<1>4. CASE TaskStep
  BY <1>4 DEF TaskStep, RegisterTask, CancelTask, ArchiveTask
<1>5. CASE VotingStep
  BY <1>5 DEF VotingStep, SetWeightThreshold, SetVaultAddress
<1>6. CASE StreamStep
  BY <1>6 DEF StreamStep, StartRewardStream
<1>7. CASE Tick
  BY <1>7 DEF Tick
<1>8. CASE UNCHANGED vars
  BY <1>8 DEF vars
<1> QED
  BY <1>1, <1>2, <1>3, <1>4, <1>5, <1>6, <1>7, <1>8, [Next]_vars DEF Next

(* What a vote on u does to the escrow of t.                               *)
LEMMA ReleaseOfTask ==
  ASSUME TypeOK, NEW g \in Address, NEW u \in TaskId,
         NEW escrow_up \in BOOLEAN, Vote(g, u, escrow_up), NEW t \in TaskId
  PROVE  \/ released'[t] = released[t]
         \/ /\ t = u
            /\ released'[t] = released[t] + 1
            /\ Resolves(active_task[t], reputation[g])
PROOF
<1>1. released' = released
      \/ /\ released' = [released EXCEPT ![u] = @ + 1]
         /\ Resolves(active_task[u], reputation[g])
  BY DEF Vote, CallsVault, calculate_voting_power
<1> QED
  BY <1>1 DEF TypeOK

SettledStays(t) ==
  /\ Record(t)' = Record(t)
  /\ Voters(t)' = Voters(t)
  /\ released'[t] = released[t]
  /\ reward_stream'[t] = reward_stream[t]

LEMMA SettledStep ==
  ASSUME TypeOK, TasksPartition, [Next]_vars, NEW t \in TaskId, Settled(t)
  PROVE  SettledStays(t)
PROOF
<1> USE DEF Registered, Record, has_active_task, has_archived_task
<1>1. /\ ~(active_task[t] # None /\ archived_task[t] # None)
      /\ active_task[t] # None => active_task[t].is_cancelled
      /\ active_task[t] # None \/ archived_task[t] # None
  BY DEF TasksPartition, Settled
<1>2. ASSUME NEW g \in Address, NEW u \in TaskId, NEW escrow_up \in BOOLEAN,
             Vote(g, u, escrow_up)
      PROVE  u # t
  BY <1>1, <1>2, VoteAccepted, NoneAssumption DEF AcceptedVote
<1>3. Record(t)' = Record(t) /\ Voters(t)' = Voters(t)
  <2>1. CASE Quiet
    BY <2>1 DEF Quiet, Voters
  <2>2. ASSUME NEW u \in TaskId, RegisterTask(u)
        PROVE  Record(t)' = Record(t) /\ Voters(t)' = Voters(t)
    <3>1. /\ active_task' = [active_task EXCEPT ![u] = NewTask]
          /\ archived_task' = archived_task
          /\ voted' = voted
          /\ u # t
      BY <1>1, <2>2 DEF RegisterTask, RegisterTaskError, Ok, voteVars
    <3> QED
      BY <3>1 DEF Voters, TypeOK
  <2>3. ASSUME NEW u \in TaskId, CancelTask(u)
        PROVE  Record(t)' = Record(t) /\ Voters(t)' = Voters(t)
    <3>1. /\ active_task' = [active_task EXCEPT ![u] =
                               [active_task[u] EXCEPT !.is_cancelled = TRUE]]
          /\ archived_task' = archived_task
          /\ voted' = voted
          /\ active_task[u] # None
      BY <2>3 DEF CancelTask, CancelTaskError, Ok, voteVars
    <3>2. CASE u # t
      BY <3>1, <3>2 DEF Voters, TypeOK
    <3>3. CASE u = t
      <4>1. active_task[t] \in TaskRecord /\ active_task[t].is_cancelled
        BY <1>1, <3>1, <3>3 DEF TypeOK
      <4>2. active_task[t].is_cancelled = TRUE
        BY <4>1 DEF TaskRecord
      <4>3. [active_task[t] EXCEPT !.is_cancelled = TRUE] = active_task[t]
        BY <4>1, <4>2 DEF TaskRecord
      <4> QED
        BY <3>1, <3>3, <4>3 DEF Voters, TypeOK
    <3> QED
      BY <3>2, <3>3
  <2>4. ASSUME NEW u \in TaskId, ArchiveTask(u)
        PROVE  Record(t)' = Record(t) /\ Voters(t)' = Voters(t)
    <3>1. /\ active_task' = [active_task EXCEPT ![u] = None]
          /\ archived_task' = [archived_task EXCEPT ![u] = active_task[u]]
          /\ voted' = voted
          /\ active_task[u] # None
      BY <2>4 DEF ArchiveTask, ArchiveTaskError, Ok, voteVars
    <3> QED
      BY <1>1, <3>1 DEF Voters, TypeOK
  <2>5. ASSUME NEW g \in Address, NEW u \in TaskId,
               NEW escrow_up \in BOOLEAN, Vote(g, u, escrow_up)
        PROVE  Record(t)' = Record(t) /\ Voters(t)' = Voters(t)
    <3>1. u # t
      BY <1>2, <2>5
    <3>2. /\ active_task'[t] = active_task[t]
          /\ archived_task' = archived_task
          /\ voted' = voted \cup {<<u, g>>}
      BY <2>5, <3>1 DEF Vote, TypeOK
    <3> QED
      BY <3>1, <3>2 DEF Voters
  <2> QED
    BY <2>1, <2>2, <2>3, <2>4, <2>5, QuietSteps DEF TaskStep
<1>4. released'[t] = released[t]
  BY <1>2, ReleaseSteps, ReleaseOfTask
<1>5. reward_stream'[t] = reward_stream[t]
  <2>1. CASE UNCHANGED streamVars
    BY <2>1 DEF streamVars
  <2>2. ASSUME NEW c \in Contributor, NEW u \in TaskId,
               NEW drips_up \in BOOLEAN, StartRewardStream(c, u, drips_up)
        PROVE  reward_stream'[t] = reward_stream[t]
    <3>1. /\ reward_stream' = [reward_stream EXCEPT ![u] = c]
          /\ u # t
      BY <1>1, <2>2 DEF StartRewardStream, StartRewardStreamError, Ok
    <3> QED
      BY <3>1 DEF TypeOK
  <2> QED
    BY <2>1, <2>2, StreamQuietSteps DEF StreamStep
<1> QED
  BY <1>3, <1>4, <1>5 DEF SettledStays

(* A cancelled or archived task is final: its record, its voters, its      *)
(* escrow and its stream never change again, whatever is called.           *)
THEOREM SettledIsFinal == Spec => SettledFrozen
PROOF
<1>1. TypeOK /\ TasksPartition /\ [Next]_vars
        => [\A t \in TaskId : Settled(t) => SettledStays(t)]_vars
  BY SettledStep
<1> QED
  BY <1>1, TypeCorrect, RegisteredOnce, PTL
  DEF Spec, SettledFrozen, SettledStays

-----------------------------------------------------------------------------
(* Escrow                                                                  *)

LEMMA EscrowStep ==
  ASSUME TypeOK, ResolvedStamp, EscrowOnlyIfResolved, [Next]_vars
  PROVE  EscrowOnlyIfResolved'
PROOF
<1> SUFFICES ASSUME NEW t \in TaskId, released'[t] > 0
             PROVE  Done(t)' /\ released'[t] <= Record(t)'.votes
  BY DEF EscrowOnlyIfResolved
<1>1. released[t] \in Nat
  BY DEF TypeOK
<1>2. released[t] > 0 => Done(t) /\ released[t] <= Record(t).votes
  BY DEF EscrowOnlyIfResolved
<1>3. ASSUME Registered(t)
      PROVE  /\ Registered(t)'
             /\ Record(t).votes \in Nat /\ Record(t)'.votes \in Nat
             /\ Record(t).votes <= Record(t)'.votes
             /\ Done(t) => Done(t)'
  <2>1. TypeOK'
    BY NextType
  <2>2. Registered(t)' /\ Record(t) \in TaskRecord
    BY <1>3, RecordGrowsStep, RecordType DEF RecordGrows
  <2>3. Record(t)' \in TaskRecord
    BY <2>1, <2>2
    DEF TypeOK, Registered, Record, has_active_task, has_archived_task
  <2> QED
    BY <1>3, <2>2, <2>3, RecordGrowsStep DEF RecordGrows, Done, TaskRecord
<1>4. CASE released'[t] = released[t]
  BY <1>1, <1>2, <1>3, <1>4 DEF Done
<1>5. ASSUME NEW g \in Address, NEW escrow_up \in BOOLEAN,
             Vote(g, t, escrow_up), released'[t] = released[t] + 1,
             Resolves(active_task[t], reputation[g])
      PROVE  Done(t)' /\ released'[t] <= Record(t)'.votes
  <2> DEFINE r == active_task[t]
             w == reputation[g]
  <2>1. /\ r \in TaskRecord
        /\ w \in 0..U64Max /\ ~Overflows(r, w) /\ r.votes # U32Max
        /\ Accrue(r, w) \in TaskRecord
        /\ active_task'[t] = Accrue(r, w)
    <3>1. AcceptedVote(g, t)
      BY <1>5, VoteAccepted
    <3> QED
      BY <3>1, ConstantsAssumption DEF AcceptedVote, TypeOK
  <2>2. Record(t) = r /\ Registered(t) /\ Record(t)' = Accrue(r, w)
        /\ Registered(t)'
    BY <2>1, NoneAssumption
    DEF Registered, Record, has_active_task, has_archived_task
  <2> HIDE DEF r, w
  <2>3. Accrue(r, w).votes = r.votes + 1 /\ Accrue(r, w).is_done
    BY <1>5, <2>1, AccrueType DEF TypeOK, r, w
  <2>4. r.votes \in Nat /\ released[t] <= r.votes
    BY <1>1, <1>2, <2>1, <2>2 DEF TaskRecord
  <2> QED
    BY <1>1, <1>5, <2>2, <2>3, <2>4 DEF Done
<1> QED
  BY <1>4, <1>5, ReleaseSteps, ReleaseOfTask

(* The vault pays for resolved tasks only, at most once per vote, also     *)
(* when it fails, is replaced or late votes call it again.                 *)
THEOREM EscrowEarned == Spec => []EscrowOnlyIfResolved
PROOF
<1>1. Init => EscrowOnlyIfResolved
  BY DEF Init, EscrowOnlyIfResolved
<1>2. TypeOK /\ ResolvedStamp /\ EscrowOnlyIfResolved /\ [Next]_vars
        => EscrowOnlyIfResolved'
  BY EscrowStep
<1> QED
  BY <1>1, <1>2, TypeCorrect, StampCorrect, PTL DEF Spec
=============================================================================
