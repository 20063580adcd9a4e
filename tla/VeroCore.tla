------------------------------- MODULE VeroCore -------------------------------
(***************************************************************************)
(* The contract as a whole: every state-changing entry point of lib.rs     *)
(* except upgrade_contract, called in any order by anybody, while the      *)
(* ledger clock advances.  The properties below are about the interplay of *)
(* the component modules this one gathers.                                 *)
(***************************************************************************)
EXTENDS RewardStreams, Functions

BreakerStep == TogglePause \/ Pause \/ Unpause \/ RecordFailure
               \/ ResetCircuitBreaker

GuardianStep ==
  \E g \in Address :
    \/ AddGuardian(g)
    \/ RemoveGuardian(g)
    \/ \E s \in Scores : SetReputation(g, s)

TokenStep ==
  \/ \E th \in LockThresholds : Initialize(th)
  \/ \E g \in Address :
       \/ \E amount \in Amounts : LockTokens(g, amount)
       \/ ResignGuardian(g)
       \/ UnlockTokens(g)

TaskStep ==
  \E t \in TaskId : RegisterTask(t) \/ CancelTask(t) \/ ArchiveTask(t)

VotingStep ==
  \/ \E th \in WeightThresholds : SetWeightThreshold(th)
  \/ \E v \in Vault : SetVaultAddress(v)
  \/ \E g \in Address, t \in TaskId, escrow_up \in BOOLEAN :
       Vote(g, t, escrow_up)

StreamStep ==
  \E c \in Contributor, t \in TaskId, drips_up \in BOOLEAN :
    StartRewardStream(c, t, drips_up)

Next ==
  \/ BreakerStep
  \/ GuardianStep
  \/ TokenStep
  \/ TaskStep
  \/ VotingStep
  \/ StreamStep
  \/ Tick

Spec == Init /\ [][Next]_vars

(* The two ways a token holder gets its stake back.                        *)
Withdraw(g) == ResignGuardian(g) \/ UnlockTokens(g)

(* Ledgers keep closing, and archive_task is permissionless: someone keeps *)
(* calling it for every task.                                              *)
ArchiveFairness ==
  WF_vars(Tick) /\ \A t \in TaskId : WF_vars(ArchiveTask(t))

ArchiveSpec == Spec /\ ArchiveFairness

-----------------------------------------------------------------------------
Registered(t) == has_active_task(t) \/ has_archived_task(t)

(* The record of a registered task, in whichever key space it lives.       *)
Record(t) == IF has_active_task(t) THEN active_task[t] ELSE archived_task[t]

Done(t) == Registered(t) /\ Record(t).is_done

Voters(t) == {g \in Address : <<t, g>> \in voted}

(* A list that names every member of a set exactly once.                   *)
ListsExactly(list, S) == IsInjective(list) /\ Range(list) = S

-----------------------------------------------------------------------------
(* Invariants                                                              *)

(* register_task and archive_task keep the two key spaces disjoint, so an  *)
(* id is registered once for all time: AllTasks lists every registered id  *)
(* once, and archive_task never meets an id already archived.              *)
TasksPartition ==
  /\ \A t \in TaskId : ~(has_active_task(t) /\ has_archived_task(t))
  /\ ListsExactly(all_tasks, {t \in TaskId : Registered(t)})
  /\ \A t \in TaskId : ArchiveTaskError(t) # "TaskAlreadyArchived"

(* vote counts heads: through removals, resignations, re-admissions and    *)
(* archiving, a task's votes field is the number of distinct guardians     *)
(* holding a Voted entry for it; nobody votes on an unregistered id.       *)
VotesMatchVoters ==
  \A t \in TaskId :
    /\ Registered(t) => Record(t).votes = Cardinality(Voters(t))
    /\ ~Registered(t) => Voters(t) = {}

(* total_weight_accrued is exactly the sum of the weights the wt_vote      *)
(* events published, whatever set_reputation did to the scores since, and  *)
(* however close to u64::MAX it came.                                      *)
WeightMatchesBallots ==
  \A t \in TaskId :
    /\ Registered(t) => Record(t).total_weight_accrued = SumFunction(ballot[t])
    /\ Voters(t) = {g \in Address : ballot[t][g] > 0}

(* AllVotes, which get_snapshot pages through, names each Voted entry once.*)
VoteLogExact == ListsExactly(all_votes, voted)

(* Whoever is or was admitted, and so whoever voted, stays listed in       *)
(* AllGuardians, the only way get_snapshot finds guardians and scores.     *)
GuardiansListed ==
  /\ \A g \in Address : HasGuardianEntry(g) => g \in Range(all_guardians)
  /\ \A v \in voted : v[2] \in Range(all_guardians)

(* is_done and resolved_at move together, over votes that come after the   *)
(* resolution and thresholds raised after it: archive_task's second test,  *)
(* resolved_at == 0, never decides, and no age is cut off at zero.         *)
ResolvedStamp ==
  \A t \in TaskId : Registered(t) =>
    /\ Record(t).is_done <=> Record(t).resolved_at # 0
    /\ Record(t).resolved_at <= now
    /\ Record(t).is_done => Record(t).votes > 0

(* The vault is called for resolved tasks only, at most once per vote.     *)
EscrowOnlyIfResolved ==
  \A t \in TaskId : released[t] > 0 =>
    Done(t) /\ released[t] <= Record(t).votes

(* A reward stream belongs to a resolved task, also after the task was     *)
(* archived, and AllRewardStreams lists each stream once.                  *)
StreamsOnlyForResolved ==
  /\ \A t \in TaskId : reward_stream[t] # None => Done(t)
  /\ ListsExactly(all_streams, {t \in TaskId : reward_stream[t] # None})

(* No token is created, lost or owed to the wrong account: the contract    *)
(* holds exactly the sum of the locked balances, and each account owns its *)
(* endowment between its wallet and its locked balance.                    *)
CustodyExact ==
  /\ held = SumFunction(locked_balance)
  /\ \A a \in Address : wallet[a] + locked_balance[a] = Endowment

(* Locked tokens are never stranded: whatever the membership entry is,     *)
(* resign_guardian or unlock_tokens accepts the holder and the transfer is *)
(* covered.  Neither tests the pause flag, so this holds of a paused       *)
(* contract too, against the README: see StakeHeldWhenPaused.              *)
ExitAlwaysOpen ==
  \A g \in Address : locked_balance[g] > 0 =>
    ResignGuardianError(g) = Ok \/ UnlockTokensError(g) = Ok

-----------------------------------------------------------------------------
(* Action properties                                                       *)

(* A registered id stays registered and its record only grows: votes,      *)
(* weight and the resolution stamp never decrease, is_done and             *)
(* is_cancelled are never cleared, whatever becomes of the threshold.      *)
RecordGrows(t) ==
  Registered(t) =>
    /\ Registered(t)'
    /\ Record(t)'.votes >= Record(t).votes
    /\ Record(t)'.total_weight_accrued >= Record(t).total_weight_accrued
    /\ Record(t)'.resolved_at >= Record(t).resolved_at
    /\ Record(t).is_done => Record(t)'.is_done
    /\ Record(t).is_cancelled => Record(t)'.is_cancelled

RecordMonotone == [][\A t \in TaskId : RecordGrows(t)]_vars

(* A task becomes done in no other step than a new vote of an active       *)
(* guardian that brings its weight to the threshold in force, and a vote   *)
(* that does so leaves it done.                                            *)
ResolutionStep(t) ==
  /\ ~Done(t) /\ Done(t)' =>
       \E g \in Address : is_guardian(g) /\ g \notin Voters(t) /\ g \in Voters(t)'
  /\ Voters(t)' # Voters(t) =>
       (Done(t)' <=> \/ Done(t)
                     \/ Record(t)'.total_weight_accrued >= weight_threshold)

ResolutionSound == [][\A t \in TaskId : ResolutionStep(t)]_vars

(* Cancelling and archiving settle a task: no vote, no release of escrow   *)
(* and no reward stream comes after, and its record no longer changes.     *)
Settled(t) == has_archived_task(t) \/ (Registered(t) /\ Record(t).is_cancelled)

SettledFrozen ==
  [][\A t \in TaskId : Settled(t) =>
       /\ Record(t)' = Record(t)
       /\ Voters(t)' = Voters(t)
       /\ released'[t] = released[t]
       /\ reward_stream'[t] = reward_stream[t]]_vars

(* A step taken while paused changes no task, vote, score, stream or       *)
(* guardian list, releases no escrow, and touches a membership only by     *)
(* letting its owner resign.                                               *)
FrozenWhenPaused ==
  [][paused =>
       /\ UNCHANGED <<taskVars, voted, all_votes, ballot, reputation,
                      all_guardians, released, streamVars>>
       /\ \A g \in Address : guardian'[g] # guardian[g] =>
            guardian[g] = "active" /\ guardian'[g] = "resigned"]_vars

(* Stake is bound to membership: a locked balance shrinks only in a step   *)
(* that leaves its owner without a vote, so no active guardian can vote    *)
(* and take its stake back while still a guardian.                         *)
StakeBound ==
  [][\A g \in Address : locked_balance'[g] < locked_balance[g] =>
       ~is_guardian(g)' /\ locked_balance'[g] = 0]_vars

(* A pause lifted by hand leaves the failure counter where it was: every   *)
(* further failure reported above the threshold pauses the contract again, *)
(* and no report lifts a pause.                                            *)
BreakerReTrips ==
  [][failure_count' > failure_count =>
       /\ failure_count' > FAILURE_THRESHOLD => paused'
       /\ paused => paused']_vars

-----------------------------------------------------------------------------
(* Liveness                                                                *)

(* A holder that keeps asking gets its locked tokens back, removed,        *)
(* resigned or still a guardian, and, as the code is, also while paused.   *)
FundsRecoverable ==
  \A g \in Address : locked_balance[g] > 0 ~> locked_balance[g] = 0

(* The archive period of the task's last resolving vote ends before the    *)
(* bounded clock stops.                                                    *)
Room(t) ==
  Registered(t) /\ Record(t).resolved_at + ARCHIVE_AFTER_SECONDS < MaxTime

(* If pauses end, a resolved task is archived, cancelled or not, although  *)
(* late votes may restart its archive period.                              *)
ArchiveProgress ==
  <>[]~paused =>
    \A t \in TaskId :
      (Done(t) /\ Room(t)) ~> (has_archived_task(t) \/ ~Room(t))

-----------------------------------------------------------------------------
(* Refinement                                                              *)

Phase(t) ==
  IF has_archived_task(t) THEN "archived"
  ELSE IF ~has_active_task(t) THEN "unregistered"
  ELSE IF active_task[t].is_done THEN "resolved"
  ELSE "open"

Lifecycle == INSTANCE TaskLifecycle WITH
  phase     <- [t \in TaskId |-> Phase(t)],
  cancelled <- {t \in TaskId : Registered(t) /\ Record(t).is_cancelled},
  voters    <- [t \in TaskId |-> Voters(t)],
  rewarded  <- {t \in TaskId : reward_stream[t] # None}

(* The contract implements the task life cycle: every invocation is a step *)
(* of TaskLifecycle or leaves it alone.                                    *)
ImplementsTaskLifecycle == Lifecycle!Spec

-----------------------------------------------------------------------------
(* What the repository's README says and the code does not do              *)

(* "Contract is paused; all state-changing calls are blocked": in          *)
(* particular no tokens leave a paused contract.                           *)
StakeHeldWhenPaused ==
  [][paused =>
       \A g \in Address : locked_balance'[g] >= locked_balance[g]]_vars

(* "When total_weight_accrued >= weight_threshold (default 300) the task's *)
(* is_done flips to true", stated for tasks somebody voted on.             *)
ThresholdMeansDone ==
  \A t \in TaskId :
    /\ has_active_task(t)
    /\ active_task[t].votes > 0
    /\ active_task[t].total_weight_accrued >= weight_threshold
    => active_task[t].is_done

(* "Cross-contract escrow release on task resolution": the vault is called *)
(* by the vote that resolves the task.                                     *)
ReleaseOnResolution ==
  [][\A t \in TaskId : released'[t] # released[t] => ~Done(t) /\ Done(t)']_vars
=============================================================================
