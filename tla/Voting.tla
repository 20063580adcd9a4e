-------------------------------- MODULE Voting --------------------------------
(***************************************************************************)
(* Weighted consensus: vote, set_weight_threshold and set_vault_address    *)
(* (lib.rs) and the escrow contract behind vault.rs, which is external:    *)
(* try_release_funds either succeeds, and the vault's effect commits with  *)
(* the invocation, or fails, and vote returns Err.                         *)
(***************************************************************************)
EXTENDS TaskStore

(* Not subject to the pause flag.                                          *)
SetWeightThreshold(threshold) ==
  /\ weight_threshold' = threshold
  /\ UNCHANGED <<voted, all_votes, ballot, breakerVars, guardianVars,
                 tokenVars, taskVars, vaultVars, streamVars, now>>

(* Not subject to the pause flag.                                          *)
SetVaultAddress(vault) ==
  /\ vault_address' = vault
  /\ UNCHANGED <<released, breakerVars, guardianVars, tokenVars, taskVars,
                 voteVars, streamVars, now>>

(* Mutants: the key's components swapped; the key consulted only while the *)
(* task is open.                                                           *)
HasVotedSwappedKey(g, t) == <<g, t>> \in voted

HasVotedWhileOpen(g, t) ==
  /\ <<t, g>> \in voted
  /\ has_active_task(t) => ~active_task[t].is_done

(* DataKey::Voted(task_id, guardian) is present.                           *)
HasVoted(g, t) == <<t, g>> \in voted

(* The balance must exceed the threshold, not merely reach it.             *)
HasStake(g) == locked_balance[g] > lock_threshold

(* Mutant: wrapping_add.                                                   *)
WrappingWeightAfter(task, weight) ==
  (task.total_weight_accrued + weight) % (U64Max + 1)

WeightAfter(task, weight) == task.total_weight_accrued + weight

(* Mutant: no overflow test.                                               *)
NeverOverflows(task, weight) == FALSE

(* checked_add: a sum above u64::MAX rejects the vote.                     *)
Overflows(task, weight) == WeightAfter(task, weight) > U64Max

(* Mutant: the stored threshold is ignored.                                *)
ResolvesAtDefault(task, weight) ==
  WeightAfter(task, weight) >= DEFAULT_WEIGHT_THRESHOLD

(* Every accepted vote that leaves the total at or above the threshold     *)
(* resolves the task, whether or not an earlier vote already did.          *)
Resolves(task, weight) == WeightAfter(task, weight) >= weight_threshold

(* Mutant: is_done recomputed by every vote.                               *)
AccrueRecomputesDone(task, weight) ==
  [task EXCEPT !.total_weight_accrued = WeightAfter(task, weight),
               !.votes = @ + 1,
               !.is_done = Resolves(task, weight),
               !.resolved_at = IF Resolves(task, weight) THEN now ELSE @]

(* Mutant: the stamp cleared by a vote that does not reach the threshold.  *)
AccrueClearsStamp(task, weight) ==
  [task EXCEPT !.total_weight_accrued = WeightAfter(task, weight),
               !.votes = @ + 1,
               !.is_done = @ \/ Resolves(task, weight),
               !.resolved_at = IF Resolves(task, weight) THEN now ELSE 0]

(* The task record vote writes back.                                       *)
Accrue(task, weight) ==
  [task EXCEPT !.total_weight_accrued = WeightAfter(task, weight),
               !.votes = @ + 1,
               !.is_done = @ \/ Resolves(task, weight),
               !.resolved_at = IF Resolves(task, weight) THEN now ELSE @]

(* Mutant: every vote calls the vault.                                     *)
CallsVaultAlways(task, weight) == vault_address # None

(* The vote makes the vault release the task's escrow.                     *)
CallsVault(task, weight) == Resolves(task, weight) /\ vault_address # None

(* vote's early returns up to the record it changes.                       *)
VoterError(g, t) ==
  IF ~require_not_paused THEN "ContractPaused"
  ELSE IF ~is_guardian(g) THEN "NotAuthorized"
  ELSE IF ~initialized THEN "NotInitialized"
  ELSE IF ~HasStake(g) THEN "InsufficientLockedBalance"
  ELSE IF HasVoted(g, t) THEN "DuplicateVote"
  ELSE IF calculate_voting_power(g) = None THEN "NoReputationScore"
  ELSE IF calculate_voting_power(g) = 0 THEN "ZeroWeightVote"
  ELSE Ok

(* The rest.  votes += 1 panics at u32::MAX under overflow-checks.         *)
TallyError(t, weight, escrow_up) ==
  IF ~has_active_task(t) THEN "NotAuthorized"
  ELSE IF active_task[t].is_cancelled THEN "TaskCancelled"
  ELSE IF Overflows(active_task[t], weight) THEN "WeightOverflow"
  ELSE IF active_task[t].votes = U32Max THEN "Panic"
  ELSE IF CallsVault(active_task[t], weight) /\ ~escrow_up
       THEN "EscrowUnavailable"
  ELSE Ok

(* escrow_up: whether a call of the vault, if one is made, succeeds.       *)
Vote(g, t, escrow_up) ==
  LET weight == calculate_voting_power(g)
      task   == active_task[t]
  IN  /\ VoterError(g, t) = Ok
      /\ TallyError(t, weight, escrow_up) = Ok
      /\ released' = IF CallsVault(task, weight)
                     THEN [released EXCEPT ![t] = @ + 1] ELSE released
      /\ all_votes' = Append(all_votes, <<t, g>>)
      /\ voted' = voted \cup {<<t, g>>}
      /\ active_task' = [active_task EXCEPT ![t] = Accrue(task, weight)]
      /\ ballot' = [ballot EXCEPT ![t][g] = weight]
      /\ UNCHANGED <<weight_threshold, vault_address, archived_task, all_tasks,
                     breakerVars, guardianVars, tokenVars, streamVars, now>>
=============================================================================
