---------------------------- MODULE RewardStreams ----------------------------
(***************************************************************************)
(* Reward streams of resolved tasks (drips.rs, start_reward_stream of      *)
(* lib.rs).  The Drips contract is external; a failing start_stream call   *)
(* traps the invocation, and the rw_fail event of an Err return is rolled  *)
(* back with the rest of it.                                               *)
(***************************************************************************)
EXTENDS Voting

(* Mutants: no test of is_cancelled; no test of is_done.                   *)
StartRewardStreamErrorCancelled(t, drips_up) ==
  IF ~require_not_paused THEN "ContractPaused"
  ELSE IF ~has_active_task(t) THEN "NotAuthorized"
  ELSE IF ~active_task[t].is_done THEN "TaskNotVerified"
  ELSE IF reward_stream[t] # None THEN "StreamAlreadyActive"
  ELSE IF ~drips_up THEN "DripsTrap"
  ELSE Ok

StartRewardStreamErrorUnverified(t, drips_up) ==
  IF ~require_not_paused THEN "ContractPaused"
  ELSE IF ~has_active_task(t) THEN "NotAuthorized"
  ELSE IF active_task[t].is_cancelled THEN "TaskCancelled"
  ELSE IF reward_stream[t] # None THEN "StreamAlreadyActive"
  ELSE IF ~drips_up THEN "DripsTrap"
  ELSE Ok

StartRewardStreamError(t, drips_up) ==
  IF ~require_not_paused THEN "ContractPaused"
  ELSE IF ~has_active_task(t) THEN "NotAuthorized"
  ELSE IF active_task[t].is_cancelled THEN "TaskCancelled"
  ELSE IF ~active_task[t].is_done THEN "TaskNotVerified"
  ELSE IF reward_stream[t] # None THEN "StreamAlreadyActive"
  ELSE IF ~drips_up THEN "DripsTrap"
  ELSE Ok

StartRewardStream(contributor, t, drips_up) ==
  /\ StartRewardStreamError(t, drips_up) = Ok
  /\ all_streams' = Append(all_streams, t)
  /\ reward_stream' = [reward_stream EXCEPT ![t] = contributor]
  /\ UNCHANGED <<breakerVars, guardianVars, tokenVars, taskVars, voteVars,
                 vaultVars, now>>
=============================================================================
