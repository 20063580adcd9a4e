------------------------------ MODULE TaskStore ------------------------------
(***************************************************************************)
(* Task records in their two key spaces, ActiveTask and ArchivedTask:      *)
(* registration and cancellation (task.rs), archiving (storage.rs), each   *)
(* with the entry point of lib.rs that wraps it.                           *)
(***************************************************************************)
EXTENDS TokenLock

has_active_task(t) == active_task[t] # None

has_archived_task(t) == archived_task[t] # None

NewTask == [votes |-> 0, is_done |-> FALSE, resolved_at |-> 0,
            total_weight_accrued |-> 0, is_cancelled |-> FALSE]

(* Mutant: only the active key space is consulted.                         *)
RegisterTaskErrorActiveOnly(t) ==
  IF ~require_not_paused THEN "ContractPaused"
  ELSE IF has_active_task(t) THEN "NotAuthorized"
  ELSE Ok

(* register_task hands register_tasks a batch of one, so the batch limit   *)
(* and duplicates inside a batch cannot arise.                             *)
RegisterTaskError(t) ==
  IF ~require_not_paused THEN "ContractPaused"
  ELSE IF has_active_task(t) \/ has_archived_task(t) THEN "NotAuthorized"
  ELSE Ok

RegisterTask(t) ==
  /\ RegisterTaskError(t) = Ok
  /\ active_task' = [active_task EXCEPT ![t] = NewTask]
  /\ all_tasks' = Append(all_tasks, t)
  /\ UNCHANGED <<archived_task, breakerVars, guardianVars, tokenVars, voteVars,
                 vaultVars, streamVars, now>>

(* Mutant: no pause check.                                                 *)
CancelTaskErrorUnpausable(t) ==
  IF ~has_active_task(t) THEN "NotAuthorized" ELSE Ok

CancelTaskError(t) ==
  IF ~require_not_paused THEN "ContractPaused"
  ELSE IF ~has_active_task(t) THEN "NotAuthorized"
  ELSE Ok

(* A task may be cancelled again, and after it was resolved.               *)
CancelTask(t) ==
  /\ CancelTaskError(t) = Ok
  /\ active_task' = [active_task EXCEPT ![t].is_cancelled = TRUE]
  /\ UNCHANGED <<archived_task, all_tasks, breakerVars, guardianVars,
                 tokenVars, voteVars, vaultVars, streamVars, now>>

(* u64::saturating_sub                                                     *)
SaturatingSub(a, b) == IF a >= b THEN a - b ELSE 0

(* Mutant: the operands of the subtraction swapped.                        *)
IsStaleSwapped(task) ==
  SaturatingSub(task.resolved_at, now) > ARCHIVE_AFTER_SECONDS

(* Older than the archive period, strictly.                                *)
IsStale(task) == SaturatingSub(now, task.resolved_at) > ARCHIVE_AFTER_SECONDS

(* Mutant: a cancelled task may be archived unresolved.                    *)
IsVerifiedOrCancelled(task) ==
  task.is_cancelled \/ (task.is_done /\ task.resolved_at # 0)

(* is_done alone would do; the code also rejects the "unresolved" stamp.   *)
IsVerified(task) == task.is_done /\ task.resolved_at # 0

ArchiveTaskError(t) ==
  IF ~require_not_paused THEN "ContractPaused"
  ELSE IF ~has_active_task(t) THEN "TaskNotFound"
  ELSE IF has_archived_task(t) THEN "TaskAlreadyArchived"
  ELSE IF ~IsVerified(active_task[t]) THEN "TaskNotVerified"
  ELSE IF ~IsStale(active_task[t]) THEN "TaskNotStale"
  ELSE Ok

(* Permissionless.                                                         *)
ArchiveTask(t) ==
  /\ ArchiveTaskError(t) = Ok
  /\ archived_task' = [archived_task EXCEPT ![t] = active_task[t]]
  /\ active_task' = [active_task EXCEPT ![t] = None]
  /\ UNCHANGED <<all_tasks, breakerVars, guardianVars, tokenVars, voteVars,
                 vaultVars, streamVars, now>>
=============================================================================
