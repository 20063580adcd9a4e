---------------------------- MODULE CircuitBreaker ----------------------------
(***************************************************************************)
(* The emergency halt: the Paused flag, moved by hand through pause,       *)
(* unpause and toggle_pause (lib.rs) or by the failure counter of          *)
(* circuit_breaker.rs.                                                     *)
(***************************************************************************)
EXTENDS VeroStorage

(* The guard most entry points evaluate first.                             *)
require_not_paused == ~paused

(* The pause entry points write nothing but the flag.                      *)
SetPaused(value) ==
  /\ paused' = value
  /\ UNCHANGED <<failure_count, guardianVars, tokenVars, taskVars, voteVars,
                 vaultVars, streamVars, now>>

TogglePause == SetPaused(~paused)

Pause == SetPaused(TRUE)

Unpause == SetPaused(FALSE)

(* Mutant: trips when the threshold is crossed, and then never again.      *)
TripsOnCrossing(count) == count = FAILURE_THRESHOLD + 1

(* The breaker trips on every failure beyond the threshold.                *)
Trips(count) == count > FAILURE_THRESHOLD

(* Permissionless.  overflow-checks make u32::MAX + 1 a panic, so the      *)
(* counter stops there; MaxFailures keeps it small in the instances.       *)
RecordFailure ==
  /\ failure_count < U32Max
  /\ failure_count < MaxFailures
  /\ failure_count' = failure_count + 1
  /\ paused' = (paused \/ Trips(failure_count'))
  /\ UNCHANGED <<guardianVars, tokenVars, taskVars, voteVars, vaultVars,
                 streamVars, now>>

ResetCircuitBreaker ==
  /\ failure_count' = 0
  /\ paused' = FALSE
  /\ UNCHANGED <<guardianVars, tokenVars, taskVars, voteVars, vaultVars,
                 streamVars, now>>
=============================================================================
