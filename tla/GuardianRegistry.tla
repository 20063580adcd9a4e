--------------------------- MODULE GuardianRegistry ---------------------------
(***************************************************************************)
(* Guardian membership (guardian.rs) and reputation scores (reputation.rs) *)
(* behind the entry points of lib.rs.                                      *)
(***************************************************************************)
EXTENDS CircuitBreaker

(* A missing entry and one that resign_guardian set to false are alike.    *)
is_guardian(g) == guardian[g] = "active"

(* Guardian(g) has an entry, whatever its value.                           *)
HasGuardianEntry(g) == guardian[g] # "absent"

AddGuardianError(g) ==
  IF ~require_not_paused THEN "ContractPaused" ELSE Ok

(* A first entry also lists the address; a resigned guardian still has its *)
(* entry and is re-activated without being listed again.                   *)
AddGuardian(g) ==
  /\ AddGuardianError(g) = Ok
  /\ HasGuardianEntry(g) \/ Len(all_guardians) < MaxGuardianEntries
  /\ all_guardians' = IF HasGuardianEntry(g) THEN all_guardians
                                             ELSE Append(all_guardians, g)
  /\ guardian' = [guardian EXCEPT ![g] = "active"]
  /\ UNCHANGED <<reputation, breakerVars, tokenVars, taskVars, voteVars,
                 vaultVars, streamVars, now>>

RemoveGuardianError(g) ==
  IF ~require_not_paused THEN "ContractPaused"
  ELSE IF ~HasGuardianEntry(g) THEN "Panic"
  ELSE Ok

(* Mutant: takes the address off the list as well.                         *)
RemoveGuardianUnlists(g) ==
  /\ RemoveGuardianError(g) = Ok
  /\ guardian' = [guardian EXCEPT ![g] = "absent"]
  /\ all_guardians' = SelectSeq(all_guardians, LAMBDA a : a # g)
  /\ UNCHANGED <<reputation, breakerVars, tokenVars, taskVars, voteVars,
                 vaultVars, streamVars, now>>

(* Deletes the entry; AllGuardians keeps the address.                      *)
RemoveGuardian(g) ==
  /\ RemoveGuardianError(g) = Ok
  /\ guardian' = [guardian EXCEPT ![g] = "absent"]
  /\ UNCHANGED <<all_guardians, reputation, breakerVars, tokenVars, taskVars,
                 voteVars, vaultVars, streamVars, now>>

SetReputationError(g) ==
  IF ~require_not_paused THEN "ContractPaused" ELSE Ok

(* Any address may be given a score, guardian or not.                      *)
SetReputation(g, score) ==
  /\ SetReputationError(g) = Ok
  /\ reputation' = [reputation EXCEPT ![g] = score]
  /\ UNCHANGED <<guardian, all_guardians, breakerVars, tokenVars, taskVars,
                 voteVars, vaultVars, streamVars, now>>

(* The raw score is the weight; None if no score was ever set.             *)
calculate_voting_power(g) == reputation[g]
=============================================================================
