------------------------------- MODULE MCEvents -------------------------------
(***************************************************************************)
(* Small instances of the contract with its event log and its snapshots,   *)
(* for TLC.                                                                *)
(***************************************************************************)
EXTENDS EventLog, Snapshot, TLC

(* Guardians vote without stake; see initialize.                           *)
StakeWaived == {-1}

AddressSymmetry == Permutations(Address)
=============================================================================
