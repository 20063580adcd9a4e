---------------------------- MODULE MCInvocation ----------------------------
(***************************************************************************)
(* Small instances of the split invocations for TLC.                       *)
(***************************************************************************)
EXTENDS Invocation, TLC

(* Guardians vote without stake; see initialize.                           *)
StakeWaived == {-1}

AddressSymmetry == Permutations(Address)
=============================================================================
