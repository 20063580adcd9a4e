------------------------------ MODULE MCVeroCore ------------------------------
(***************************************************************************)
(* Small instances of VeroCore for TLC; the bounds are in the .cfg files.  *)
(***************************************************************************)
EXTENDS VoteConsensus, Gas, TLC

(* Addresses are interchangeable: nothing orders or names them.            *)
AddressSymmetry == Permutations(Address)
=============================================================================
