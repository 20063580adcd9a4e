-------------------------------- MODULE MCTtl --------------------------------
(***************************************************************************)
(* Small instances of the contract on a storage that expires, for TLC.     *)
(***************************************************************************)
EXTENDS InstanceTtl, TLC

(* Amounts a caller may try to lock; the token refuses the negative one.   *)
TriedAmounts == {-1, 1, 2}
=============================================================================
