------------------------------ MODULE Consensus ------------------------------
(***************************************************************************)
(* The pure consensus module of the repository (consensus.rs): apply_vote  *)
(* on a state without storage, accounts or clocks.  lib.rs neither         *)
(* declares nor calls it; it is the specification its comments and the     *)
(* verification report hold vote against.                                  *)
(***************************************************************************)
EXTENDS Naturals

CONSTANTS U32Max, U64Max

U64 == 0..U64Max

ConsensusState == [total_weight_accrued : U64,
                   votes                : 0..U32Max,
                   is_done              : BOOLEAN]

new == [total_weight_accrued |-> 0, votes |-> 0, is_done |-> FALSE]

SaturatingInc(n) == IF n = U32Max THEN n ELSE n + 1

(* Mutant: wrapping_add in place of checked_add.                           *)
WrappingResult(s, weight) == IF weight = 0 THEN "ZeroWeight" ELSE "Ok"

apply_vote_result(s, weight) ==
  IF weight = 0 THEN "ZeroWeight"
  ELSE IF s.total_weight_accrued + weight > U64Max THEN "WeightOverflow"
  ELSE "Ok"

Counted(s, weight, threshold) ==
  LET total == s.total_weight_accrued + weight
  IN  [total_weight_accrued |-> total,
       votes                |-> SaturatingInc(s.votes),
       is_done              |-> s.is_done \/ total >= threshold]

(* A rejected vote leaves the state alone.                                 *)
apply_vote(s, weight, threshold) ==
  LET result == apply_vote_result(s, weight)
  IN  [result |-> result,
       state  |-> IF result = "Ok" THEN Counted(s, weight, threshold) ELSE s]

(* A done state has reached the threshold.                                 *)
resolution_invariant_holds(s, threshold) ==
  s.is_done => s.total_weight_accrued >= threshold
=============================================================================
