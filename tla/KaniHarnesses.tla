---------------------------- MODULE KaniHarnesses ----------------------------
(***************************************************************************)
(* The nine proof harnesses of verification/src/lib.rs.  Each one is an    *)
(* action that draws the inputs kani::any() stands for, restricted by the  *)
(* harness's assumptions, calls apply_vote and evaluates its assertions;   *)
(* trial keeps the inputs and whether the assertions held.                 *)
(***************************************************************************)
EXTENDS Consensus

ASSUME WidthAssumption == U32Max \in Nat \ {0, 1} /\ U64Max \in Nat \ {0}

VARIABLE trial

Positive == U64 \ {0}

Idle == [harness |-> "none", before |-> new, weights |-> << >>,
         threshold |-> 0, passed |-> TRUE]

Ran(harness, before, weights, threshold, passed) ==
  trial' = [harness |-> harness, before |-> before, weights |-> weights,
            threshold |-> threshold, passed |-> passed]

proof_threshold_invariant ==
  \E weight \in Positive, threshold \in U64 :
    LET r == apply_vote(new, weight, threshold)
    IN  Ran("threshold_invariant", new, <<weight>>, threshold,
            /\ r.result = "Ok"
            /\ r.state.is_done <=> weight >= threshold
            /\ r.state.total_weight_accrued = weight
            /\ r.state.votes = 1)

proof_no_below_threshold_resolution ==
  \E weight \in Positive, threshold \in U64, before \in ConsensusState :
    /\ before.total_weight_accrued < U64Max
    /\ ~before.is_done
    /\ LET r == apply_vote(before, weight, threshold)
       IN  Ran("no_below_threshold_resolution", before, <<weight>>, threshold,
               r.state.is_done => r.state.total_weight_accrued >= threshold)

proof_monotone_done ==
  \E weight \in Positive, threshold \in 0..(U64Max \div 2),
     before \in ConsensusState :
    /\ before.is_done
    /\ before.total_weight_accrued >= threshold
    /\ before.total_weight_accrued <= U64Max - weight
    /\ Ran("monotone_done", before, <<weight>>, threshold,
           apply_vote(before, weight, threshold).state.is_done)

proof_weight_overflow_impossible ==
  \E weight \in Positive, threshold \in U64, before \in ConsensusState :
    /\ before.total_weight_accrued > U64Max - weight
    /\ ~before.is_done
    /\ LET r == apply_vote(before, weight, threshold)
       IN  Ran("weight_overflow_impossible", before, <<weight>>, threshold,
               /\ r.result = "WeightOverflow"
               /\ r.state.total_weight_accrued = before.total_weight_accrued
               /\ ~r.state.is_done)

proof_votes_no_overflow ==
  \E weight \in Positive, threshold \in U64, before \in ConsensusState :
    /\ before.total_weight_accrued <= U64Max - weight
    /\ ~before.is_done
    /\ LET r == apply_vote(before, weight, threshold)
       IN  Ran("votes_no_overflow", before, <<weight>>, threshold,
               /\ r.state.votes >= before.votes
               /\ r.state.votes = SaturatingInc(before.votes))

proof_zero_threshold_safe ==
  \E weight \in Positive :
    LET r == apply_vote(new, weight, 0)
    IN  Ran("zero_threshold_safe", new, <<weight>>, 0,
            /\ r.result = "Ok"
            /\ r.state.is_done
            /\ r.state.total_weight_accrued = weight)

proof_max_weight_single_guardian ==
  \E threshold \in U64 :
    LET r == apply_vote(new, U64Max, threshold)
    IN  Ran("max_weight_single_guardian", new, <<U64Max>>, threshold,
            /\ r.result = "Ok"
            /\ r.state.total_weight_accrued = U64Max
            /\ r.state.is_done)

proof_multi_vote_accumulation ==
  \E w1, w2 \in 1..(U64Max \div 2), threshold \in U64 :
    LET r1 == apply_vote(new, w1, threshold)
        r2 == apply_vote(r1.state, w2, threshold)
    IN  Ran("multi_vote_accumulation", new, <<w1, w2>>, threshold,
            /\ r1.result = "Ok"
            /\ r2.result = "Ok"
            /\ r2.state.total_weight_accrued = w1 + w2
            /\ r2.state.votes = 2
            /\ r2.state.is_done <=> w1 + w2 >= threshold)

proof_resolution_invariant_helper ==
  \E weight \in Positive, threshold \in U64 :
    LET r == apply_vote(new, weight, threshold)
    IN  Ran("resolution_invariant_helper", new, <<weight>>, threshold,
            r.result = "Ok" => resolution_invariant_holds(r.state, threshold))

Init == trial = Idle

Next ==
  \/ proof_threshold_invariant
  \/ proof_no_below_threshold_resolution
  \/ proof_monotone_done
  \/ proof_weight_overflow_impossible
  \/ proof_votes_no_overflow
  \/ proof_zero_threshold_safe
  \/ proof_max_weight_single_guardian
  \/ proof_multi_vote_accumulation
  \/ proof_resolution_invariant_helper

Spec == Init /\ [][Next]_trial

(* No assertion of any harness fails, whatever its symbolic inputs: what   *)
(* the report says Kani verified for 64-bit weights.                       *)
AssertionsHold == trial.passed
=============================================================================
