------------------------------ MODULE KaniProofs ------------------------------
(***************************************************************************)
(* The assertions of the Kani harnesses, for every width of the counters.  *)
(***************************************************************************)
EXTENDS KaniHarnesses, TLAPS

(* What apply_vote answers to a vote with a positive weight.               *)
LEMMA ApplyVote ==
  ASSUME NEW s \in ConsensusState, NEW weight \in Positive,
         NEW threshold \in U64
  PROVE  /\ s.total_weight_accrued + weight <= U64Max =>
              /\ apply_vote(s, weight, threshold).result = "Ok"
              /\ apply_vote(s, weight, threshold).state
                   = Counted(s, weight, threshold)
         /\ s.total_weight_accrued + weight > U64Max =>
              /\ apply_vote(s, weight, threshold).result = "WeightOverflow"
              /\ apply_vote(s, weight, threshold).state = s
PROOF
<1>1. weight # 0 /\ s.total_weight_accrued + weight \in Nat /\ U64Max \in Nat
  BY WidthAssumption DEF Positive, U64, ConsensusState
<1>2. s.total_weight_accrued + weight <= U64Max =>
        apply_vote_result(s, weight) = "Ok"
  BY <1>1 DEF apply_vote_result
<1>3. s.total_weight_accrued + weight > U64Max =>
        apply_vote_result(s, weight) = "WeightOverflow"
  BY <1>1 DEF apply_vote_result
<1> QED
  BY <1>2, <1>3 DEF apply_vote

(* What a counted vote leaves.                                             *)
LEMMA CountedFields ==
  ASSUME NEW s, NEW weight, NEW threshold
  PROVE  /\ Counted(s, weight, threshold).total_weight_accrued
              = s.total_weight_accrued + weight
         /\ Counted(s, weight, threshold).votes = SaturatingInc(s.votes)
         /\ Counted(s, weight, threshold).is_done
              = (s.is_done \/ s.total_weight_accrued + weight >= threshold)
PROOF
  BY DEF Counted

LEMMA CountedType ==
  ASSUME NEW s \in ConsensusState, NEW weight \in U64, NEW threshold \in U64,
         s.total_weight_accrued + weight <= U64Max
  PROVE  Counted(s, weight, threshold) \in ConsensusState
PROOF
<1>1. s.total_weight_accrued + weight \in U64
  BY WidthAssumption DEF U64, ConsensusState
<1>2. SaturatingInc(s.votes) \in 0..U32Max
  BY WidthAssumption DEF SaturatingInc, ConsensusState
<1>3. (s.is_done \/ s.total_weight_accrued + weight >= threshold) \in BOOLEAN
  OBVIOUS
<1> QED
  BY <1>1, <1>2, <1>3 DEF Counted, ConsensusState

LEMMA NewState ==
  /\ new \in ConsensusState
  /\ new.total_weight_accrued = 0 /\ new.votes = 0 /\ new.is_done = FALSE
PROOF
  BY WidthAssumption DEF new, ConsensusState, U64

(* The first vote on a new state is always counted.                        *)
LEMMA FirstVote ==
  ASSUME NEW weight \in Positive, NEW threshold \in U64
  PROVE  LET r == apply_vote(new, weight, threshold)
         IN  /\ r.result = "Ok"
             /\ r.state = Counted(new, weight, threshold)
             /\ r.state.total_weight_accrued = weight
             /\ r.state.votes = 1
             /\ r.state.is_done <=> weight >= threshold
PROOF
<1>1. weight \in Nat /\ weight <= U64Max /\ 0 + weight = weight
  BY WidthAssumption DEF Positive, U64
<1>2. SaturatingInc(0) = 1
  BY WidthAssumption DEF SaturatingInc
<1>3. /\ apply_vote(new, weight, threshold).result = "Ok"
      /\ apply_vote(new, weight, threshold).state
           = Counted(new, weight, threshold)
  BY <1>1, NewState, ApplyVote
<1>4. /\ Counted(new, weight, threshold).total_weight_accrued = weight
      /\ Counted(new, weight, threshold).votes = 1
      /\ Counted(new, weight, threshold).is_done <=> weight >= threshold
  <2> DEFINE c == Counted(new, weight, threshold)
  <2>1. /\ c.total_weight_accrued = new.total_weight_accrued + weight
        /\ c.votes = SaturatingInc(new.votes)
        /\ c.is_done = (new.is_done
                        \/ new.total_weight_accrued + weight >= threshold)
    BY CountedFields
  <2> HIDE DEF c
  <2>2. /\ c.total_weight_accrued = weight
        /\ c.votes = 1
        /\ c.is_done = (FALSE \/ weight >= threshold)
    BY <1>1, <1>2, <2>1, NewState
  <2> QED
    BY <2>2 DEF c
<1> QED
  BY <1>3, <1>4

-----------------------------------------------------------------------------
(* One lemma per harness: its run passes.                                  *)

LEMMA FreshHarnessesPass ==
  ASSUME \/ proof_threshold_invariant
         \/ proof_zero_threshold_safe
         \/ proof_max_weight_single_guardian
         \/ proof_resolution_invariant_helper
  PROVE  trial'.passed
PROOF
<1>1. CASE proof_threshold_invariant
  BY <1>1, FirstVote DEF proof_threshold_invariant, Ran
<1>2. CASE proof_zero_threshold_safe
  <2>1. 0 \in U64 /\ \A weight \in Positive : weight >= 0
    BY WidthAssumption DEF U64, Positive
  <2> QED
    BY <1>2, <2>1, FirstVote DEF proof_zero_threshold_safe, Ran
<1>3. CASE proof_max_weight_single_guardian
  <2>1. U64Max \in Positive /\ \A threshold \in U64 : U64Max >= threshold
    BY WidthAssumption DEF U64, Positive
  <2> QED
    BY <1>3, <2>1, FirstVote DEF proof_max_weight_single_guardian, Ran
<1>4. CASE proof_resolution_invariant_helper
  <2>1. PICK weight \in Positive, threshold \in U64 :
          LET r == apply_vote(new, weight, threshold)
          IN  Ran("resolution_invariant_helper", new, <<weight>>, threshold,
                  r.result = "Ok" =>
                    resolution_invariant_holds(r.state, threshold))
    BY <1>4 DEF proof_resolution_invariant_helper
  <2>2. resolution_invariant_holds(apply_vote(new, weight, threshold).state,
                                   threshold)
    BY FirstVote DEF resolution_invariant_holds
  <2> QED
    BY <2>1, <2>2 DEF Ran
<1> QED
  BY <1>1, <1>2, <1>3, <1>4

LEMMA AnyStateHarnessesPass ==
  ASSUME \/ proof_no_below_threshold_resolution
         \/ proof_monotone_done
         \/ proof_weight_overflow_impossible
         \/ proof_votes_no_overflow
  PROVE  trial'.passed
PROOF
<1>1. ASSUME NEW s \in ConsensusState, NEW weight \in Positive,
             NEW threshold \in U64
      PROVE  LET after == apply_vote(s, weight, threshold).state
             IN  /\ s.is_done => after.is_done
                 /\ ~s.is_done /\ after.is_done =>
                      after.total_weight_accrued >= threshold
                 /\ s.total_weight_accrued <= U64Max - weight =>
                      /\ after.votes >= s.votes
                      /\ after.votes = SaturatingInc(s.votes)
                 /\ s.total_weight_accrued > U64Max - weight =>
                      /\ apply_vote(s, weight, threshold).result
                           = "WeightOverflow"
                      /\ after = s
  <2> DEFINE total == s.total_weight_accrued + weight
             c == Counted(s, weight, threshold)
             after == apply_vote(s, weight, threshold).state
  <2>1. /\ s.total_weight_accrued \in Nat /\ weight \in Nat
        /\ U64Max \in Nat /\ s.votes \in Nat /\ total \in Nat
    BY WidthAssumption DEF ConsensusState, Positive, U64
  <2>2. CASE total <= U64Max
    <3>1. apply_vote(s, weight, threshold).state = c
      BY <2>2, ApplyVote
    <3>2. /\ c.total_weight_accrued = total
          /\ c.votes = SaturatingInc(s.votes)
          /\ c.is_done = (s.is_done \/ total >= threshold)
      BY CountedFields
    <3>3. SaturatingInc(s.votes) >= s.votes
      BY <2>1 DEF SaturatingInc
    <3> HIDE DEF c, total
    <3>4. after.is_done = (s.is_done \/ total >= threshold)
          /\ after.total_weight_accrued = total
          /\ after.votes = SaturatingInc(s.votes)
      BY <3>1, <3>2
    <3>5. ~(s.total_weight_accrued > U64Max - weight)
      BY <2>1, <2>2 DEF total
    <3> HIDE DEF after
    <3>6. s.is_done => after.is_done
      BY <3>4
    <3>7. ~s.is_done /\ after.is_done => after.total_weight_accrued >= threshold
      BY <3>4
    <3> QED
      BY <3>3, <3>4, <3>5, <3>6, <3>7 DEF after
  <2>3. CASE total > U64Max
    <3>1. /\ apply_vote(s, weight, threshold).result = "WeightOverflow"
          /\ apply_vote(s, weight, threshold).state = s
      BY <2>3, ApplyVote
    <3>2. ~(s.total_weight_accrued <= U64Max - weight)
      BY <2>1, <2>3
    <3> QED
      BY <3>1, <3>2
  <2> QED
    BY <2>1, <2>2, <2>3
<1>2. CASE proof_no_below_threshold_resolution
  <2>1. PICK weight \in Positive, threshold \in U64,
             before \in ConsensusState :
          /\ ~before.is_done
          /\ LET r == apply_vote(before, weight, threshold)
             IN  Ran("no_below_threshold_resolution", before, <<weight>>,
                     threshold,
                     r.state.is_done =>
                       r.state.total_weight_accrued >= threshold)
    BY <1>2 DEF proof_no_below_threshold_resolution
  <2>2. LET after == apply_vote(before, weight, threshold).state
        IN  after.is_done => after.total_weight_accrued >= threshold
    BY <1>1, <2>1
  <2> QED
    BY <2>1, <2>2 DEF Ran
<1>3. CASE proof_monotone_done
  <2>1. PICK weight \in Positive, threshold \in 0..(U64Max \div 2),
             before \in ConsensusState :
          /\ before.is_done
          /\ Ran("monotone_done", before, <<weight>>, threshold,
                 apply_vote(before, weight, threshold).state.is_done)
    BY <1>3 DEF proof_monotone_done
  <2>2. threshold \in U64
    BY WidthAssumption DEF U64
  <2> QED
    BY <1>1, <2>1, <2>2 DEF Ran
<1>4. CASE proof_weight_overflow_impossible
  BY <1>1, <1>4 DEF proof_weight_overflow_impossible, Ran
<1>5. CASE proof_votes_no_overflow
  BY <1>1, <1>5 DEF proof_votes_no_overflow, Ran
<1> QED
  BY <1>2, <1>3, <1>4, <1>5

LEMMA AccumulationHarnessPasses ==
  ASSUME proof_multi_vote_accumulation
  PROVE  trial'.passed
PROOF
<1>1. PICK w1 \in 1..(U64Max \div 2), w2 \in 1..(U64Max \div 2),
           threshold \in U64 :
        LET r1 == apply_vote(new, w1, threshold)
            r2 == apply_vote(r1.state, w2, threshold)
        IN  Ran("multi_vote_accumulation", new, <<w1, w2>>, threshold,
                /\ r1.result = "Ok"
                /\ r2.result = "Ok"
                /\ r2.state.total_weight_accrued = w1 + w2
                /\ r2.state.votes = 2
                /\ r2.state.is_done <=> w1 + w2 >= threshold)
  BY DEF proof_multi_vote_accumulation
<1> DEFINE r1 == apply_vote(new, w1, threshold)
           s1 == r1.state
           r2 == apply_vote(s1, w2, threshold)
           s2 == r2.state
<1>2. /\ w1 \in Positive /\ w2 \in Positive /\ w1 \in U64
      /\ w1 \in Nat /\ w2 \in Nat /\ w1 + w2 <= U64Max
      /\ threshold \in Nat
  BY WidthAssumption DEF Positive, U64
<1>3. /\ r1.result = "Ok"
      /\ s1 = Counted(new, w1, threshold)
      /\ s1.total_weight_accrued = w1 /\ s1.votes = 1
      /\ s1.is_done <=> w1 >= threshold
  BY <1>2, FirstVote
<1>4. s1 \in ConsensusState
  <2>1. new.total_weight_accrued + w1 <= U64Max
    BY <1>2, NewState DEF U64
  <2> QED
    BY <1>2, <1>3, <2>1, NewState, CountedType
<1> HIDE DEF s1
<1>5. r2.result = "Ok" /\ s2 = Counted(s1, w2, threshold)
  BY <1>2, <1>3, <1>4, ApplyVote
<1>6. /\ s2.total_weight_accrued = w1 + w2
      /\ s2.votes = SaturatingInc(1)
      /\ s2.is_done = (s1.is_done \/ w1 + w2 >= threshold)
  BY <1>3, <1>5, CountedFields
<1>7. SaturatingInc(1) = 2
  BY WidthAssumption DEF SaturatingInc
<1>8. w1 >= threshold => w1 + w2 >= threshold
  BY <1>2
<1>9. s2.is_done <=> w1 + w2 >= threshold
  BY <1>3, <1>6, <1>8
<1> QED
  BY <1>1, <1>3, <1>5, <1>6, <1>7, <1>9 DEF Ran, s1

(* The nine harnesses hold for all inputs and all widths of u32 and u64,   *)
(* not only for the ones Kani unrolled.                                    *)
THEOREM HarnessesPass == Spec => []AssertionsHold
PROOF
<1>1. Init => AssertionsHold
  BY DEF Init, Idle, AssertionsHold
<1>2. AssertionsHold /\ [Next]_trial => AssertionsHold'
  BY FreshHarnessesPass, AnyStateHarnessesPass, AccumulationHarnessPasses
  DEF Next, AssertionsHold
<1> QED
  BY <1>1, <1>2, PTL DEF Spec
=============================================================================
