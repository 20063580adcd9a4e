---------------------------- MODULE VoteConsensus ----------------------------
(***************************************************************************)
(* vote of lib.rs against apply_vote of consensus.rs.                      *)
(***************************************************************************)
EXTENDS VeroCore

(* What the consensus module sees of a task record.                        *)
ConsensusView(r) == [total_weight_accrued |-> r.total_weight_accrued,
                     votes                |-> r.votes,
                     is_done              |-> r.is_done]

Machine == INSTANCE ConsensusMachine WITH
  state <- [t \in TaskId |-> ConsensusView(IF Registered(t) THEN Record(t)
                                                            ELSE NewTask)],
  threshold <- weight_threshold

(* vote counts as apply_vote does: whatever register, cancel and archive   *)
(* do to a record and however scores and thresholds move, the counters and *)
(* is_done of a task go through a sequence of accepted apply_vote calls,   *)
(* each made with the threshold in force.                                  *)
ImplementsConsensus == Machine!Spec

(* vote and apply_vote accept the same votes, close to u64::MAX and for    *)
(* weights that changed since, except where their counters part: at        *)
(* u32::MAX votes apply_vote saturates and vote aborts.                    *)
SameVerdict ==
  \A g \in Address, t \in TaskId :
    /\ VoterError(g, t) = Ok
    /\ has_active_task(t)
    /\ ~active_task[t].is_cancelled
    => LET weight == calculate_voting_power(g)
           view   == ConsensusView(active_task[t])
       IN  TallyError(t, weight, TRUE) = Ok <=>
             /\ Machine!apply_vote_result(view, weight) = "Ok"
             /\ view.votes < U32Max

-----------------------------------------------------------------------------
(* What the verification report says and the code does not do              *)

(* "resolution_invariant_holds(state, threshold) returns true for every    *)
(* state reachable by a successful apply_vote", stated for the votes the   *)
(* contract accepts and the threshold they are counted against.            *)
InvariantAfterVote ==
  [][\A t \in TaskId : Voters(t)' # Voters(t) =>
       Machine!resolution_invariant_holds(ConsensusView(Record(t)'),
                                            weight_threshold)]_vars
=============================================================================
