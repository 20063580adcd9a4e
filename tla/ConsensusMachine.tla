--------------------------- MODULE ConsensusMachine ---------------------------
(***************************************************************************)
(* apply_vote of consensus.rs as a state machine: votes of any weight are  *)
(* counted on each task against the threshold in force, and the caller may *)
(* pass another threshold from then on.                                    *)
(***************************************************************************)
EXTENDS Consensus

CONSTANT TaskId

VARIABLES
  state,       \* the ConsensusState of each task
  threshold    \* the threshold the caller passes

Init == state = [t \in TaskId |-> new] /\ threshold \in U64

Apply(t, weight) ==
  /\ apply_vote(state[t], weight, threshold).result = "Ok"
  /\ state' = [state EXCEPT ![t] = apply_vote(@, weight, threshold).state]
  /\ UNCHANGED threshold

ChangeThreshold == threshold' \in U64 /\ UNCHANGED state

Next ==
  \/ \E t \in TaskId, weight \in U64 : Apply(t, weight)
  \/ ChangeThreshold

Spec == Init /\ [][Next]_<<state, threshold>>
=============================================================================
