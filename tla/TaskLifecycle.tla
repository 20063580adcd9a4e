---------------------------- MODULE TaskLifecycle ----------------------------
(***************************************************************************)
(* What the contract promises about tasks, without weights, thresholds,    *)
(* pauses, stakes or clocks.  A task is registered once, gathers each      *)
(* guardian's vote at most once, is resolved only by a vote, and is        *)
(* rewarded at most once, while resolved and not cancelled; archiving ends *)
(* it for good.                                                            *)
(***************************************************************************)
CONSTANTS TaskId, Address

VARIABLES phase, cancelled, voters, rewarded

lifecycle == <<phase, cancelled, voters, rewarded>>

Init ==
  /\ phase = [t \in TaskId |-> "unregistered"]
  /\ cancelled = {}
  /\ voters = [t \in TaskId |-> {}]
  /\ rewarded = {}

Register(t) ==
  /\ phase[t] = "unregistered"
  /\ phase' = [phase EXCEPT ![t] = "open"]
  /\ UNCHANGED <<cancelled, voters, rewarded>>

(* Resolution is never undone, and never happens without a new vote.       *)
CastVote(t, g) ==
  /\ phase[t] \in {"open", "resolved"}
  /\ t \notin cancelled
  /\ g \notin voters[t]
  /\ voters' = [voters EXCEPT ![t] = @ \cup {g}]
  /\ \/ phase' = phase
     \/ phase' = [phase EXCEPT ![t] = "resolved"]
  /\ UNCHANGED <<cancelled, rewarded>>

Cancel(t) ==
  /\ phase[t] \in {"open", "resolved"}
  /\ cancelled' = cancelled \cup {t}
  /\ UNCHANGED <<phase, voters, rewarded>>

Archive(t) ==
  /\ phase[t] = "resolved"
  /\ phase' = [phase EXCEPT ![t] = "archived"]
  /\ UNCHANGED <<cancelled, voters, rewarded>>

Reward(t) ==
  /\ phase[t] = "resolved"
  /\ t \notin cancelled \cup rewarded
  /\ rewarded' = rewarded \cup {t}
  /\ UNCHANGED <<phase, cancelled, voters>>

Next ==
  \E t \in TaskId :
    \/ Register(t)
    \/ \E g \in Address : CastVote(t, g)
    \/ Cancel(t)
    \/ Archive(t)
    \/ Reward(t)

Spec == Init /\ [][Next]_lifecycle
=============================================================================
