--------------------------------- MODULE Gas ---------------------------------
(***************************************************************************)
(* The price gas.rs quotes for vote, against what vote does.  Of the cost  *)
(* table only this entry is here: it prices the one handler whose work     *)
(* depends on the state it meets.                                          *)
(***************************************************************************)
EXTENDS VeroCore

(* What get_estimated_cost answers for Operation::Vote.                    *)
COST_VOTE == 1960000

(* Storage reads and writes, calls of other contracts and events, at the   *)
(* unit costs in the header of gas.rs.  An event is priced per topic and   *)
(* value; those of vote have one of each, as the entry for vote counts.    *)
Cost(reads, writes, calls, events) ==
  500000 + 50000 * reads + 150000 * writes + 500000 * calls
         + 2 * 30000 * events

(* 1 if the condition holds, for work that is done conditionally.          *)
If(condition) == IF condition THEN 1 ELSE 0

(* What a successful vote costs.  Reads: Paused, Lock, Guardian,           *)
(* TokenAddress, LockThreshold, LockedBalance, Voted, Reputation, the      *)
(* record, WeightThreshold and AllVotes, and VaultAddress if the vote      *)
(* resolves the task.  Writes: Lock set and removed, AllVotes, Voted and   *)
(* the record.                                                             *)
VoteCost(task, weight) ==
  Cost(11 + If(Resolves(task, weight)), 5, If(CallsVault(task, weight)),
       1 + If(Resolves(task, weight)))

-----------------------------------------------------------------------------
(* What gas.rs says and the handlers do not do                             *)

(* "Costs are conservative upper bounds": no vote that would succeed now   *)
(* costs more than get_estimated_cost answers for it.                      *)
VoteEstimateSuffices ==
  \A g \in Address, t \in TaskId :
    LET weight == calculate_voting_power(g)
    IN  VoterError(g, t) = Ok /\ TallyError(t, weight, TRUE) = Ok
          => VoteCost(active_task[t], weight) <= COST_VOTE
=============================================================================
