------------------------------- MODULE EventLog -------------------------------
(***************************************************************************)
(* The events of events.rs, in the order the ledger publishes them: what   *)
(* an indexer that sees no storage learns of the contract.  An invocation  *)
(* that fails publishes nothing, so rw_fail, emitted only before an Err    *)
(* return, never appears, and nothing calls emit_pause_toggled.            *)
(***************************************************************************)
EXTENDS VeroCore

CONSTANT MaxLog     \* bound on the length of the log

ASSUME LogAssumption == MaxLog \in Nat

VARIABLE log

emit_task_resolved(t, total) ==
  [topic |-> "resolved", task |-> t, weight |-> total]

emit_weighted_vote(t, g, weight) ==
  [topic |-> "wt_vote", task |-> t, guardian |-> g, weight |-> weight]

emit_reward_stream_started(t, c) ==
  [topic |-> "rw_start", task |-> t, contributor |-> c]

emit_circuit_breaker_triggered(count) == [topic |-> "cb_trip", count |-> count]

emit_task_cancelled(t) == [topic |-> "cancelled", task |-> t]

emit_task_archived(t, stamp) ==
  [topic |-> "archived", task |-> t, resolved_at |-> stamp]

(* The invocation commits and its events follow those already published.   *)
Publish(events) ==
  /\ Len(log) + Len(events) <= MaxLog
  /\ log' = log \o events

(* Mutant: only the vote that first resolves the task announces it.        *)
VoteEventsOnce(g, t) ==
  LET weight == calculate_voting_power(g)
      task   == active_task[t]
  IN  IF Resolves(task, weight) /\ ~task.is_done
      THEN <<emit_task_resolved(t, WeightAfter(task, weight)),
             emit_weighted_vote(t, g, weight)>>
      ELSE <<emit_weighted_vote(t, g, weight)>>

(* Mutant: the resolution announced with the weight of the vote.           *)
VoteEventsOwnWeight(g, t) ==
  LET weight == calculate_voting_power(g)
      task   == active_task[t]
  IN  IF Resolves(task, weight)
      THEN <<emit_task_resolved(t, weight), emit_weighted_vote(t, g, weight)>>
      ELSE <<emit_weighted_vote(t, g, weight)>>

(* A resolving vote announces the resolution before itself.                *)
VoteEvents(g, t) ==
  LET weight == calculate_voting_power(g)
      task   == active_task[t]
  IN  IF Resolves(task, weight)
      THEN <<emit_task_resolved(t, WeightAfter(task, weight)),
             emit_weighted_vote(t, g, weight)>>
      ELSE <<emit_weighted_vote(t, g, weight)>>

(* cb_trip is published only by a failure that changes the flag.           *)
FailureEvents ==
  IF Trips(failure_count + 1) /\ ~paused
  THEN <<emit_circuit_breaker_triggered(failure_count + 1)>>
  ELSE <<>>

PublishVote ==
  \E g \in Address, t \in TaskId, escrow_up \in BOOLEAN :
    Vote(g, t, escrow_up) /\ Publish(VoteEvents(g, t))

PublishStream ==
  \E c \in Contributor, t \in TaskId, drips_up \in BOOLEAN :
    /\ StartRewardStream(c, t, drips_up)
    /\ Publish(<<emit_reward_stream_started(t, c)>>)

PublishTask ==
  \E t \in TaskId :
    \/ CancelTask(t) /\ Publish(<<emit_task_cancelled(t)>>)
    \/ /\ ArchiveTask(t)
       /\ Publish(<<emit_task_archived(t, active_task[t].resolved_at)>>)

PublishFailure == RecordFailure /\ Publish(FailureEvents)

(* Everything else is silent, every change of Paused by hand included.     *)
SilentStep ==
  /\ \/ TogglePause \/ Pause \/ Unpause \/ ResetCircuitBreaker
     \/ GuardianStep
     \/ TokenStep
     \/ \E t \in TaskId : RegisterTask(t)
     \/ \E th \in WeightThresholds : SetWeightThreshold(th)
     \/ \E v \in Vault : SetVaultAddress(v)
     \/ Tick
  /\ log' = log

EventInit == Init /\ log = <<>>

EventNext ==
  PublishVote \/ PublishStream \/ PublishTask \/ PublishFailure \/ SilentStep

EventSpec == EventInit /\ [][EventNext]_<<vars, log>>

-----------------------------------------------------------------------------
(* What an indexer computes from a log.                                    *)

(* Where the log mentions task t under a topic.                            *)
Positions(l, t, topic) ==
  {i \in 1..Len(l) : l[i].topic = topic /\ l[i].task = t}

Published(t, topic) == Positions(log, t, topic) # {}

(* The weights of task t's votes among the first n events.                 *)
WeightUpTo(l, t, n) ==
  SumFunction([i \in {j \in Positions(l, t, "wt_vote") : j <= n} |->
                 l[i].weight])

(* The log is enough to rebuild every task record but its resolution time: *)
(* votes, weight, is_done and is_cancelled, where the record lives and     *)
(* whether a stream pays for it, over archiving, cancelling and late       *)
(* votes.  Registration is the one silent change of a task.                *)
ReplayAgrees ==
  \A t \in TaskId :
    /\ Registered(t) =>
         /\ Record(t).votes = Cardinality(Positions(log, t, "wt_vote"))
         /\ Record(t).total_weight_accrued = WeightUpTo(log, t, Len(log))
         /\ Record(t).is_done <=> Published(t, "resolved")
         /\ Record(t).is_cancelled <=> Published(t, "cancelled")
    /\ has_archived_task(t) <=> Published(t, "archived")
    /\ reward_stream[t] # None <=> Published(t, "rw_start")

(* Event i announces a resolution by the vote event that directly follows, *)
(* with the weight of all votes up to and with that one.                   *)
CarriesTotal(l, i) ==
  /\ i < Len(l)
  /\ l[i + 1].topic = "wt_vote" /\ l[i + 1].task = l[i].task
  /\ l[i].weight = WeightUpTo(l, l[i].task, i + 1)

ResolvedBefore(l, i) ==
  \E j \in 1..(i - 1) : l[j].topic = "resolved" /\ l[j].task = l[i].task

SameTask(e, f) ==
  e.topic # "cb_trip" /\ f.topic # "cb_trip" /\ f.task = e.task

(* What may still be heard of a task after event e of it.                  *)
MayFollow(e, f) ==
  /\ e.topic # "archived"
  /\ e.topic = "cancelled" => f.topic \in {"cancelled", "archived"}
  /\ e.topic = "rw_start" => f.topic # "rw_start"

(* Task events come in an order an indexer can rely on: a resolved event   *)
(* carries the total of the vote that follows it; archived and rw_start,   *)
(* each published once, come after a resolved event; after archived a task *)
(* is never heard of again, after cancelled only cancelled and archived.   *)
LogOrdered ==
  \A i \in 1..Len(log) :
    /\ log[i].topic = "resolved" => CarriesTotal(log, i)
    /\ log[i].topic \in {"archived", "rw_start"} => ResolvedBefore(log, i)
    /\ \A j \in (i + 1)..Len(log) :
         SameTask(log[i], log[j]) => MayFollow(log[i], log[j])

(* A resolution stamp never moves silently: the late votes that restart    *)
(* the archive period of a done task publish resolved again, so the last   *)
(* resolved event, not the first, dates the record.                        *)
RestartStep(t) ==
  Registered(t) /\ Record(t)'.resolved_at # Record(t).resolved_at =>
    Cardinality(Positions(log', t, "resolved"))
      = Cardinality(Positions(log, t, "resolved")) + 1

RestartsAnnounced == [][\A t \in TaskId : RestartStep(t)]_<<vars, log>>
=============================================================================
