--------------------------- MODULE RefinementProofs ---------------------------
(***************************************************************************)
(* Refinements.  The contract implements TaskLifecycle and the consensus   *)
(* machine of consensus.rs: under the mappings of VeroCore and             *)
(* VoteConsensus, its initial state is an initial state of each and every  *)
(* step is a step or a stutter.  The contract cut at its external calls    *)
(* implements the atomic one on a host that refuses re-entry; on any host  *)
(* the mutex keeps the tallies exact.                                      *)
(***************************************************************************)
EXTENDS VoteConsensus, Invocation, CustodyProofs, SequenceTheorems

-----------------------------------------------------------------------------
(* The task life cycle                                                     *)

(* The four variables of TaskLifecycle as VeroCore maps them.              *)
phaseBar     == [t \in TaskId |-> Phase(t)]
cancelledBar == {t \in TaskId : Registered(t) /\ Record(t).is_cancelled}
votersBar    == [t \in TaskId |-> Voters(t)]
rewardedBar  == {t \in TaskId : reward_stream[t] # None}

(* A step that leaves a task's entries alone leaves its mapping alone.     *)
LEMMA UntouchedTask ==
  ASSUME NEW t \in TaskId, active_task'[t] = active_task[t],
         archived_task'[t] = archived_task[t]
  PROVE  /\ Phase(t)' = Phase(t)
         /\ (t \in cancelledBar)' <=> (t \in cancelledBar)
PROOF
  BY DEF Phase, cancelledBar, Registered, Record, has_active_task,
         has_archived_task

(* What a step does to the mapping when it touches one task only.          *)
LEMMA OneTaskTouched ==
  ASSUME NEW u \in TaskId,
         \A t \in TaskId : t # u => /\ active_task'[t] = active_task[t]
                                    /\ archived_task'[t] = archived_task[t]
  PROVE  /\ phaseBar' = [phaseBar EXCEPT ![u] = Phase(u)']
         /\ \A t \in TaskId : t # u =>
              ((t \in cancelledBar') <=> (t \in cancelledBar))
PROOF
<1>1. \A t \in TaskId : t # u =>
        /\ Phase(t)' = Phase(t)
        /\ (t \in cancelledBar)' <=> (t \in cancelledBar)
  BY UntouchedTask
<1> QED
  BY <1>1 DEF phaseBar

LEMMA RegisterRefines ==
  ASSUME TypeOK, NEW u \in TaskId, RegisterTask(u)
  PROVE  Lifecycle!Register(u)
PROOF
<1>1. /\ active_task' = [active_task EXCEPT ![u] = NewTask]
      /\ archived_task' = archived_task
      /\ active_task[u] = None /\ archived_task[u] = None
      /\ voted' = voted /\ reward_stream' = reward_stream
  BY DEF RegisterTask, RegisterTaskError, Ok, has_active_task,
         has_archived_task, voteVars, streamVars
<1>2. NewTask # None /\ ~NewTask.is_done /\ ~NewTask.is_cancelled
  <2>1. NewTask \in TaskRecord
    BY ConstantsAssumption DEF NewTask, TaskRecord
  <2> QED
    BY <2>1, NoneAssumption DEF NewTask
<1>3. Phase(u) = "unregistered" /\ Phase(u)' = "open"
  BY <1>1, <1>2 DEF Phase, has_active_task, has_archived_task, TypeOK
<1>4. u \notin cancelledBar /\ u \notin cancelledBar'
  BY <1>1, <1>2 DEF cancelledBar, Registered, Record, has_active_task,
                    has_archived_task, TypeOK
<1>5. /\ phaseBar' = [phaseBar EXCEPT ![u] = "open"]
      /\ cancelledBar' = cancelledBar
  <2>1. /\ phaseBar' = [phaseBar EXCEPT ![u] = Phase(u)']
        /\ \A t \in TaskId : t # u =>
             ((t \in cancelledBar') <=> (t \in cancelledBar))
    BY <1>1, OneTaskTouched DEF TypeOK
  <2> QED
    BY <1>3, <1>4, <2>1 DEF cancelledBar
<1>6. votersBar' = votersBar /\ rewardedBar' = rewardedBar
  BY <1>1 DEF votersBar, rewardedBar, Voters
<1> QED
  BY <1>3, <1>5, <1>6
  DEF Lifecycle!Register, phaseBar, cancelledBar, votersBar, rewardedBar

LEMMA CancelRefines ==
  ASSUME TypeOK, PartitionInv, NEW u \in TaskId, CancelTask(u)
  PROVE  Lifecycle!Cancel(u)
PROOF
<1> DEFINE r == active_task[u]
           c == [active_task[u] EXCEPT !.is_cancelled = TRUE]
<1>1. /\ active_task' = [active_task EXCEPT ![u] = c]
      /\ archived_task' = archived_task
      /\ active_task[u] # None
      /\ voted' = voted /\ reward_stream' = reward_stream
  BY DEF CancelTask, CancelTaskError, Ok, has_active_task, voteVars,
         streamVars
<1>2. archived_task[u] = None
  BY <1>1 DEF PartitionInv, has_active_task, has_archived_task
<1>3. r \in TaskRecord
  BY <1>1 DEF TypeOK
<1>4. c # None /\ c.is_cancelled /\ c.is_done = r.is_done
  <2>1. c \in TaskRecord /\ c.is_cancelled /\ c.is_done = r.is_done
    BY <1>3 DEF TaskRecord
  <2> QED
    BY <2>1, NoneAssumption
<1>5. active_task'[u] = c
  BY <1>1 DEF TypeOK
<1> HIDE DEF r, c
<1>6. Phase(u)' = Phase(u) /\ Phase(u) \in {"open", "resolved"}
  BY <1>1, <1>2, <1>4, <1>5 DEF Phase, has_active_task, has_archived_task, r
<1>7. u \in cancelledBar'
  BY <1>1, <1>4, <1>5
  DEF cancelledBar, Registered, Record, has_active_task
<1>8. /\ phaseBar' = phaseBar
      /\ cancelledBar' = cancelledBar \cup {u}
  <2>1. /\ phaseBar' = [phaseBar EXCEPT ![u] = Phase(u)']
        /\ \A t \in TaskId : t # u =>
             ((t \in cancelledBar') <=> (t \in cancelledBar))
    BY <1>1, OneTaskTouched DEF TypeOK
  <2> QED
    BY <1>6, <1>7, <2>1 DEF cancelledBar, phaseBar
<1>9. votersBar' = votersBar /\ rewardedBar' = rewardedBar
  BY <1>1 DEF votersBar, rewardedBar, Voters
<1> QED
  BY <1>6, <1>8, <1>9
  DEF Lifecycle!Cancel, phaseBar, cancelledBar, votersBar, rewardedBar

LEMMA ArchiveRefines ==
  ASSUME TypeOK, PartitionInv, NEW u \in TaskId, ArchiveTask(u)
  PROVE  Lifecycle!Archive(u)
PROOF
<1>1. /\ active_task' = [active_task EXCEPT ![u] = None]
      /\ archived_task' = [archived_task EXCEPT ![u] = active_task[u]]
      /\ active_task[u] # None
      /\ archived_task[u] = None
      /\ active_task[u].is_done
      /\ voted' = voted /\ reward_stream' = reward_stream
  BY DEF ArchiveTask, ArchiveTaskError, Ok, has_active_task,
         has_archived_task, IsVerified, voteVars, streamVars
<1>2. active_task'[u] = None /\ archived_task'[u] = active_task[u]
  BY <1>1 DEF TypeOK
<1>3. Phase(u) = "resolved" /\ Phase(u)' = "archived"
  BY <1>1, <1>2 DEF Phase, has_active_task, has_archived_task
<1>4. (u \in cancelledBar') <=> (u \in cancelledBar)
  BY <1>1, <1>2 DEF cancelledBar, Registered, Record, has_active_task,
                    has_archived_task
<1>5. /\ phaseBar' = [phaseBar EXCEPT ![u] = "archived"]
      /\ cancelledBar' = cancelledBar
  <2>1. /\ phaseBar' = [phaseBar EXCEPT ![u] = Phase(u)']
        /\ \A t \in TaskId : t # u =>
             ((t \in cancelledBar') <=> (t \in cancelledBar))
    BY <1>1, OneTaskTouched DEF TypeOK
  <2> QED
    BY <1>3, <1>4, <2>1 DEF cancelledBar
<1>6. votersBar' = votersBar /\ rewardedBar' = rewardedBar
  BY <1>1 DEF votersBar, rewardedBar, Voters
<1> QED
  BY <1>3, <1>5, <1>6
  DEF Lifecycle!Archive, phaseBar, cancelledBar, votersBar, rewardedBar

LEMMA VoteRefines ==
  ASSUME TypeOK, PartitionInv, NEW g \in Address, NEW u \in TaskId,
         NEW escrow_up \in BOOLEAN, Vote(g, u, escrow_up)
  PROVE  Lifecycle!CastVote(u, g)
PROOF
<1> DEFINE r == active_task[u]
           a == Accrue(active_task[u], reputation[g])
<1>1. AcceptedVote(g, u)
  BY VoteAccepted
<1>2. /\ active_task' = [active_task EXCEPT ![u] = a]
      /\ archived_task' = archived_task
      /\ voted' = voted \cup {<<u, g>>}
      /\ reward_stream' = reward_stream
  BY <1>1 DEF AcceptedVote, Vote, streamVars
<1>3. r # None /\ ~r.is_cancelled /\ a # None /\ <<u, g>> \notin voted
  BY <1>1, NoneAssumption DEF AcceptedVote
<1>4. (r.is_done => a.is_done) /\ ~a.is_cancelled
  <2>1. /\ r \in TaskRecord /\ reputation[g] \in 0..U64Max /\ now \in Nat
        /\ ~Overflows(r, reputation[g]) /\ r.votes # U32Max
    BY <1>1, ConstantsAssumption DEF AcceptedVote, TypeOK
  <2>2. /\ a.is_done <=> (r.is_done \/ Resolves(r, reputation[g]))
        /\ a.is_cancelled = r.is_cancelled
    BY <2>1, AccrueType
  <2> HIDE DEF a, r
  <2> QED
    BY <1>3, <2>2
<1>5. archived_task[u] = None
  BY <1>3 DEF PartitionInv, has_active_task, has_archived_task
<1>6. active_task'[u] = a
  BY <1>2 DEF TypeOK
<1> HIDE DEF a
<1>7. /\ Phase(u) \in {"open", "resolved"}
      /\ Phase(u)' = Phase(u) \/ Phase(u)' = "resolved"
  BY <1>2, <1>3, <1>4, <1>5, <1>6
  DEF Phase, has_active_task, has_archived_task
<1>8. u \notin cancelledBar /\ u \notin cancelledBar'
  BY <1>3, <1>4, <1>6
  DEF cancelledBar, Registered, Record, has_active_task
<1>9. /\ phaseBar' = [phaseBar EXCEPT ![u] = Phase(u)']
      /\ cancelledBar' = cancelledBar
  <2>1. /\ phaseBar' = [phaseBar EXCEPT ![u] = Phase(u)']
        /\ \A t \in TaskId : t # u =>
             ((t \in cancelledBar') <=> (t \in cancelledBar))
    BY <1>2, OneTaskTouched DEF TypeOK
  <2> QED
    BY <1>8, <2>1 DEF cancelledBar
<1>10. phaseBar' = phaseBar \/ phaseBar' = [phaseBar EXCEPT ![u] = "resolved"]
  BY <1>7, <1>9 DEF phaseBar
<1>11. rewardedBar' = rewardedBar
  BY <1>2 DEF rewardedBar
<1>12. /\ g \notin votersBar[u]
       /\ votersBar' = [votersBar EXCEPT ![u] = votersBar[u] \cup {g}]
  <2>1. /\ g \notin Voters(u)
        /\ Voters(u)' = Voters(u) \cup {g}
        /\ \A t \in TaskId : t # u => Voters(t)' = Voters(t)
    BY <1>2, <1>3 DEF Voters
  <2> QED
    BY <2>1 DEF votersBar
<1> QED
  BY <1>7, <1>8, <1>9, <1>10, <1>11, <1>12
  DEF Lifecycle!CastVote, phaseBar, cancelledBar, votersBar, rewardedBar

LEMMA StreamRefines ==
  ASSUME TypeOK, PartitionInv, NEW c \in Contributor, NEW u \in TaskId,
         NEW drips_up \in BOOLEAN, StartRewardStream(c, u, drips_up)
  PROVE  Lifecycle!Reward(u)
PROOF
<1>1. /\ reward_stream' = [reward_stream EXCEPT ![u] = c]
      /\ reward_stream[u] = None
      /\ active_task[u] # None
      /\ active_task[u].is_done /\ ~active_task[u].is_cancelled
      /\ active_task' = active_task /\ archived_task' = archived_task
      /\ voted' = voted
  BY DEF StartRewardStream, StartRewardStreamError, Ok, has_active_task,
         taskVars, voteVars
<1>2. archived_task[u] = None
  BY <1>1 DEF PartitionInv, has_active_task, has_archived_task
<1>3. Phase(u) = "resolved" /\ u \notin cancelledBar /\ u \notin rewardedBar
  BY <1>1, <1>2 DEF Phase, cancelledBar, rewardedBar, Registered, Record,
                    has_active_task, has_archived_task
<1>4. rewardedBar' = rewardedBar \cup {u}
  BY <1>1, NoneAssumption DEF rewardedBar, TypeOK
<1>5. phaseBar' = phaseBar /\ cancelledBar' = cancelledBar
      /\ votersBar' = votersBar
  BY <1>1 DEF phaseBar, cancelledBar, votersBar, Phase, Registered, Record,
              Voters, has_active_task, has_archived_task
<1> QED
  BY <1>3, <1>4, <1>5
  DEF Lifecycle!Reward, phaseBar, cancelledBar, votersBar, rewardedBar

LEMMA StepRefines ==
  ASSUME TypeOK, PartitionInv, [Next]_vars
  PROVE  [Lifecycle!Next]_(Lifecycle!lifecycle)
PROOF
<1>1. CASE TaskStep
  BY <1>1, RegisterRefines, CancelRefines, ArchiveRefines
  DEF TaskStep, Lifecycle!Next
<1>2. CASE \E g \in Address, t \in TaskId, escrow_up \in BOOLEAN :
             Vote(g, t, escrow_up)
  BY <1>2, VoteRefines DEF Lifecycle!Next
<1>3. CASE StreamStep
  BY <1>3, StreamRefines DEF StreamStep, Lifecycle!Next
<1>4. CASE Quiet /\ UNCHANGED streamVars
  <2>1. /\ active_task' = active_task /\ archived_task' = archived_task
        /\ voted' = voted /\ reward_stream' = reward_stream
    BY <1>4 DEF Quiet, streamVars
  <2>2. /\ phaseBar' = phaseBar /\ cancelledBar' = cancelledBar
        /\ votersBar' = votersBar /\ rewardedBar' = rewardedBar
    BY <2>1 DEF phaseBar, cancelledBar, votersBar, rewardedBar, Phase,
                Registered, Record, Voters, has_active_task, has_archived_task
  <2> QED
    BY <2>2
    DEF Lifecycle!lifecycle, phaseBar, cancelledBar, votersBar, rewardedBar
<1> QED
  BY <1>1, <1>2, <1>3, <1>4, QuietSteps, StreamQuietSteps

LEMMA InitRefines ==
  ASSUME Init PROVE Lifecycle!Init
PROOF
  BY DEF Init, Lifecycle!Init, Phase, Registered, Voters, has_active_task,
         has_archived_task

(* Whatever weights, stakes, pauses and clocks do, the contract's tasks go *)
(* through the life cycle of TaskLifecycle and no other.                   *)
THEOREM LifecycleRefined == Spec => ImplementsTaskLifecycle
PROOF
<1>1. Init => Lifecycle!Init
  BY InitRefines
<1>2. TypeOK /\ PartitionInv /\ [Next]_vars
        => [Lifecycle!Next]_(Lifecycle!lifecycle)
  BY StepRefines
<1>3. TasksPartition => PartitionInv
  BY DEF TasksPartition, PartitionInv
<1> QED
  BY <1>1, <1>2, <1>3, TypeCorrect, RegisteredOnce, PTL
  DEF Spec, ImplementsTaskLifecycle, Lifecycle!Spec
-----------------------------------------------------------------------------
(* vote and apply_vote                                                    *)

(* What the consensus machine sees of task t.                              *)
View(t) == ConsensusView(IF Registered(t) THEN Record(t) ELSE NewTask)

stateBar == [t \in TaskId |-> View(t)]

(* A task whose voters do not change keeps its counters.                   *)
LEMMA ViewKept ==
  ASSUME TypeOK, [Next]_vars, NEW t \in TaskId, Voters(t)' = Voters(t)
  PROVE  View(t)' = View(t)
PROOF
<1>1. RecordStep(t)
  BY RecordSteps
<1>2. ASSUME NEW g \in Address, Counts(t, g) PROVE FALSE
  BY <1>2 DEF Counts
<1>3. CASE LeavesUnregistered(t) \/ Opens(t)
  BY <1>3 DEF LeavesUnregistered, Opens, View, ConsensusView, NewTask
<1>4. CASE Keeps(t)
  BY <1>4 DEF Keeps, View
<1>5. CASE Cancels(t)
  <2>1. Record(t) \in TaskRecord
    BY <1>5, RecordType DEF Cancels
  <2> QED
    BY <1>5, <2>1 DEF Cancels, View, ConsensusView, TaskRecord
<1> QED
  BY <1>1, <1>2, <1>3, <1>4, <1>5 DEF RecordStep

(* A counted vote is accepted by apply_vote, with the same result.         *)
LEMMA ViewCounts ==
  ASSUME TypeOK, NEW t \in TaskId, NEW g \in Address, Counts(t, g)
  PROVE  /\ Machine!apply_vote_result(View(t), reputation[g]) = "Ok"
         /\ View(t)' =
              Machine!Counted(View(t), reputation[g], weight_threshold)
PROOF
<1> DEFINE r == Record(t)
           w == reputation[g]
<1>1. /\ r \in TaskRecord
      /\ w \in 1..U64Max
      /\ weight_threshold \in 0..U64Max
      /\ r.total_weight_accrued + w <= U64Max
      /\ r.votes # U32Max
      /\ View(t) = ConsensusView(r)
      /\ View(t)' = ConsensusView(Accrue(r, w))
  <2>1. r \in TaskRecord
    BY RecordType DEF Counts
  <2>2. w \in 1..U64Max /\ ~Overflows(r, w) /\ r.votes # U32Max
    BY DEF Counts
  <2>3. r.total_weight_accrued + w <= U64Max
    BY <2>1, <2>2, ConstantsAssumption DEF Overflows, WeightAfter, TaskRecord
  <2> QED
    BY <2>1, <2>2, <2>3 DEF Counts, View, TypeOK
<1> HIDE DEF r, w
<1>2. Machine!apply_vote_result(ConsensusView(r), w) = "Ok"
  BY <1>1, ConstantsAssumption
  DEF Machine!apply_vote_result, ConsensusView, TaskRecord
<1>3. ConsensusView(Accrue(r, w)) =
        [total_weight_accrued |-> r.total_weight_accrued + w,
         votes                |-> r.votes + 1,
         is_done              |-> r.is_done
                                  \/ r.total_weight_accrued + w
                                       >= weight_threshold]
  BY <1>1 DEF ConsensusView, Accrue, Resolves, WeightAfter, TaskRecord
<1>4. Machine!Counted(ConsensusView(r), w, weight_threshold) =
        [total_weight_accrued |-> r.total_weight_accrued + w,
         votes                |-> r.votes + 1,
         is_done              |-> r.is_done
                                  \/ r.total_weight_accrued + w
                                       >= weight_threshold]
  BY <1>1 DEF ConsensusView, Machine!Counted, Machine!SaturatingInc
<1> QED
  BY <1>1, <1>2, <1>3, <1>4 DEF w

(* A vote of the contract is a step of the consensus machine.              *)
LEMMA VoteApplies ==
  ASSUME TypeOK, [Next]_vars, NEW g \in Address, NEW u \in TaskId,
         NEW escrow_up \in BOOLEAN, Vote(g, u, escrow_up)
  PROVE  Machine!Next
PROOF
<1>1. voted' = voted \cup {<<u, g>>} /\ <<u, g>> \notin voted
  BY DEF Vote, VoterError, HasVoted, Ok
<1>2. \A t \in TaskId : t # u => View(t)' = View(t)
  <2>1. ASSUME NEW t \in TaskId, t # u PROVE View(t)' = View(t)
    <3>1. Voters(t)' = Voters(t)
      BY <1>1, <2>1 DEF Voters
    <3> QED
      BY <3>1, ViewKept
  <2> QED
    BY <2>1
<1>3. PICK h \in Address : Counts(u, h)
  <2>1. Voters(u)' # Voters(u)
    BY <1>1 DEF Voters
  <2> QED
    BY <2>1, RecordSteps
    DEF RecordStep, LeavesUnregistered, Opens, Keeps, Cancels
<1>4. /\ Machine!apply_vote_result(View(u), reputation[h]) = "Ok"
      /\ View(u)' = Machine!Counted(View(u), reputation[h], weight_threshold)
  BY <1>3, ViewCounts
<1>5. stateBar' = [stateBar EXCEPT ![u] =
                     Machine!Counted(View(u), reputation[h], weight_threshold)]
  BY <1>2, <1>4 DEF stateBar
<1>6. reputation[h] \in 0..U64Max /\ weight_threshold \in 0..U64Max
  BY <1>3 DEF Counts, TypeOK
<1>7. Machine!Apply(u, reputation[h])
  <2>1. stateBar[u] = View(u)
    BY DEF stateBar
  <2> QED
    BY <1>4, <1>5, <2>1
    DEF Machine!Apply, Machine!apply_vote, stateBar, View, Vote
<1> QED
  BY <1>6, <1>7 DEF Machine!Next, Machine!U64

LEMMA ConsensusStep ==
  ASSUME TypeOK, [Next]_vars
  PROVE  Machine!Next \/ UNCHANGED <<stateBar, weight_threshold>>
PROOF
<1>1. CASE voted' = voted
  <2>1. \A t \in TaskId : View(t)' = View(t)
    BY <1>1, ViewKept DEF Voters
  <2>2. stateBar' = stateBar
    BY <2>1 DEF stateBar
  <2>3. weight_threshold' \in 0..U64Max
    BY NextType DEF TypeOK
  <2> QED
    BY <2>2, <2>3
    DEF Machine!Next, Machine!ChangeThreshold, Machine!U64, stateBar, View
<1>2. CASE Quiet
  BY <1>1, <1>2 DEF Quiet
<1>3. CASE TaskStep
  BY <1>1, <1>3 DEF TaskStep, RegisterTask, CancelTask, ArchiveTask, voteVars
<1> QED
  BY <1>2, <1>3, QuietSteps, VoteApplies

(* However tasks are registered, cancelled and archived and however scores *)
(* and thresholds move, what vote keeps of a task goes through a sequence  *)
(* of accepted calls of apply_vote, the function the Kani harnesses are    *)
(* about, each with the threshold in force: so a counted vote leaves the   *)
(* task done exactly if it was, or its weight reaches that threshold.      *)
THEOREM VoteImplementsApplyVote ==
  Spec => ImplementsConsensus
PROOF
<1>1. Init => Machine!Init
  <2> SUFFICES ASSUME Init PROVE Machine!Init
    OBVIOUS
  <2>1. \A t \in TaskId : View(t) = Machine!new
    BY DEF Init, View, ConsensusView, NewTask, Machine!new, Registered,
           has_active_task, has_archived_task
  <2> QED
    BY <2>1, InitType DEF Machine!Init, Machine!U64, View, TypeOK
<1>2. TypeOK /\ [Next]_vars => [Machine!Next]_<<stateBar, weight_threshold>>
  BY ConsensusStep
<1> QED
  BY <1>1, <1>2, TypeCorrect, PTL
  DEF Spec, ImplementsConsensus, Machine!Spec, stateBar, View

(* On an open task, vote and apply_vote refuse for the same reasons in     *)
(* every reachable state, except that vote also refuses at u32::MAX votes. *)
THEOREM VerdictsAgree == Spec => []SameVerdict
PROOF
<1>1. TypeOK => SameVerdict
  <2> SUFFICES ASSUME TypeOK, NEW g \in Address, NEW t \in TaskId,
                      VoterError(g, t) = Ok, has_active_task(t),
                      ~active_task[t].is_cancelled
               PROVE  TallyError(t, calculate_voting_power(g), TRUE) = Ok <=>
                        /\ Machine!apply_vote_result(
                             ConsensusView(active_task[t]),
                             calculate_voting_power(g)) = "Ok"
                        /\ ConsensusView(active_task[t]).votes < U32Max
    BY DEF SameVerdict
  <2> DEFINE r == active_task[t]
             w == calculate_voting_power(g)
  <2>1. w # 0
    BY DEF VoterError, Ok
  <2>2. r.votes \in 0..U32Max
    BY DEF has_active_task, TypeOK, TaskRecord
  <2>3. TallyError(t, w, TRUE) = Ok <=> ~Overflows(r, w) /\ r.votes # U32Max
    BY DEF TallyError, Ok
  <2>4. Machine!apply_vote_result(ConsensusView(r), w) = "Ok" <=>
          ~(r.total_weight_accrued + w > U64Max)
    BY <2>1 DEF Machine!apply_vote_result, ConsensusView
  <2>5. ConsensusView(r).votes < U32Max <=> r.votes # U32Max
    BY <2>2, ConstantsAssumption DEF ConsensusView
  <2> QED
    BY <2>3, <2>4, <2>5 DEF Overflows, WeightAfter
<1> QED
  BY <1>1, TypeCorrect, PTL

-----------------------------------------------------------------------------
(* Invocations cut at their external call                                  *)

(* The checks vote passed before the call, on what is in storage now.      *)
VotePending(g, t) ==
  /\ frames = <<[entry |-> "vote", guardian |-> g, task |-> t,
                 weight |-> calculate_voting_power(g),
                 copy |-> Accrue(active_task[t], calculate_voting_power(g))]>>
  /\ VoterError(g, t) = Ok
  /\ TallyError(t, calculate_voting_power(g), TRUE) = Ok
  /\ CallsVault(active_task[t], calculate_voting_power(g))

StreamPending(c, t) ==
  /\ frames = <<[entry |-> "start_reward_stream", task |-> t,
                 contributor |-> c]>>
  /\ StartRewardStreamError(t, TRUE) = Ok

(* At most one invocation waits, and it would pass its checks again.       *)
FrameInv ==
  \/ frames = <<>>
  \/ \E g \in Address, t \in TaskId : VotePending(g, t)
  \/ \E c \in Contributor, t \in TaskId : StreamPending(c, t)

(* vote's checks and the record it computes depend on storage only.        *)
LEMMA VoteChecksFrozen ==
  ASSUME UNCHANGED vars, NEW g \in Address, NEW t \in TaskId
  PROVE  /\ calculate_voting_power(g)' = calculate_voting_power(g)
         /\ VoterError(g, t)' = VoterError(g, t)
         /\ TallyError(t, calculate_voting_power(g), TRUE)' =
              TallyError(t, calculate_voting_power(g), TRUE)
         /\ CallsVault(active_task[t], calculate_voting_power(g))' =
              CallsVault(active_task[t], calculate_voting_power(g))
         /\ Accrue(active_task[t], calculate_voting_power(g))' =
              Accrue(active_task[t], calculate_voting_power(g))
PROOF
<1> USE DEF vars, breakerVars, guardianVars, tokenVars, taskVars, voteVars,
            vaultVars, streamVars
<1>1. calculate_voting_power(g)' = calculate_voting_power(g)
  BY DEF calculate_voting_power
<1>2. VoterError(g, t)' = VoterError(g, t)
  BY <1>1 DEF VoterError, require_not_paused, is_guardian, HasStake, HasVoted
<1>3. CallsVault(active_task[t], calculate_voting_power(g))' =
        CallsVault(active_task[t], calculate_voting_power(g))
  BY <1>1 DEF CallsVault, Resolves, WeightAfter
<1>4. TallyError(t, calculate_voting_power(g), TRUE)' =
        TallyError(t, calculate_voting_power(g), TRUE)
  BY <1>1, <1>3 DEF TallyError, has_active_task, Overflows, WeightAfter
<1>5. Accrue(active_task[t], calculate_voting_power(g))' =
        Accrue(active_task[t], calculate_voting_power(g))
  BY <1>1 DEF Accrue, Resolves, WeightAfter
<1> QED
  BY <1>1, <1>2, <1>3, <1>4, <1>5

LEMMA StreamChecksFrozen ==
  ASSUME UNCHANGED vars, NEW t \in TaskId
  PROVE  StartRewardStreamError(t, TRUE)' = StartRewardStreamError(t, TRUE)
PROOF
  BY DEF StartRewardStreamError, require_not_paused, has_active_task, vars,
         breakerVars, taskVars, streamVars

(* The second half of vote is the vote of the atomic contract.             *)
LEMMA ReturnIsVote ==
  ASSUME NEW g \in Address, NEW t \in TaskId, VotePending(g, t), VoteReturn
  PROVE  Vote(g, t, TRUE)
PROOF
<1>1. /\ Top.guardian = g /\ Top.task = t
      /\ Top.weight = calculate_voting_power(g)
      /\ Top.copy = Accrue(active_task[t], calculate_voting_power(g))
  BY DEF VotePending, Top
<1>2. /\ released' = [released EXCEPT ![t] = @ + 1]
      /\ all_votes' = Append(all_votes, <<t, g>>)
      /\ voted' = voted \cup {<<t, g>>}
      /\ active_task' = [active_task EXCEPT ![t] =
                           Accrue(active_task[t], calculate_voting_power(g))]
      /\ ballot' = [ballot EXCEPT ![t][g] = calculate_voting_power(g)]
  BY <1>1 DEF VoteReturn
<1> QED
  BY <1>2 DEF VotePending, Vote, VoteReturn

(* The second half of start_reward_stream is that of the atomic contract.  *)
LEMMA ReturnIsStream ==
  ASSUME NEW c \in Contributor, NEW t \in TaskId, StreamPending(c, t),
         StreamReturn
  PROVE  StartRewardStream(c, t, TRUE)
PROOF
<1>1. Top.task = t /\ Top.contributor = c
  BY DEF StreamPending, Top
<1> QED
  BY <1>1 DEF StreamPending, StartRewardStream, StreamReturn

(* An entry point that runs to its end, whether it takes the mutex or not. *)
Ends ==
  \/ WholeInvocation
  \/ \E t \in TaskId : GuardedRegister(t) \/ GuardedCancel(t)
  \/ \E g \in Address, t \in TaskId : GuardedVote(g, t)

(* The entry points that run to their end are steps of the contract.       *)
LEMMA EndsIsNext ==
  ASSUME Ends \/ Tick
  PROVE  Next
PROOF
<1>1. CASE WholeInvocation
  BY <1>1 DEF WholeInvocation, Next, TaskStep, VotingStep
<1>2. ASSUME NEW t \in TaskId, GuardedRegister(t) \/ GuardedCancel(t)
      PROVE  Next
  BY <1>2 DEF GuardedRegister, GuardedCancel, Next, TaskStep
<1>3. ASSUME NEW g \in Address, NEW t \in TaskId, GuardedVote(g, t)
      PROVE  Next
  BY <1>3 DEF GuardedVote, Next, VotingStep
<1> QED
  BY <1>1, <1>2, <1>3 DEF Ends, Next

(* The steps of the split contract.                                        *)
LEMMA InvocationSteps ==
  ASSUME [InvocationNext]_<<vars, frameVars>>
  PROVE  \/ Ends /\ RunsToEnd
         \/ \E g \in Address, t \in TaskId : VoteCall(g, t)
         \/ VoteReturn
         \/ VoteFails
         \/ \E c \in Contributor, t \in TaskId : StreamCall(c, t)
         \/ StreamReturn
         \/ StreamFails
         \/ [Tick]_vars /\ UNCHANGED frameVars
PROOF
  BY DEF InvocationNext, Ends

(* The pending frame survives a step that leaves storage and frame alone.  *)
LEMMA FrameInvFrozen ==
  ASSUME FrameInv, UNCHANGED <<vars, frames>>
  PROVE  FrameInv'
PROOF
<1>1. CASE frames = <<>>
  BY <1>1 DEF FrameInv
<1>2. ASSUME NEW g \in Address, NEW t \in TaskId, VotePending(g, t)
      PROVE  VotePending(g, t)'
  <2>1. active_task'[t] = active_task[t]
    BY DEF vars, taskVars
  <2> QED
    BY <1>2, <2>1, VoteChecksFrozen DEF VotePending
<1>3. ASSUME NEW c \in Contributor, NEW t \in TaskId, StreamPending(c, t)
      PROVE  StreamPending(c, t)'
  BY <1>3, StreamChecksFrozen DEF StreamPending
<1> QED
  BY <1>1, <1>2, <1>3 DEF FrameInv

(* The entry field tells the two kinds of waiting invocation apart.        *)
LEMMA FrameKinds ==
  /\ \A g \in Address, t \in TaskId :
       VotePending(g, t) => Len(frames) = 1 /\ Top.entry = "vote"
  /\ \A c \in Contributor, t \in TaskId :
       StreamPending(c, t) =>
         Len(frames) = 1 /\ Top.entry = "start_reward_stream"
PROOF
<1>1. ASSUME NEW g \in Address, NEW t \in TaskId, VotePending(g, t)
      PROVE  Len(frames) = 1 /\ Top.entry = "vote"
  BY <1>1 DEF VotePending, Top
<1>2. ASSUME NEW c \in Contributor, NEW t \in TaskId, StreamPending(c, t)
      PROVE  Len(frames) = 1 /\ Top.entry = "start_reward_stream"
  BY <1>2 DEF StreamPending, Top
<1> QED
  BY <1>1, <1>2

(* When the only waiting invocation ends, none waits.                      *)
LEMMA PopLast ==
  ASSUME FrameInv, frames # <<>>, Pop
  PROVE  frames' = <<>>
PROOF
<1>1. Len(frames) = 1
  BY FrameKinds DEF FrameInv
<1>2. frames' = SubSeq(frames, 1, 0)
  BY <1>1 DEF Pop
<1> QED
  BY <1>2

LEMMA HostFixed ==
  ASSUME [InvocationNext]_<<vars, frameVars>>
  PROVE  reentrant' = reentrant
PROOF
  BY InvocationSteps
  DEF frameVars, RunsToEnd, Push, Pop, VoteCall, VoteReturn, VoteFails,
      StreamCall, StreamReturn, StreamFails

LEMMA SplitStep ==
  ASSUME ~reentrant, FrameInv, [InvocationNext]_<<vars, frameVars>>
  PROVE  FrameInv' /\ [Next]_vars
PROOF
<1>1. CASE Ends /\ RunsToEnd
  BY <1>1, EndsIsNext DEF FrameInv, RunsToEnd, Admits
<1>2. ASSUME NEW g \in Address, NEW t \in TaskId, VoteCall(g, t)
      PROVE  FrameInv' /\ [Next]_vars
  <2> DEFINE f == [entry |-> "vote", guardian |-> g, task |-> t,
                   weight |-> calculate_voting_power(g),
                   copy |-> Accrue(active_task[t], calculate_voting_power(g))]
  <2>1. UNCHANGED vars /\ active_task'[t] = active_task[t]
    BY <1>2 DEF VoteCall, vars, taskVars
  <2>2. frames' = Append(<<>>, f)
    BY <1>2 DEF VoteCall, Push, Admits
  <2>3. frames' = <<f>>
    BY <2>2
  <2>4. /\ VoterError(g, t) = Ok
        /\ TallyError(t, calculate_voting_power(g), TRUE) = Ok
        /\ CallsVault(active_task[t], calculate_voting_power(g))
    BY <1>2 DEF VoteCall
  <2>5. VotePending(g, t)'
    BY <2>1, <2>3, <2>4, VoteChecksFrozen DEF VotePending
  <2> QED
    BY <2>1, <2>5 DEF FrameInv
<1>3. CASE VoteReturn
  <2>1. PICK g \in Address, t \in TaskId : VotePending(g, t)
    BY <1>3, FrameKinds DEF VoteReturn, InVote, FrameInv
  <2>2. Vote(g, t, TRUE)
    BY <1>3, <2>1, ReturnIsVote
  <2>3. frames' = <<>>
    BY <1>3, PopLast DEF VoteReturn, InVote
  <2> QED
    BY <2>2, <2>3 DEF FrameInv, Next, VotingStep
<1>4. CASE VoteFails \/ StreamFails
  BY <1>4, PopLast DEF VoteFails, StreamFails, InVote, InStream, FrameInv
<1>5. ASSUME NEW c \in Contributor, NEW t \in TaskId, StreamCall(c, t)
      PROVE  FrameInv' /\ [Next]_vars
  <2> DEFINE f == [entry |-> "start_reward_stream", task |-> t,
                   contributor |-> c]
  <2>1. UNCHANGED vars
    BY <1>5 DEF StreamCall
  <2>2. frames' = Append(<<>>, f)
    BY <1>5 DEF StreamCall, Push, Admits
  <2>3. frames' = <<f>>
    BY <2>2
  <2>4. StreamPending(c, t)'
    BY <1>5, <2>1, <2>3, StreamChecksFrozen DEF StreamCall, StreamPending
  <2> QED
    BY <2>1, <2>4 DEF FrameInv
<1>6. CASE StreamReturn
  <2>1. PICK c \in Contributor, t \in TaskId : StreamPending(c, t)
    BY <1>6, FrameKinds DEF StreamReturn, InStream, FrameInv
  <2>2. StartRewardStream(c, t, TRUE)
    BY <1>6, <2>1, ReturnIsStream
  <2>3. frames' = <<>>
    BY <1>6, PopLast DEF StreamReturn, InStream
  <2> QED
    BY <2>2, <2>3 DEF FrameInv, Next, StreamStep
<1>7. CASE frames = <<>> /\ Tick /\ UNCHANGED frameVars
  BY <1>7, EndsIsNext DEF FrameInv, frameVars
<1>8. CASE UNCHANGED <<vars, frameVars>>
  BY <1>8, FrameInvFrozen DEF frameVars
<1> QED
  BY <1>1, <1>2, <1>3, <1>4, <1>5, <1>6, <1>7, <1>8
  DEF InvocationNext, Ends

(* On a host that refuses re-entry, vote and start_reward_stream behave as *)
(* single steps although they call the vault and Drips half-way: the split *)
(* contract implements Spec, for any accounts, tasks and bounds.           *)
THEOREM SplitIsAtomic ==
  InvocationSpec => ImplementsAtomic
PROOF
<1> DEFINE Inv == reentrant \/ FrameInv
<1>1. InvocationInit => Init /\ Inv
  BY DEF InvocationInit, FrameInv
<1>2. Inv /\ [InvocationNext]_<<vars, frameVars>>
        => Inv' /\ [reentrant \/ Next]_vars
  <2> SUFFICES ASSUME Inv, [InvocationNext]_<<vars, frameVars>>
               PROVE  Inv' /\ [reentrant \/ Next]_vars
    OBVIOUS
  <2>1. reentrant' = reentrant
    BY HostFixed
  <2>2. CASE reentrant
    BY <2>1, <2>2
  <2>3. CASE ~reentrant
    BY <2>3, SplitStep
  <2> QED
    BY <2>2, <2>3
<1> QED
  BY <1>1, <1>2, PTL DEF InvocationSpec, ImplementsAtomic

-----------------------------------------------------------------------------
(* The mutex                                                               *)

Frame == VoteFrame \cup StreamFrame

(* What storage still owes a vote that waits for the vault: it is not      *)
(* counted yet, and the copy it will write is one vote ahead of the record *)
(* wherever archive_task may have moved that record meanwhile.             *)
OneVoteAhead(f) ==
  /\ Registered(f.task)
  /\ f.guardian \notin Voters(f.task)
  /\ f.copy.votes = Record(f.task).votes + 1
  /\ f.copy.total_weight_accrued
       = Record(f.task).total_weight_accrued + f.weight
  /\ f.weight > 0

(* At most one vote waits at any depth, and it holds the mutex.            *)
StackInv ==
  /\ frames \in Seq(Frame)
  /\ \A i \in 1..Len(frames) :
       frames[i].entry = "vote" => lock /\ OneVoteAhead(frames[i])
  /\ \A i, j \in 1..Len(frames) :
       frames[i].entry = "vote" /\ frames[j].entry = "vote" => i = j

TallyInv == CountInv /\ WeightMatchesBallots /\ VoteLogExact

LEMMA PopKeepsRest ==
  ASSUME frames \in Seq(Frame), frames # <<>>, Pop
  PROVE  /\ frames' \in Seq(Frame)
         /\ Len(frames') = Len(frames) - 1
         /\ \A i \in 1..Len(frames') : frames'[i] = frames[i]
         /\ Len(frames) \in Nat \ {0}
         /\ Top \in Frame
PROOF
<1>1. Len(frames) \in Nat \ {0}
  OBVIOUS
<1>2. frames' = SubSeq(frames, 1, Len(frames) - 1)
  BY DEF Pop
<1>3. \A i \in 1..(Len(frames) - 1) : frames[i] \in Frame
  BY <1>1
<1> DEFINE n == Len(frames) - 1
<1>4. /\ n \in Int /\ n >= 0
      /\ frames' = SubSeq(frames, 1, n)
      /\ \A i \in 1..n : frames[i] \in Frame
  BY <1>1, <1>2, <1>3
<1> HIDE DEF n
<1>5. /\ frames' \in Seq(Frame)
      /\ Len(frames') = IF 1 <= n THEN n - 1 + 1 ELSE 0
      /\ \A i \in 1..(n - 1 + 1) : frames'[i] = frames[1 + i - 1]
  BY <1>4, SubSeqProperties
<1>6. /\ frames' \in Seq(Frame)
      /\ Len(frames') = n
      /\ \A i \in 1..n : frames'[i] = frames[i]
  BY <1>4, <1>5
<1> QED
  BY <1>1, <1>6 DEF Top, n

LEMMA PushKeepsRest ==
  ASSUME frames \in Seq(Frame), NEW f \in Frame, Push(f)
  PROVE  /\ frames' \in Seq(Frame)
         /\ Len(frames') = Len(frames) + 1
         /\ \A i \in 1..Len(frames) : frames'[i] = frames[i]
         /\ frames'[Len(frames) + 1] = f
         /\ Len(frames) \in Nat
PROOF
  BY DEF Push

(* What vote computed before the call is well-formed and one vote ahead.   *)
LEMMA VoteCallFrame ==
  ASSUME TypeOK, NEW g \in Address, NEW t \in TaskId, VoteCall(g, t)
  PROVE  \E f \in VoteFrame : Push(f) /\ OneVoteAhead(f)
PROOF
<1> DEFINE w == calculate_voting_power(g)
           r == active_task[t]
           f == [entry |-> "vote", guardian |-> g, task |-> t, weight |-> w,
                 copy |-> Accrue(r, w)]
<1>1. /\ w # None /\ w # 0 /\ ~HasVoted(g, t)
      /\ TallyError(t, w, TRUE) = Ok
      /\ Push(f)
  BY DEF VoteCall, VoterError, Ok
<1>2. w \in 0..U64Max
  BY <1>1 DEF TypeOK, calculate_voting_power
<1>3. r # None /\ ~Overflows(r, w) /\ r.votes # U32Max
  BY <1>1 DEF TallyError, has_active_task, Ok
<1>4. r \in TaskRecord
  BY <1>3 DEF TypeOK
<1>5. Registered(t) /\ Record(t) = r /\ g \notin Voters(t)
  BY <1>1, <1>3 DEF Registered, Record, has_active_task, Voters, HasVoted
<1> HIDE DEF w, r
<1>6. /\ Accrue(r, w) \in TaskRecord
      /\ Accrue(r, w).votes = r.votes + 1
      /\ Accrue(r, w).total_weight_accrued = r.total_weight_accrued + w
  BY <1>2, <1>3, <1>4, AccrueType DEF TypeOK
<1>7. f \in VoteFrame
  BY <1>2, <1>6 DEF VoteFrame
<1>8. w > 0
  BY <1>1, <1>2, ConstantsAssumption
<1>9. OneVoteAhead(f)
  BY <1>5, <1>6, <1>8 DEF OneVoteAhead
<1> QED
  BY <1>1, <1>7, <1>9

(* The entry points that take no mutex lose no record and count no vote.   *)
LEMMA WholeKeepsRecords ==
  ASSUME TypeOK, WholeInvocation, NEW t \in TaskId
  PROVE  /\ Voters(t)' = Voters(t)
         /\ Registered(t) => Registered(t)' /\ Record(t)' = Record(t)
PROOF
<1> USE DEF Registered, Record, Voters, has_active_task, has_archived_task
<1>1. ASSUME UNCHANGED <<active_task, archived_task, voted>>
      PROVE  /\ Voters(t)' = Voters(t)
             /\ Registered(t) => Registered(t)' /\ Record(t)' = Record(t)
  BY <1>1
<1>2. CASE BreakerStep
  BY <1>1, <1>2 DEF BreakerStep, TogglePause, Pause, Unpause, SetPaused,
                    RecordFailure, ResetCircuitBreaker, taskVars, voteVars
<1>3. CASE GuardianStep
  BY <1>1, <1>3 DEF GuardianStep, AddGuardian, RemoveGuardian, SetReputation,
                    taskVars, voteVars
<1>4. CASE TokenStep
  BY <1>1, <1>4 DEF TokenStep, Initialize, LockTokens, ResignGuardian,
                    UnlockTokens, taskVars, voteVars
<1>5. ASSUME NEW u \in TaskId, ArchiveTask(u)
      PROVE  /\ Voters(t)' = Voters(t)
             /\ Registered(t) => Registered(t)' /\ Record(t)' = Record(t)
  <2>1. /\ active_task' = [active_task EXCEPT ![u] = None]
        /\ archived_task' = [archived_task EXCEPT ![u] = active_task[u]]
        /\ voted' = voted
        /\ active_task[u] # None
    BY <1>5 DEF ArchiveTask, ArchiveTaskError, Ok, voteVars
  <2> QED
    BY <2>1 DEF TypeOK
<1>6. ASSUME NEW th \in WeightThresholds, SetWeightThreshold(th)
      PROVE  UNCHANGED <<active_task, archived_task, voted>>
  BY <1>6 DEF SetWeightThreshold, taskVars
<1>7. ASSUME NEW v \in Vault, SetVaultAddress(v)
      PROVE  UNCHANGED <<active_task, archived_task, voted>>
  BY <1>7 DEF SetVaultAddress, taskVars, voteVars
<1> QED
  BY <1>1, <1>2, <1>3, <1>4, <1>5, <1>6, <1>7 DEF WholeInvocation

(* A waiting vote is still owed one vote after a step that keeps records.  *)
LEMMA AheadKept ==
  ASSUME NEW f \in VoteFrame, OneVoteAhead(f),
         \A t \in TaskId :
           /\ Voters(t)' = Voters(t)
           /\ Registered(t) => Registered(t)' /\ Record(t)' = Record(t)
  PROVE  OneVoteAhead(f)'
PROOF
<1>1. f.task \in TaskId
  BY DEF VoteFrame
<1> QED
  BY <1>1 DEF OneVoteAhead

(* OneVoteAhead of an entry of the stack is that of the frame stored there.*)
LEMMA AheadNow ==
  ASSUME NEW i, NEW f, frames[i] = f, OneVoteAhead(frames[i])
  PROVE  OneVoteAhead(f)
PROOF
  BY DEF OneVoteAhead

LEMMA AheadThen ==
  ASSUME NEW i, NEW f, frames'[i] = f, OneVoteAhead(f)'
  PROVE  OneVoteAhead(frames[i])'
PROOF
  BY DEF OneVoteAhead, Registered, Record, Voters, has_active_task,
         has_archived_task

LEMMA StackStep ==
  ASSUME TypeOK, StackInv, [InvocationNext]_<<vars, frameVars>>
  PROVE  StackInv'
PROOF
<1>1. frames \in Seq(Frame) /\ Len(frames) \in Nat
  BY DEF StackInv
<1>2. \A i \in 1..Len(frames) : frames[i] \in Frame
  BY <1>1
<1>3. \A f \in Frame : f.entry = "vote" => f \in VoteFrame
  BY DEF Frame, VoteFrame, StreamFrame
<1> DEFINE Kept == \A t \in TaskId :
              /\ Voters(t)' = Voters(t)
              /\ Registered(t) => Registered(t)' /\ Record(t)' = Record(t)
           Shrinks == /\ frames' \in Seq(Frame)
                      /\ Len(frames') \in Nat /\ Len(frames') <= Len(frames)
                      /\ \A i \in 1..Len(frames') : frames'[i] = frames[i]
           NoVote == \A i \in 1..Len(frames) : frames[i].entry # "vote"
<1>4. ASSUME UNCHANGED <<active_task, archived_task, voted>> PROVE Kept
  BY <1>4
  DEF Voters, Registered, Record, has_active_task, has_archived_task
<1>5. ASSUME Kept, NEW i \in 1..Len(frames), frames[i].entry = "vote",
             frames'[i] = frames[i]
      PROVE  OneVoteAhead(frames[i])'
  <2>1. PICK f : f = frames[i]
    OBVIOUS
  <2>2. f \in VoteFrame /\ OneVoteAhead(f)
    BY <1>2, <1>3, <1>5, <2>1, AheadNow DEF StackInv
  <2>3. OneVoteAhead(f)'
    BY <1>5, <2>2, AheadKept
  <2> QED
    BY <1>5, <2>1, <2>3, AheadThen
<1>6. ASSUME Kept, Shrinks, lock' = lock PROVE StackInv'
  <2>1. \A i \in 1..Len(frames') :
          i \in 1..Len(frames) /\ frames'[i] = frames[i]
    BY <1>1, <1>6
  <2>2. ASSUME NEW i \in 1..Len(frames'), frames'[i].entry = "vote"
        PROVE  lock' /\ OneVoteAhead(frames[i])'
    BY <1>5, <1>6, <2>1, <2>2 DEF StackInv
  <2>3. \A i, j \in 1..Len(frames') :
          frames'[i].entry = "vote" /\ frames'[j].entry = "vote" => i = j
    BY <2>1 DEF StackInv
  <2> QED
    BY <1>6, <2>2, <2>3 DEF StackInv
<1>7. ASSUME NoVote, Shrinks PROVE StackInv'
  <2>1. \A i \in 1..Len(frames') : frames'[i].entry # "vote"
    BY <1>1, <1>7
  <2> QED
    BY <1>7, <2>1 DEF StackInv
<1>8. ASSUME ~lock PROVE NoVote
  BY <1>8 DEF StackInv
<1>9. CASE Ends /\ RunsToEnd
  <2>1. Shrinks
    BY <1>1, <1>9 DEF RunsToEnd
  <2>2. CASE WholeInvocation
    BY <1>6, <2>1, <2>2, WholeKeepsRecords DEF WholeInvocation
  <2>3. CASE ~WholeInvocation
    <3>1. ~lock
      BY <1>9, <2>3
      DEF Ends, GuardedRegister, GuardedCancel, GuardedVote, LockFree
    <3> QED
      BY <1>7, <1>8, <2>1, <3>1
  <2> QED
    BY <2>2, <2>3
<1>10. ASSUME NEW g \in Address, NEW t \in TaskId, VoteCall(g, t)
       PROVE  StackInv'
  <2>1. PICK f \in VoteFrame : Push(f) /\ OneVoteAhead(f)
    BY <1>10, VoteCallFrame
  <2>2. f \in Frame /\ lock' = TRUE /\ NoVote
    BY <1>8, <1>10 DEF Frame, VoteCall, LockFree
  <2>3. OneVoteAhead(f)'
    BY <1>4, <1>10, <2>1, AheadKept DEF VoteCall, vars, taskVars, voteVars
  <2>4. /\ frames' \in Seq(Frame)
        /\ Len(frames') = Len(frames) + 1
        /\ \A i \in 1..Len(frames) : frames'[i] = frames[i]
        /\ frames'[Len(frames) + 1] = f
    BY <1>1, <2>1, <2>2, PushKeepsRest
  <2>5. \A i \in 1..Len(frames') :
          frames'[i].entry = "vote" => i = Len(frames) + 1
    BY <1>1, <2>2, <2>4
  <2>6. ASSUME NEW i \in 1..Len(frames'), frames'[i].entry = "vote"
        PROVE  lock' /\ OneVoteAhead(frames[i])'
    <3>1. frames'[i] = f
      BY <2>4, <2>5, <2>6
    <3> QED
      BY <2>2, <2>3, <3>1, AheadThen
  <2> QED
    BY <1>1, <2>4, <2>5, <2>6 DEF StackInv
<1>11. CASE VoteReturn \/ VoteFails
  <2>1. frames # <<>> /\ Top.entry = "vote" /\ Pop
    BY <1>11 DEF VoteReturn, VoteFails, InVote
  <2>2. /\ frames' \in Seq(Frame)
        /\ Len(frames') = Len(frames) - 1
        /\ \A i \in 1..Len(frames') : frames'[i] = frames[i]
        /\ Len(frames) \in Nat \ {0}
    BY <1>1, <2>1, PopKeepsRest
  <2>3. frames[Len(frames)].entry = "vote"
    BY <2>1 DEF Top
  <2>4. \A i \in 1..Len(frames') : frames'[i].entry # "vote"
    BY <2>2, <2>3 DEF StackInv
  <2> QED
    BY <2>2, <2>4 DEF StackInv
<1>12. ASSUME NEW c \in Contributor, NEW t \in TaskId, StreamCall(c, t)
       PROVE  StackInv'
  <2> DEFINE f == [entry |-> "start_reward_stream", task |-> t,
                   contributor |-> c]
  <2>1. f \in Frame /\ f.entry # "vote" /\ Push(f) /\ lock' = lock
    BY <1>12 DEF StreamCall, Frame, StreamFrame
  <2>2. Kept
    BY <1>4, <1>12 DEF StreamCall, vars, taskVars, voteVars
  <2> HIDE DEF f
  <2>3. /\ frames' \in Seq(Frame)
        /\ Len(frames') = Len(frames) + 1
        /\ \A i \in 1..Len(frames) : frames'[i] = frames[i]
        /\ frames'[Len(frames) + 1] = f
    BY <1>1, <2>1, PushKeepsRest
  <2>4. \A i \in 1..Len(frames') :
          frames'[i].entry = "vote" =>
            i \in 1..Len(frames) /\ frames'[i] = frames[i]
    BY <1>1, <2>1, <2>3
  <2>5. ASSUME NEW i \in 1..Len(frames'), frames'[i].entry = "vote"
        PROVE  lock' /\ OneVoteAhead(frames[i])'
    BY <1>5, <2>1, <2>2, <2>4, <2>5 DEF StackInv
  <2>6. \A i, j \in 1..Len(frames') :
          frames'[i].entry = "vote" /\ frames'[j].entry = "vote" => i = j
    BY <2>4 DEF StackInv
  <2> QED
    BY <2>3, <2>5, <2>6 DEF StackInv
<1>13. CASE StreamReturn \/ StreamFails
  <2>1. frames # <<>> /\ Pop /\ lock' = lock
    BY <1>13 DEF StreamReturn, StreamFails, InStream
  <2>2. Kept
    BY <1>4, <1>13 DEF StreamReturn, StreamFails, vars, taskVars, voteVars
  <2>3. Shrinks
    BY <1>1, <2>1, PopKeepsRest
  <2> QED
    BY <1>6, <2>1, <2>2, <2>3
<1>14. CASE [Tick]_vars /\ UNCHANGED frameVars
  <2>1. Kept
    BY <1>4, <1>14 DEF Tick, vars, taskVars, voteVars
  <2> QED
    BY <1>1, <1>6, <1>14, <2>1 DEF frameVars
<1> QED
  BY <1>9, <1>10, <1>11, <1>12, <1>13, <1>14, InvocationSteps

(* The second half of vote, wherever the record is by now.                 *)
LEMMA VoteReturnType ==
  ASSUME TypeOK, NEW f \in VoteFrame, Top = f, VoteReturn
  PROVE  TypeOK'
PROOF
<1>1. /\ f.guardian \in Address /\ f.task \in TaskId
      /\ f.weight \in 0..U64Max /\ f.copy \in TaskRecord
  BY DEF VoteFrame
<1>2. /\ released' = [released EXCEPT ![f.task] = @ + 1]
      /\ all_votes' = Append(all_votes, <<f.task, f.guardian>>)
      /\ voted' = voted \cup {<<f.task, f.guardian>>}
      /\ active_task' = [active_task EXCEPT ![f.task] = f.copy]
      /\ ballot' = [ballot EXCEPT ![f.task] =
                      [ballot[f.task] EXCEPT ![f.guardian] = f.weight]]
  BY DEF VoteReturn
<1>3. all_votes' \in Seq(TaskId \X Address)
  BY <1>1, <1>2 DEF TypeOK
<1>4. ballot' \in [TaskId -> [Address -> 0..U64Max]]
  BY <1>1, <1>2 DEF TypeOK
<1>5. /\ released' \in [TaskId -> Nat]
      /\ voted' \subseteq TaskId \X Address
      /\ active_task' \in [TaskId -> TaskRecord \cup {None}]
  BY <1>1, <1>2 DEF TypeOK
<1> QED
  BY <1>3, <1>4, <1>5
  DEF VoteReturn, TypeOK, breakerVars, guardianVars, tokenVars, streamVars

LEMMA VoteReturnTally ==
  ASSUME TypeOK, TallyInv, NEW f \in VoteFrame, Top = f, OneVoteAhead(f),
         VoteReturn
  PROVE  TallyInv'
PROOF
<1> DEFINE u == f.task
           g == f.guardian
           w == f.weight
           r == f.copy
<1>1. u \in TaskId /\ g \in Address /\ w \in 0..U64Max /\ r \in TaskRecord
  BY DEF VoteFrame
<1>2. /\ all_votes' = Append(all_votes, <<u, g>>)
      /\ voted' = voted \cup {<<u, g>>}
      /\ active_task' = [active_task EXCEPT ![u] = r]
      /\ archived_task' = archived_task
      /\ ballot' = [ballot EXCEPT ![u] = [ballot[u] EXCEPT ![g] = w]]
  BY DEF VoteReturn
<1>3. /\ Registered(u) /\ g \notin Voters(u)
      /\ r.votes = Record(u).votes + 1
      /\ r.total_weight_accrued = Record(u).total_weight_accrued + w
      /\ w > 0
  BY DEF OneVoteAhead
<1> HIDE DEF u, g, w, r
<1>4. Registered(u)' /\ Record(u)' = r
  BY <1>1, <1>2, NoneAssumption
  DEF Registered, Record, has_active_task, TypeOK
<1>5. Voters(u)' = Voters(u) \cup {g}
  BY <1>1, <1>2 DEF Voters
<1>6. ASSUME NEW t \in TaskId, t # u
      PROVE  /\ Registered(t)' <=> Registered(t)
             /\ Record(t)' = Record(t)
             /\ Voters(t)' = Voters(t)
             /\ ballot'[t] = ballot[t]
  <2>1. active_task'[t] = active_task[t] /\ ballot'[t] = ballot[t]
    BY <1>2, <1>6 DEF TypeOK
  <2> QED
    BY <1>2, <1>6, <2>1
    DEF Registered, Record, has_active_task, has_archived_task, Voters
<1>7. CountInv'
  <2>1. /\ IsFiniteSet(Voters(u)) /\ Record(u).votes = Cardinality(Voters(u))
    BY <1>1, <1>3 DEF TallyInv, CountInv, VotesMatchVoters
  <2>2. /\ IsFiniteSet(Voters(u)')
        /\ Cardinality(Voters(u)') = Cardinality(Voters(u)) + 1
    BY <1>3, <1>5, <2>1, FS_AddElement
  <2>3. ASSUME NEW t \in TaskId
        PROVE  /\ Registered(t)' => Record(t)'.votes = Cardinality(Voters(t)')
               /\ ~Registered(t)' => Voters(t)' = {}
               /\ IsFiniteSet(Voters(t)')
    <3>1. CASE t = u
      BY <1>3, <1>4, <2>1, <2>2, <3>1
    <3>2. CASE t # u
      BY <1>6, <3>2 DEF TallyInv, CountInv, VotesMatchVoters
    <3> QED
      BY <3>1, <3>2
  <2> QED
    BY <2>3 DEF CountInv, VotesMatchVoters
<1>8. WeightMatchesBallots'
  <2> DEFINE b == ballot[u]
  <2>1. /\ Record(u).total_weight_accrued = SumFunction(b)
        /\ Voters(u) = {a \in Address : b[a] > 0}
        /\ b \in [Address -> 0..U64Max]
    BY <1>1, <1>3 DEF TallyInv, WeightMatchesBallots, TypeOK
  <2>2. ballot'[u] = [b EXCEPT ![g] = w]
    BY <1>1, <1>2 DEF TypeOK
  <2> HIDE DEF b
  <2>3. b[g] = 0 /\ b \in [Address -> Nat] /\ w \in Nat
    BY <1>1, <1>3, <2>1, ConstantsAssumption
  <2>4. SumFunction([b EXCEPT ![g] = w]) = SumFunction(b) - b[g] + w
    BY <1>1, <2>3, SumUpdated, AddressAssumption
  <2>5. SumFunction(b) \in Nat
    BY <2>3, SumCovers, AddressAssumption
  <2>6. SumFunction(b) - b[g] + w = SumFunction(b) + w
    BY <2>3, <2>5
  <2>7. r.total_weight_accrued = SumFunction(ballot'[u])
    BY <1>3, <2>1, <2>2, <2>4, <2>6, Zenon
  <2>8. Voters(u)' = {a \in Address : ballot'[u][a] > 0}
    BY <1>1, <1>3, <1>5, <2>1, <2>2, <2>3
  <2>9. ASSUME NEW t \in TaskId
        PROVE  /\ Registered(t)' => Record(t)'.total_weight_accrued
                                      = SumFunction(ballot'[t])
               /\ Voters(t)' = {a \in Address : ballot'[t][a] > 0}
    <3>1. CASE t = u
      BY <1>4, <2>7, <2>8, <3>1
    <3>2. CASE t # u
      BY <1>6, <3>2 DEF TallyInv, WeightMatchesBallots
    <3> QED
      BY <3>1, <3>2
  <2> QED
    BY <2>9 DEF WeightMatchesBallots
<1>9. VoteLogExact'
  <2>1. /\ all_votes \in Seq(TaskId \X Address)
        /\ <<u, g>> \in TaskId \X Address /\ <<u, g>> \notin voted
    BY <1>1, <1>3 DEF TypeOK, Voters
  <2>2. ListsExactly(Append(all_votes, <<u, g>>), voted \cup {<<u, g>>})
    BY <2>1, AppendListsExactly DEF TallyInv, VoteLogExact
  <2> QED
    BY <1>2, <2>2 DEF VoteLogExact
<1> QED
  BY <1>7, <1>8, <1>9 DEF TallyInv

LEMMA StreamReturnKeeps ==
  ASSUME TypeOK, TallyInv, NEW f \in StreamFrame, Top = f, StreamReturn
  PROVE  TypeOK' /\ TallyInv'
PROOF
<1>1. f.task \in TaskId /\ f.contributor \in Contributor
  BY DEF StreamFrame
<1>2. /\ all_streams' \in Seq(TaskId)
      /\ reward_stream' \in [TaskId -> Contributor \cup {None}]
  BY <1>1 DEF StreamReturn, TypeOK
<1>3. TypeOK'
  BY <1>2
  DEF StreamReturn, TypeOK, breakerVars, guardianVars, tokenVars, taskVars,
      voteVars, vaultVars
<1>4. TallyInv'
  BY DEF StreamReturn, TallyInv, CountInv, VotesMatchVoters,
         WeightMatchesBallots, VoteLogExact, Registered, Record, Voters,
         has_active_task, has_archived_task, taskVars, voteVars
<1> QED
  BY <1>3, <1>4

LEMMA TallyStep ==
  ASSUME TypeOK, TallyInv, StackInv, [InvocationNext]_<<vars, frameVars>>
  PROVE  TypeOK' /\ TallyInv'
PROOF
<1>1. ASSUME [Next]_vars PROVE TypeOK' /\ TallyInv'
  BY <1>1, NextType, CountStep, WeightStep, VoteLogStep DEF TallyInv, CountInv
<1>2. ASSUME frames # <<>>
      PROVE  /\ Top \in Frame
             /\ Top.entry = "vote" => Top \in VoteFrame /\ OneVoteAhead(Top)
             /\ Top.entry # "vote" => Top \in StreamFrame
  <2>1. frames \in Seq(Frame) /\ Len(frames) \in 1..Len(frames)
    BY <1>2 DEF StackInv
  <2>2. Top \in Frame
    BY <2>1 DEF Top
  <2> QED
    BY <2>1, <2>2 DEF Frame, VoteFrame, StreamFrame, Top, StackInv
<1>3. CASE (Ends /\ RunsToEnd) \/ [Tick]_vars
  BY <1>1, <1>3, EndsIsNext
<1>4. CASE UNCHANGED vars
  BY <1>1, <1>4
<1>5. CASE VoteReturn
  <2>1. PICK f : f = Top
    OBVIOUS
  <2>2. f \in VoteFrame /\ OneVoteAhead(f)
    BY <1>2, <1>5, <2>1 DEF VoteReturn, InVote, OneVoteAhead
  <2> QED
    BY <1>5, <2>1, <2>2, VoteReturnType, VoteReturnTally
<1>6. CASE StreamReturn
  <2>1. Top \in StreamFrame
    BY <1>2, <1>6 DEF StreamReturn, InStream
  <2> QED
    BY <1>6, <2>1, StreamReturnKeeps
<1> QED
  BY <1>3, <1>4, <1>5, <1>6, InvocationSteps
  DEF VoteCall, VoteFails, StreamCall, StreamFails

(* Whatever the vault and Drips do, and even on a host that lets them call *)
(* back every entry point to any depth, no vote is lost or counted twice:  *)
(* the mutex shuts out the calls that would make vote's copy of the task   *)
(* stale, and archive_task, which it does not shut out, moves the record   *)
(* but counts nothing.                                                     *)
THEOREM NoVoteIsLost == InvocationSpec => []NoVoteLost
PROOF
<1> DEFINE Inv == TypeOK /\ TallyInv /\ StackInv
<1>1. InvocationInit => Inv
  <2> SUFFICES ASSUME InvocationInit PROVE Inv
    OBVIOUS
  <2>1. Init /\ frames = <<>>
    BY DEF InvocationInit
  <2>2. \A t \in TaskId : ~Registered(t) /\ Voters(t) = {}
    BY <2>1 DEF Init, Registered, has_active_task, has_archived_task, Voters
  <2>3. CountInv
    BY <2>2, FS_EmptySet DEF CountInv, VotesMatchVoters
  <2>4. WeightMatchesBallots
    BY <2>1, <2>2 DEF Init, WeightMatchesBallots
  <2>5. VoteLogExact
    BY <2>1, EmptyListsExactly DEF Init, VoteLogExact
  <2>6. StackInv
    BY <2>1 DEF StackInv
  <2> QED
    BY <2>1, <2>3, <2>4, <2>5, <2>6, InitType DEF TallyInv
<1>2. Inv /\ [InvocationNext]_<<vars, frameVars>> => Inv'
  BY StackStep, TallyStep
<1>3. Inv => NoVoteLost
  BY DEF TallyInv, CountInv, NoVoteLost
<1> QED
  BY <1>1, <1>2, <1>3, PTL DEF InvocationSpec
=============================================================================
