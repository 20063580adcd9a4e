------------------------------ MODULE TaskProofs ------------------------------
(***************************************************************************)
(* Theorems about task records and the lists that index storage.  Every    *)
(* step of the contract acts on the record of a given task in one of five  *)
(* ways (RecordStep); the invariants and the action property then follow   *)
(* from what each way does to one record, wherever the record is stored.   *)
(***************************************************************************)
EXTENDS VeroCoreProofs

LeavesUnregistered(t) ==
  ~Registered(t) /\ ~Registered(t)' /\ Voters(t)' = Voters(t)

Opens(t) ==
  /\ ~Registered(t) /\ Registered(t)'
  /\ Record(t)' = NewTask
  /\ Voters(t)' = Voters(t)

(* Also the step that archives t.                                          *)
Keeps(t) ==
  /\ Registered(t) /\ Registered(t)'
  /\ Record(t)' = Record(t)
  /\ Voters(t)' = Voters(t)

Cancels(t) ==
  /\ Registered(t) /\ Registered(t)'
  /\ Record(t)' = [Record(t) EXCEPT !.is_cancelled = TRUE]
  /\ Voters(t)' = Voters(t)

Counts(t, g) ==
  /\ Registered(t) /\ Registered(t)'
  /\ is_guardian(g)
  /\ reputation[g] \in 1..U64Max
  /\ ~Overflows(Record(t), reputation[g])
  /\ Record(t).votes # U32Max
  /\ Record(t)' = Accrue(Record(t), reputation[g])
  /\ g \notin Voters(t)
  /\ Voters(t)' = Voters(t) \cup {g}

RecordStep(t) ==
  /\ now' \in {now, now + 1}
  /\ \/ LeavesUnregistered(t)
     \/ Opens(t)
     \/ Keeps(t)
     \/ Cancels(t)
     \/ \E g \in Address : Counts(t, g)

(* The steps that touch no record.                                         *)
Quiet ==
  /\ UNCHANGED <<active_task, archived_task, all_tasks, voted, all_votes>>
  /\ now' \in {now, now + 1}

LEMMA QuietSteps ==
  ASSUME TypeOK, [Next]_vars
  PROVE  Quiet \/ TaskStep
         \/ \E g \in Address, t \in TaskId, escrow_up \in BOOLEAN :
              Vote(g, t, escrow_up)
PROOF
<1> USE DEF Quiet, breakerVars, guardianVars, tokenVars, taskVars, voteVars,
            vaultVars, streamVars
<1>1. CASE BreakerStep
  BY <1>1 DEF BreakerStep, TogglePause, Pause, Unpause, SetPaused,
              RecordFailure, ResetCircuitBreaker
<1>2. CASE GuardianStep
  BY <1>2 DEF GuardianStep, AddGuardian, RemoveGuardian, SetReputation
<1>3. CASE TokenStep
  BY <1>3 DEF TokenStep, Initialize, LockTokens, ResignGuardian, UnlockTokens
<1>4. CASE VotingStep
  BY <1>4 DEF VotingStep, SetWeightThreshold, SetVaultAddress
<1>5. CASE StreamStep
  BY <1>5 DEF StreamStep, StartRewardStream
<1>6. CASE Tick
  BY <1>6 DEF Tick
<1>7. CASE UNCHANGED vars
  BY <1>7 DEF vars
<1> QED
  BY <1>1, <1>2, <1>3, <1>4, <1>5, <1>6, <1>7, [Next]_vars DEF Next

LEMMA ClockSteps ==
  ASSUME TypeOK, [Next]_vars
  PROVE  now' \in {now, now + 1}
PROOF
<1>1. CASE Quiet
  BY <1>1 DEF Quiet
<1>2. CASE TaskStep
  BY <1>2 DEF TaskStep, RegisterTask, CancelTask, ArchiveTask
<1>3. ASSUME NEW g \in Address, NEW t \in TaskId, NEW escrow_up \in BOOLEAN,
             Vote(g, t, escrow_up)
      PROVE  now' = now
  BY <1>3 DEF Vote
<1> QED
  BY <1>1, <1>2, <1>3, QuietSteps

LEMMA RecordType ==
  ASSUME TypeOK, NEW t \in TaskId, Registered(t)
  PROVE  Record(t) \in TaskRecord
PROOF
  BY DEF TypeOK, Registered, Record, has_active_task, has_archived_task

LEMMA RecordSteps ==
  ASSUME TypeOK, [Next]_vars, NEW t \in TaskId
  PROVE  RecordStep(t)
PROOF
<1> USE DEF Registered, Record, Voters, has_active_task, has_archived_task
<1>1. CASE Quiet
  BY <1>1 DEF Quiet, RecordStep, LeavesUnregistered, Keeps
<1>2. ASSUME NEW u \in TaskId, RegisterTask(u) PROVE RecordStep(t)
  <2>1. /\ active_task' = [active_task EXCEPT ![u] = NewTask]
        /\ archived_task' = archived_task
        /\ voted' = voted
        /\ now' = now
        /\ active_task[u] = None /\ archived_task[u] = None
    BY <1>2 DEF RegisterTask, RegisterTaskError, Ok, voteVars
  <2>2. NewTask # None
    <3>1. NewTask \in TaskRecord
      BY ConstantsAssumption DEF NewTask, TaskRecord
    <3> QED
      BY <3>1, NoneAssumption
  <2>3. CASE u = t
    <3>1. Opens(t)
      BY <2>1, <2>2, <2>3 DEF Opens, TypeOK
    <3> QED
      BY <2>1, <3>1 DEF RecordStep
  <2>4. CASE u # t
    BY <2>1, <2>4 DEF RecordStep, LeavesUnregistered, Keeps, TypeOK
  <2> QED
    BY <2>3, <2>4
<1>3. ASSUME NEW u \in TaskId, CancelTask(u) PROVE RecordStep(t)
  <2>1. /\ active_task' = [active_task EXCEPT ![u] =
                             [active_task[u] EXCEPT !.is_cancelled = TRUE]]
        /\ archived_task' = archived_task
        /\ voted' = voted
        /\ now' = now
        /\ active_task[u] # None
    BY <1>3 DEF CancelTask, CancelTaskError, Ok, voteVars
  <2>2. [active_task[u] EXCEPT !.is_cancelled = TRUE] # None
    <3>1. active_task[u] \in TaskRecord
      BY <2>1 DEF TypeOK
    <3>2. [active_task[u] EXCEPT !.is_cancelled = TRUE] \in TaskRecord
      BY <3>1 DEF TaskRecord
    <3> QED
      BY <3>2, NoneAssumption
  <2>3. CASE u = t
    <3>1. Cancels(t)
      BY <2>1, <2>2, <2>3 DEF Cancels, TypeOK
    <3> QED
      BY <2>1, <3>1 DEF RecordStep
  <2>4. CASE u # t
    BY <2>1, <2>4 DEF RecordStep, LeavesUnregistered, Keeps, TypeOK
  <2> QED
    BY <2>3, <2>4
<1>4. ASSUME NEW u \in TaskId, ArchiveTask(u) PROVE RecordStep(t)
  <2>1. /\ active_task' = [active_task EXCEPT ![u] = None]
        /\ archived_task' = [archived_task EXCEPT ![u] = active_task[u]]
        /\ voted' = voted
        /\ now' = now
        /\ active_task[u] # None
    BY <1>4 DEF ArchiveTask, ArchiveTaskError, Ok, voteVars
  <2> QED
    BY <2>1 DEF RecordStep, LeavesUnregistered, Keeps, TypeOK
<1>5. ASSUME NEW g \in Address, NEW u \in TaskId, NEW escrow_up \in BOOLEAN,
             Vote(g, u, escrow_up)
      PROVE  RecordStep(t)
  <2>1. AcceptedVote(g, u)
    BY <1>5, VoteAccepted
  <2>2. /\ archived_task' = archived_task
        /\ voted' = voted \cup {<<u, g>>}
        /\ now' = now
    BY <1>5 DEF Vote
  <2>3. Accrue(active_task[u], reputation[g]) # None
    BY <2>1, NoneAssumption DEF AcceptedVote
  <2>4. CASE u = t
    <3>1. active_task[t] # None
      BY <2>1, <2>4, NoneAssumption DEF AcceptedVote
    <3>2. active_task'[t] = Accrue(active_task[t], reputation[g])
      BY <2>1, <2>4 DEF AcceptedVote, TypeOK
    <3>3. g \notin Voters(t) /\ Voters(t)' = Voters(t) \cup {g}
      BY <2>1, <2>2, <2>4 DEF AcceptedVote
    <3>4. Counts(t, g)
      BY <2>1, <2>3, <2>4, <3>1, <3>2, <3>3 DEF Counts, AcceptedVote
    <3> QED
      BY <2>2, <3>4 DEF RecordStep
  <2>5. CASE u # t
    <3>1. active_task'[t] = active_task[t]
      BY <2>1, <2>5 DEF AcceptedVote, TypeOK
    <3>2. Voters(t)' = Voters(t)
      BY <2>2, <2>5
    <3> QED
      BY <2>2, <3>1, <3>2 DEF RecordStep, LeavesUnregistered, Keeps
  <2> QED
    BY <2>4, <2>5
<1> QED
  BY <1>1, <1>2, <1>3, <1>4, <1>5, QuietSteps DEF TaskStep

-----------------------------------------------------------------------------
(* Resolution stamps                                                       *)

(* The inductive strengthening: a stamp taken from the clock differs from  *)
(* the marker 0 because the clock never shows 0.                           *)
StampInv == now # 0 /\ ResolvedStamp

LEMMA StampStep ==
  ASSUME TypeOK, StampInv, [Next]_vars
  PROVE  StampInv'
PROOF
<1>1. now' # 0
  BY ClockSteps DEF StampInv, TypeOK
<1>2. SUFFICES ASSUME NEW t \in TaskId, Registered(t)'
               PROVE  /\ Record(t)'.is_done <=> Record(t)'.resolved_at # 0
                      /\ Record(t)'.resolved_at <= now'
                      /\ Record(t)'.is_done => Record(t)'.votes > 0
  BY <1>1 DEF StampInv, ResolvedStamp
<1>3. RecordStep(t) /\ now \in Nat /\ now' \in {now, now + 1}
  BY RecordSteps DEF RecordStep, TypeOK
<1>4. CASE Opens(t)
  BY <1>3, <1>4 DEF Opens, NewTask
<1>5. ASSUME Registered(t)
      PROVE  /\ Record(t) \in TaskRecord
             /\ Record(t).is_done <=> Record(t).resolved_at # 0
             /\ Record(t).resolved_at <= now
             /\ Record(t).is_done => Record(t).votes > 0
  BY <1>5, RecordType DEF StampInv, ResolvedStamp
<1>6. CASE Keeps(t)
  BY <1>3, <1>5, <1>6 DEF Keeps, TaskRecord
<1>7. CASE Cancels(t)
  BY <1>3, <1>5, <1>7 DEF Cancels, TaskRecord
<1>8. ASSUME NEW g \in Address, Counts(t, g)
      PROVE  /\ Record(t)'.is_done <=> Record(t)'.resolved_at # 0
             /\ Record(t)'.resolved_at <= now'
             /\ Record(t)'.is_done => Record(t)'.votes > 0
  <2> DEFINE r == Record(t)
             w == reputation[g]
  <2>1. /\ r \in TaskRecord
        /\ r.is_done <=> r.resolved_at # 0
        /\ r.resolved_at <= now
    BY <1>5, <1>8 DEF Counts
  <2>2. w \in 0..U64Max /\ ~Overflows(r, w) /\ r.votes # U32Max
    BY <1>8, ConstantsAssumption DEF Counts
  <2>3. Record(t)' = Accrue(r, w)
    BY <1>8 DEF Counts
  <2> HIDE DEF r, w
  <2>4. /\ Accrue(r, w).votes = r.votes + 1
        /\ Accrue(r, w).is_done <=> (r.is_done \/ Resolves(r, w))
        /\ Accrue(r, w).resolved_at
             = IF Resolves(r, w) THEN now ELSE r.resolved_at
    BY <1>3, <2>1, <2>2, AccrueType
  <2>5. r.votes \in Nat /\ r.resolved_at \in Nat
    BY <2>1 DEF TaskRecord
  <2>6. now # 0
    BY DEF StampInv
  <2> QED
    BY <1>3, <2>1, <2>3, <2>4, <2>5, <2>6
<1> QED
  BY <1>2, <1>3, <1>4, <1>6, <1>7, <1>8 DEF RecordStep, LeavesUnregistered

(* A task is done exactly when it carries a resolution stamp, the stamp is *)
(* not in the future and somebody voted: what the age test of archive_task *)
(* relies on, for any thresholds, weights and number of guardians.         *)
THEOREM StampCorrect == Spec => []ResolvedStamp
PROOF
<1>1. Init => StampInv
  BY GenesisAssumption
  DEF Init, StampInv, ResolvedStamp, Registered, has_active_task,
      has_archived_task
<1>2. TypeOK /\ StampInv /\ [Next]_vars => StampInv'
  BY StampStep
<1>3. StampInv => ResolvedStamp
  BY DEF StampInv
<1> QED
  BY <1>1, <1>2, <1>3, TypeCorrect, PTL DEF Spec

-----------------------------------------------------------------------------
(* Monotone records                                                        *)

LEMMA RecordGrowsStep ==
  ASSUME TypeOK, ResolvedStamp, [Next]_vars, NEW t \in TaskId
  PROVE  RecordGrows(t)
PROOF
<1> SUFFICES ASSUME Registered(t)
             PROVE  /\ Registered(t)'
                    /\ Record(t)'.votes >= Record(t).votes
                    /\ Record(t)'.total_weight_accrued
                         >= Record(t).total_weight_accrued
                    /\ Record(t)'.resolved_at >= Record(t).resolved_at
                    /\ Record(t).is_done => Record(t)'.is_done
                    /\ Record(t).is_cancelled => Record(t)'.is_cancelled
  BY DEF RecordGrows
<1>1. RecordStep(t)
  BY RecordSteps
<1>2. Record(t) \in TaskRecord /\ Record(t).resolved_at <= now /\ now \in Nat
  BY RecordType DEF ResolvedStamp, TypeOK
<1>3. CASE Keeps(t)
  BY <1>2, <1>3 DEF Keeps, TaskRecord
<1>4. CASE Cancels(t)
  BY <1>2, <1>4 DEF Cancels, TaskRecord
<1>5. ASSUME NEW g \in Address, Counts(t, g)
      PROVE  /\ Registered(t)'
             /\ Record(t)'.votes >= Record(t).votes
             /\ Record(t)'.total_weight_accrued
                  >= Record(t).total_weight_accrued
             /\ Record(t)'.resolved_at >= Record(t).resolved_at
             /\ Record(t).is_done => Record(t)'.is_done
             /\ Record(t).is_cancelled => Record(t)'.is_cancelled
  <2> DEFINE r == Record(t)
             w == reputation[g]
  <2>1. r \in TaskRecord /\ r.resolved_at <= now
    BY <1>2
  <2>2. w \in 0..U64Max /\ ~Overflows(r, w) /\ r.votes # U32Max
    BY <1>5, ConstantsAssumption DEF Counts
  <2>3. Record(t)' = Accrue(r, w) /\ Registered(t)'
    BY <1>5 DEF Counts
  <2> HIDE DEF r, w
  <2>4. /\ Accrue(r, w).votes = r.votes + 1
        /\ Accrue(r, w).total_weight_accrued = r.total_weight_accrued + w
        /\ Accrue(r, w).is_cancelled = r.is_cancelled
        /\ Accrue(r, w).is_done <=> (r.is_done \/ Resolves(r, w))
        /\ Accrue(r, w).resolved_at
             = IF Resolves(r, w) THEN now ELSE r.resolved_at
    BY <1>2, <2>1, <2>2, AccrueType
  <2>5. /\ r.votes \in Nat /\ r.resolved_at \in Nat
        /\ r.total_weight_accrued \in Nat /\ w \in Nat
    BY <2>1, <2>2, ConstantsAssumption DEF TaskRecord
  <2>6. /\ Accrue(r, w).votes >= r.votes
        /\ Accrue(r, w).total_weight_accrued >= r.total_weight_accrued
        /\ Accrue(r, w).resolved_at >= r.resolved_at
        /\ r.is_done => Accrue(r, w).is_done
        /\ r.is_cancelled => Accrue(r, w).is_cancelled
    BY <1>2, <2>1, <2>4, <2>5
  <2> QED
    BY <2>3, <2>6 DEF r
<1> QED
  BY <1>1, <1>3, <1>4, <1>5 DEF RecordStep, LeavesUnregistered, Opens

(* Resolution and cancellation are never undone and no count, weight or    *)
(* stamp of a record ever decreases, also when the record is archived.     *)
THEOREM RecordsOnlyGrow == Spec => RecordMonotone
PROOF
<1>1. TypeOK /\ ResolvedStamp /\ [Next]_vars
        => [\A t \in TaskId : RecordGrows(t)]_vars
  BY RecordGrowsStep
<1> QED
  BY <1>1, TypeCorrect, StampCorrect, PTL DEF Spec, RecordMonotone

-----------------------------------------------------------------------------
(* Votes and voters                                                        *)

(* Cardinality means something for finite sets only; Address need not be   *)
(* finite, but a task's voters always are.                                 *)
CountInv == VotesMatchVoters /\ \A t \in TaskId : IsFiniteSet(Voters(t))

LEMMA CountStep ==
  ASSUME TypeOK, CountInv, [Next]_vars
  PROVE  CountInv'
PROOF
<1> SUFFICES ASSUME NEW t \in TaskId
             PROVE  /\ Registered(t)' =>
                         Record(t)'.votes = Cardinality(Voters(t)')
                    /\ ~Registered(t)' => Voters(t)' = {}
                    /\ IsFiniteSet(Voters(t)')
  BY DEF CountInv, VotesMatchVoters
<1>1. RecordStep(t)
  BY RecordSteps
<1>2. /\ Registered(t) => Record(t).votes = Cardinality(Voters(t))
      /\ ~Registered(t) => Voters(t) = {}
      /\ IsFiniteSet(Voters(t))
  BY DEF CountInv, VotesMatchVoters
<1>3. CASE LeavesUnregistered(t)
  BY <1>2, <1>3 DEF LeavesUnregistered
<1>4. CASE Opens(t)
  BY <1>2, <1>4, FS_EmptySet DEF Opens, NewTask
<1>5. CASE Keeps(t)
  BY <1>2, <1>5 DEF Keeps
<1>6. CASE Cancels(t)
  <2>1. Record(t) \in TaskRecord
    BY <1>6, RecordType DEF Cancels
  <2>2. Record(t)'.votes = Record(t).votes
    BY <1>6, <2>1 DEF Cancels, TaskRecord
  <2> QED
    BY <1>2, <1>6, <2>2 DEF Cancels
<1>7. ASSUME NEW g \in Address, Counts(t, g)
      PROVE  /\ Registered(t)'
             /\ Record(t)'.votes = Cardinality(Voters(t)')
             /\ IsFiniteSet(Voters(t)')
  <2> DEFINE r == Record(t)
             w == reputation[g]
  <2>1. r \in TaskRecord
    BY <1>7, RecordType DEF Counts
  <2>2. w \in 0..U64Max /\ ~Overflows(r, w) /\ r.votes # U32Max
    BY <1>7, ConstantsAssumption DEF Counts
  <2>3. Record(t)' = Accrue(r, w) /\ Registered(t)'
    BY <1>7 DEF Counts
  <2>4. Voters(t)' = Voters(t) \cup {g} /\ g \notin Voters(t)
    BY <1>7 DEF Counts
  <2>5. /\ IsFiniteSet(Voters(t) \cup {g})
        /\ Cardinality(Voters(t) \cup {g}) = Cardinality(Voters(t)) + 1
    BY <1>2, <2>4, FS_AddElement
  <2>6. r.votes = Cardinality(Voters(t))
    BY <1>2, <1>7 DEF Counts
  <2> HIDE DEF r, w
  <2>7. Accrue(r, w).votes = r.votes + 1
    BY <2>1, <2>2, AccrueType DEF TypeOK
  <2> QED
    BY <2>3, <2>4, <2>5, <2>6, <2>7
<1> QED
  BY <1>1, <1>3, <1>4, <1>5, <1>6, <1>7
  DEF RecordStep, LeavesUnregistered, Opens, Keeps, Cancels

LEMMA CountInvariant == Spec => []CountInv
PROOF
<1>1. Init => CountInv
  <2> SUFFICES ASSUME Init, NEW t \in TaskId
               PROVE  ~Registered(t) /\ Voters(t) = {}
    BY FS_EmptySet DEF CountInv, VotesMatchVoters
  <2> QED
    BY DEF Init, Registered, has_active_task, has_archived_task, Voters
<1>2. TypeOK /\ CountInv /\ [Next]_vars => CountInv'
  BY CountStep
<1> QED
  BY <1>1, <1>2, TypeCorrect, PTL DEF Spec

(* One guardian, one vote: the votes field is the number of distinct       *)
(* voters, for any number of guardians admitted, removed and re-admitted.  *)
THEOREM OneGuardianOneVote == Spec => []VotesMatchVoters
PROOF
<1>1. CountInv => VotesMatchVoters
  BY DEF CountInv
<1> QED
  BY <1>1, CountInvariant, PTL

-----------------------------------------------------------------------------
(* The lists get_snapshot pages through name what they index exactly once. *)

(* push_back of a new element keeps a list exact.                          *)
LEMMA AppendListsExactly ==
  ASSUME NEW S, NEW list \in Seq(S), NEW T, ListsExactly(list, T),
         NEW x \in S, x \notin T
  PROVE  ListsExactly(Append(list, x), T \cup {x})
PROOF
<1> DEFINE longer == Append(list, x)
<1>1. /\ DOMAIN list = 1..Len(list)
      /\ DOMAIN longer = 1..(Len(list) + 1)
      /\ Len(list) \in Nat
      /\ \A i \in 1..Len(list) : longer[i] = list[i]
      /\ longer[Len(list) + 1] = x
  OBVIOUS
<1>2. \A i \in 1..Len(list) : list[i] \in T
  BY <1>1 DEF ListsExactly, Range
<1>3. \A i, j \in 1..Len(list) : list[i] = list[j] => i = j
  BY <1>1 DEF ListsExactly, IsInjective
<1> HIDE DEF longer
<1>4. \A i, j \in DOMAIN longer : longer[i] = longer[j] => i = j
  <2> SUFFICES ASSUME NEW i \in DOMAIN longer, NEW j \in DOMAIN longer,
                      longer[i] = longer[j]
               PROVE  i = j
    OBVIOUS
  <2>1. /\ i \in 1..Len(list) \/ i = Len(list) + 1
        /\ j \in 1..Len(list) \/ j = Len(list) + 1
    BY <1>1
  <2> QED
    BY <1>1, <1>2, <1>3, <2>1
<1>5. Range(longer) = T \cup {x}
  <2>1. ASSUME NEW y \in T PROVE y \in Range(longer)
    <3>1. PICK i \in 1..Len(list) : list[i] = y
      BY <1>1 DEF ListsExactly, Range
    <3> QED
      BY <1>1, <3>1 DEF Range
  <2>2. x \in Range(longer)
    BY <1>1 DEF Range
  <2>3. ASSUME NEW y \in Range(longer) PROVE y \in T \cup {x}
    <3>1. PICK i \in DOMAIN longer : longer[i] = y
      BY DEF Range
    <3>2. i \in 1..Len(list) \/ i = Len(list) + 1
      BY <1>1
    <3> QED
      BY <1>1, <1>2, <3>1, <3>2
  <2> QED
    BY <2>1, <2>2, <2>3
<1> QED
  BY <1>4, <1>5 DEF ListsExactly, IsInjective, longer

LEMMA EmptyListsExactly == ListsExactly(<<>>, {})
PROOF
  BY DEF ListsExactly, IsInjective, Range

-----------------------------------------------------------------------------
(* AllTasks and the two key spaces                                         *)

(* TasksPartition without its consequence for archive_task.                *)
PartitionInv ==
  /\ \A t \in TaskId : ~(has_active_task(t) /\ has_archived_task(t))
  /\ ListsExactly(all_tasks, {t \in TaskId : Registered(t)})

LEMMA PartitionStep ==
  ASSUME TypeOK, PartitionInv, [Next]_vars
  PROVE  PartitionInv'
PROOF
<1> DEFINE Ids == {t \in TaskId : Registered(t)}
<1>1. /\ \A t \in TaskId : Registered(t) =>
           ~(has_active_task(t) /\ has_archived_task(t))
      /\ ListsExactly(all_tasks, Ids)
  BY DEF PartitionInv
<1> USE DEF Registered, has_active_task, has_archived_task
<1>2. ASSUME NEW u \in TaskId, RegisterTask(u) PROVE PartitionInv'
  <2>1. /\ active_task' = [active_task EXCEPT ![u] = NewTask]
        /\ archived_task' = archived_task
        /\ all_tasks' = Append(all_tasks, u)
        /\ active_task[u] = None /\ archived_task[u] = None
    BY <1>2 DEF RegisterTask, RegisterTaskError, Ok
  <2>2. NewTask # None
    <3>1. NewTask \in TaskRecord
      BY ConstantsAssumption DEF NewTask, TaskRecord
    <3> QED
      BY <3>1, NoneAssumption
  <2>3. u \notin Ids
    BY <2>1
  <2>4. Ids' = Ids \cup {u}
    BY <2>1, <2>2 DEF TypeOK
  <2>5. ListsExactly(all_tasks', Ids \cup {u})
    <3>1. all_tasks \in Seq(TaskId)
      BY DEF TypeOK
    <3> HIDE DEF Ids
    <3> QED
      BY <1>1, <2>1, <2>3, <3>1, AppendListsExactly
  <2>6. \A t \in TaskId : ~(active_task'[t] # None /\ archived_task'[t] # None)
    BY <2>1 DEF PartitionInv, TypeOK
  <2>7. ListsExactly(all_tasks', Ids')
    BY <2>4, <2>5
  <2> QED
    BY <2>6, <2>7 DEF PartitionInv
<1>3. ASSUME \A t \in TaskId : Registered(t)' <=> Registered(t),
             \A t \in TaskId :
               ~(active_task'[t] # None /\ archived_task'[t] # None),
             all_tasks' = all_tasks
      PROVE  PartitionInv'
  <2>1. Ids' = Ids
    BY <1>3
  <2>2. ListsExactly(all_tasks', Ids')
    BY <1>1, <1>3, <2>1
  <2> QED
    BY <1>3, <2>2 DEF PartitionInv
<1>4. ASSUME NEW u \in TaskId, CancelTask(u) PROVE PartitionInv'
  <2>1. /\ active_task' = [active_task EXCEPT ![u] =
                             [active_task[u] EXCEPT !.is_cancelled = TRUE]]
        /\ archived_task' = archived_task
        /\ all_tasks' = all_tasks
        /\ active_task[u] # None
    BY <1>4 DEF CancelTask, CancelTaskError, Ok
  <2>2. [active_task[u] EXCEPT !.is_cancelled = TRUE] # None
    <3>1. active_task[u] \in TaskRecord
      BY <2>1 DEF TypeOK
    <3>2. [active_task[u] EXCEPT !.is_cancelled = TRUE] \in TaskRecord
      BY <3>1 DEF TaskRecord
    <3> QED
      BY <3>2, NoneAssumption
  <2>3. \A t \in TaskId : (active_task'[t] # None) <=> (active_task[t] # None)
    BY <2>1, <2>2 DEF TypeOK
  <2> QED
    BY <1>3, <2>1, <2>3 DEF PartitionInv
<1>5. ASSUME NEW u \in TaskId, ArchiveTask(u) PROVE PartitionInv'
  <2>1. /\ active_task' = [active_task EXCEPT ![u] = None]
        /\ archived_task' = [archived_task EXCEPT ![u] = active_task[u]]
        /\ all_tasks' = all_tasks
        /\ active_task[u] # None
    BY <1>5 DEF ArchiveTask, ArchiveTaskError, Ok
  <2>2. \A t \in TaskId :
          /\ Registered(t)' <=> Registered(t)
          /\ ~(active_task'[t] # None /\ archived_task'[t] # None)
    BY <2>1 DEF TypeOK, PartitionInv
  <2> QED
    BY <1>3, <2>1, <2>2
<1>6. ASSUME NEW g \in Address, NEW u \in TaskId, NEW escrow_up \in BOOLEAN,
             Vote(g, u, escrow_up)
      PROVE  PartitionInv'
  <2>1. AcceptedVote(g, u)
    BY <1>6, VoteAccepted
  <2>2. archived_task' = archived_task /\ all_tasks' = all_tasks
    BY <1>6 DEF Vote
  <2>3. Accrue(active_task[u], reputation[g]) # None
    BY <2>1, NoneAssumption DEF AcceptedVote
  <2>4. active_task[u] # None
    BY <2>1, NoneAssumption DEF AcceptedVote
  <2>5. \A t \in TaskId : (active_task'[t] # None) <=> (active_task[t] # None)
    BY <2>1, <2>3, <2>4 DEF AcceptedVote, TypeOK
  <2> QED
    BY <1>3, <2>2, <2>5 DEF PartitionInv
<1>7. CASE Quiet
  BY <1>3, <1>7 DEF Quiet, PartitionInv
<1> QED
  BY <1>2, <1>4, <1>5, <1>6, <1>7, QuietSteps DEF TaskStep

(* An id is registered once and for all: active or archived, never both,   *)
(* listed once, and archive_task's TaskAlreadyArchived answer is dead.     *)
THEOREM RegisteredOnce == Spec => []TasksPartition
PROOF
<1>1. Init => PartitionInv
  <2> SUFFICES ASSUME Init PROVE PartitionInv
    OBVIOUS
  <2>1. all_tasks = <<>>
    BY DEF Init
  <2>2. \A t \in TaskId : active_task[t] = None /\ archived_task[t] = None
    BY DEF Init
  <2>3. {t \in TaskId : Registered(t)} = {}
    BY <2>2 DEF Registered, has_active_task, has_archived_task
  <2> QED
    BY <2>1, <2>2, <2>3, EmptyListsExactly
    DEF PartitionInv, has_active_task, has_archived_task
<1>2. TypeOK /\ PartitionInv /\ [Next]_vars => PartitionInv'
  BY PartitionStep
<1>3. PartitionInv => TasksPartition
  BY DEF PartitionInv, TasksPartition, ArchiveTaskError, Ok
<1> QED
  BY <1>1, <1>2, <1>3, TypeCorrect, PTL DEF Spec

-----------------------------------------------------------------------------
(* AllVotes                                                                *)

LEMMA VoteLogStep ==
  ASSUME TypeOK, VoteLogExact, [Next]_vars
  PROVE  VoteLogExact'
PROOF
<1>1. CASE Quiet
  BY <1>1 DEF Quiet, VoteLogExact
<1>2. CASE TaskStep
  BY <1>2
  DEF TaskStep, RegisterTask, CancelTask, ArchiveTask, voteVars, VoteLogExact
<1>3. ASSUME NEW g \in Address, NEW t \in TaskId, NEW escrow_up \in BOOLEAN,
             Vote(g, t, escrow_up)
      PROVE  VoteLogExact'
  <2>1. <<t, g>> \notin voted
    BY <1>3, VoteAccepted DEF AcceptedVote
  <2>2. /\ all_votes' = Append(all_votes, <<t, g>>)
        /\ voted' = voted \cup {<<t, g>>}
    BY <1>3 DEF Vote
  <2>3. all_votes \in Seq(TaskId \X Address) /\ <<t, g>> \in TaskId \X Address
    BY DEF TypeOK
  <2>4. ListsExactly(Append(all_votes, <<t, g>>), voted \cup {<<t, g>>})
    BY <2>1, <2>3, AppendListsExactly DEF VoteLogExact
  <2> QED
    BY <2>2, <2>4 DEF VoteLogExact
<1> QED
  BY <1>1, <1>2, <1>3, QuietSteps

(* The vote log and the Voted entries agree: a reader of AllVotes sees     *)
(* every vote ever cast, each once.                                        *)
THEOREM VoteLogCorrect == Spec => []VoteLogExact
PROOF
<1>1. Init => VoteLogExact
  BY EmptyListsExactly DEF Init, VoteLogExact
<1>2. TypeOK /\ VoteLogExact /\ [Next]_vars => VoteLogExact'
  BY VoteLogStep
<1> QED
  BY <1>1, <1>2, TypeCorrect, PTL DEF Spec

-----------------------------------------------------------------------------
(* AllRewardStreams                                                        *)

LEMMA StreamQuietSteps ==
  ASSUME [Next]_vars
  PROVE  UNCHANGED streamVars \/ StreamStep
PROOF
<1> USE DEF streamVars
<1>1. CASE BreakerStep
  BY <1>1 DEF BreakerStep, TogglePause, Pause, Unpause, SetPaused,
              RecordFailure, ResetCircuitBreaker
<1>2. CASE GuardianStep
  BY <1>2 DEF GuardianStep, AddGuardian, RemoveGuardian, SetReputation
<1>3. CASE TokenStep
  BY <1>3 DEF TokenStep, Initialize, LockTokens, ResignGuardian, UnlockTokens
<1>4. CASE TaskStep
  BY <1>4 DEF TaskStep, RegisterTask, CancelTask, ArchiveTask
<1>5. CASE VotingStep
  BY <1>5 DEF VotingStep, SetWeightThreshold, SetVaultAddress, Vote
<1>6. CASE Tick
  BY <1>6 DEF Tick
<1>7. CASE UNCHANGED vars
  BY <1>7 DEF vars
<1> QED
  BY <1>1, <1>2, <1>3, <1>4, <1>5, <1>6, <1>7, [Next]_vars DEF Next

LEMMA StreamsStep ==
  ASSUME TypeOK, ResolvedStamp, StreamsOnlyForResolved, [Next]_vars
  PROVE  StreamsOnlyForResolved'
PROOF
<1> DEFINE Streaming == {t \in TaskId : reward_stream[t] # None}
<1>1. /\ \A t \in TaskId : reward_stream[t] # None => Done(t)
      /\ ListsExactly(all_streams, Streaming)
  BY DEF StreamsOnlyForResolved
<1>2. \A t \in TaskId : Done(t) => Done(t)'
  BY RecordGrowsStep DEF RecordGrows, Done
<1>3. CASE UNCHANGED streamVars
  <2>1. all_streams' = all_streams /\ reward_stream' = reward_stream
    BY <1>3 DEF streamVars
  <2>2. Streaming' = Streaming
    BY <2>1
  <2>3. ListsExactly(all_streams', Streaming')
    BY <1>1, <2>1, <2>2
  <2> QED
    BY <1>1, <1>2, <2>1, <2>3 DEF StreamsOnlyForResolved
<1>4. CASE StreamStep
  <2>1. PICK c \in Contributor, u \in TaskId, drips_up \in BOOLEAN :
          StartRewardStream(c, u, drips_up)
    BY <1>4 DEF StreamStep
  <2>2. /\ all_streams' = Append(all_streams, u)
        /\ reward_stream' = [reward_stream EXCEPT ![u] = c]
        /\ reward_stream[u] = None
        /\ Done(u)
    BY <2>1
    DEF StartRewardStream, StartRewardStreamError, Ok, Done, Registered,
        Record, has_active_task
  <2>3. c # None
    BY NoneAssumption
  <2>4. Streaming' = Streaming \cup {u} /\ u \notin Streaming
    BY <2>2, <2>3 DEF TypeOK
  <2>5. all_streams \in Seq(TaskId)
    BY DEF TypeOK
  <2>6. \A t \in TaskId : reward_stream'[t] # None => Done(t)'
    BY <1>1, <1>2, <2>2 DEF TypeOK
  <2> HIDE DEF Streaming
  <2>7. ListsExactly(all_streams', Streaming')
    BY <1>1, <2>2, <2>4, <2>5, AppendListsExactly
  <2> QED
    BY <2>6, <2>7 DEF StreamsOnlyForResolved, Streaming
<1> QED
  BY <1>3, <1>4, StreamQuietSteps

(* No contributor is paid for a task that was not resolved, and a task is  *)
(* paid once, across cancellation, archiving and changes of threshold.     *)
THEOREM StreamsEarned == Spec => []StreamsOnlyForResolved
PROOF
<1>1. Init => StreamsOnlyForResolved
  <2> SUFFICES ASSUME Init PROVE StreamsOnlyForResolved
    OBVIOUS
  <2>1. {t \in TaskId : reward_stream[t] # None} = {}
    BY DEF Init
  <2> QED
    BY <2>1, EmptyListsExactly DEF Init, StreamsOnlyForResolved
<1>2. TypeOK /\ ResolvedStamp /\ StreamsOnlyForResolved /\ [Next]_vars
        => StreamsOnlyForResolved'
  BY StreamsStep
<1> QED
  BY <1>1, <1>2, TypeCorrect, StampCorrect, PTL DEF Spec

-----------------------------------------------------------------------------
(* AllGuardians                                                            *)

LEMMA RangeAppend ==
  ASSUME NEW S, NEW list \in Seq(S), NEW x \in S
  PROVE  Range(Append(list, x)) = Range(list) \cup {x}
PROOF
<1> DEFINE longer == Append(list, x)
<1>1. /\ DOMAIN list = 1..Len(list)
      /\ DOMAIN longer = 1..(Len(list) + 1)
      /\ Len(list) \in Nat
      /\ \A i \in 1..Len(list) : longer[i] = list[i]
      /\ longer[Len(list) + 1] = x
  OBVIOUS
<1> HIDE DEF longer
<1>2. ASSUME NEW y \in Range(longer) PROVE y \in Range(list) \cup {x}
  <2>1. PICK i \in DOMAIN longer : longer[i] = y
    BY DEF Range
  <2>2. i \in 1..Len(list) \/ i = Len(list) + 1
    BY <1>1
  <2> QED
    BY <1>1, <2>1, <2>2 DEF Range
<1>3. ASSUME NEW y \in Range(list) \cup {x} PROVE y \in Range(longer)
  <2>1. CASE y = x
    BY <1>1, <2>1 DEF Range
  <2>2. CASE y \in Range(list)
    <3>1. PICK i \in DOMAIN list : list[i] = y
      BY <2>2 DEF Range
    <3>2. i \in DOMAIN longer /\ longer[i] = y
      BY <1>1, <3>1
    <3> QED
      BY <3>2 DEF Range
  <2> QED
    BY <2>1, <2>2
<1> QED
  BY <1>2, <1>3 DEF longer

LEMMA ListedStep ==
  ASSUME TypeOK, GuardiansListed, [Next]_vars
  PROVE  GuardiansListed'
PROOF
<1> USE DEF guardianVars, voteVars, HasGuardianEntry
<1>1. /\ \A g \in Address : guardian[g] # "absent" => g \in Range(all_guardians)
      /\ \A v \in voted : v[2] \in Range(all_guardians)
      /\ guardian \in [Address -> GuardianStatus]
  BY DEF GuardiansListed, TypeOK
<1>2. ASSUME UNCHANGED <<guardian, all_guardians, voted>>
      PROVE  GuardiansListed'
  BY <1>1, <1>2 DEF GuardiansListed
<1>3. ASSUME NEW g \in Address, AddGuardian(g) PROVE GuardiansListed'
  <2>1. guardian' = [guardian EXCEPT ![g] = "active"] /\ voted' = voted
    BY <1>3 DEF AddGuardian
  <2>2. Range(all_guardians') = Range(all_guardians) \cup {g}
    <3>1. CASE guardian[g] # "absent"
      BY <1>1, <1>3, <3>1 DEF AddGuardian
    <3>2. CASE guardian[g] = "absent"
      BY <1>3, <3>2, RangeAppend DEF AddGuardian, TypeOK
    <3> QED
      BY <3>1, <3>2
  <2> QED
    BY <1>1, <2>1, <2>2 DEF GuardiansListed
<1>4. ASSUME NEW g \in Address, guardian' = [guardian EXCEPT ![g] = "absent"],
             UNCHANGED <<all_guardians, voted>>
      PROVE  GuardiansListed'
  BY <1>1, <1>4 DEF GuardiansListed
<1>5. ASSUME NEW g \in Address, guardian' = [guardian EXCEPT ![g] = "resigned"],
             guardian[g] = "active", UNCHANGED <<all_guardians, voted>>
      PROVE  GuardiansListed'
  BY <1>1, <1>5 DEF GuardiansListed
<1>6. CASE GuardianStep
  BY <1>2, <1>3, <1>4, <1>6 DEF GuardianStep, RemoveGuardian, SetReputation
<1>7. ASSUME NEW g \in Address, ResignGuardian(g) PROVE GuardiansListed'
  BY <1>5, <1>7 DEF ResignGuardian, ResignGuardianError, is_guardian, Ok
<1>8. CASE TokenStep
  BY <1>2, <1>7, <1>8 DEF TokenStep, Initialize, LockTokens, UnlockTokens
<1>9. ASSUME NEW g \in Address, NEW t \in TaskId, NEW escrow_up \in BOOLEAN,
             Vote(g, t, escrow_up)
      PROVE  GuardiansListed'
  <2>1. guardian[g] = "active"
    BY <1>9, VoteAccepted DEF AcceptedVote, is_guardian
  <2>2. /\ voted' = voted \cup {<<t, g>>}
        /\ UNCHANGED <<guardian, all_guardians>>
    BY <1>9 DEF Vote
  <2> QED
    BY <1>1, <2>1, <2>2 DEF GuardiansListed
<1>10. CASE VotingStep
  BY <1>2, <1>9, <1>10 DEF VotingStep, SetWeightThreshold, SetVaultAddress
<1>11. CASE BreakerStep
  BY <1>2, <1>11 DEF BreakerStep, TogglePause, Pause, Unpause, SetPaused,
                     RecordFailure, ResetCircuitBreaker
<1>12. CASE TaskStep
  BY <1>2, <1>12 DEF TaskStep, RegisterTask, CancelTask, ArchiveTask
<1>13. CASE StreamStep
  BY <1>2, <1>13 DEF StreamStep, StartRewardStream
<1>14. CASE Tick
  BY <1>2, <1>14 DEF Tick
<1>15. CASE UNCHANGED vars
  BY <1>2, <1>15 DEF vars
<1> QED
  BY <1>6, <1>8, <1>10, <1>11, <1>12, <1>13, <1>14, <1>15, [Next]_vars
  DEF Next

(* Every address with a Guardian entry and everybody who ever voted is in  *)
(* AllGuardians, through removals, resignations and re-admissions.         *)
THEOREM GuardiansStayListed == Spec => []GuardiansListed
PROOF
<1>1. Init => GuardiansListed
  BY DEF Init, GuardiansListed, HasGuardianEntry
<1>2. TypeOK /\ GuardiansListed /\ [Next]_vars => GuardiansListed'
  BY ListedStep
<1> QED
  BY <1>1, <1>2, TypeCorrect, PTL DEF Spec
=============================================================================
