------------------------------ MODULE ViewProofs ------------------------------
(***************************************************************************)
(* Theorems about what the outside sees of the contract: the snapshots     *)
(* clients page through.                                                   *)
(***************************************************************************)
EXTENDS SnapshotReader, TaskProofs, SequenceTheorems

-----------------------------------------------------------------------------
(* Pages                                                                   *)

(* The indices slice(start..end) covers, counted from one.                 *)
PageFrom(list, off) == Least(off, Len(list)) + 1

PageTo(list, off, limit) ==
  Least(SaturatingAdd(off, ClampedLimit(limit)), Len(list))

(* A page holds what the list holds between its bounds, and nothing else.  *)
LEMMA PageElements ==
  ASSUME NEW S, NEW list \in Seq(S), NEW off \in 0..U32Max,
         NEW limit \in 1..U32Max
  PROVE  /\ PageFrom(list, off) \in 1..(Len(list) + 1)
         /\ PageTo(list, off, limit) \in 0..Len(list)
         /\ \A i \in PageFrom(list, off)..PageTo(list, off, limit) :
              list[i] \in Range(Page(list, off, limit))
         /\ \A x \in Range(Page(list, off, limit)) :
              \E i \in PageFrom(list, off)..PageTo(list, off, limit) :
                i \in 1..Len(list) /\ x = list[i]
PROOF
<1> DEFINE from == PageFrom(list, off)
           to == PageTo(list, off, limit)
           page == SubSeq(list, from, to)
<1>1. Len(list) \in Nat /\ DOMAIN list = 1..Len(list)
  OBVIOUS
<1>2. from \in 1..(Len(list) + 1) /\ to \in 0..Len(list)
  BY <1>1, ConstantsAssumption, BatchAssumption
  DEF PageFrom, PageTo, Least, SaturatingAdd, ClampedLimit
<1>3. Page(list, off, limit) = page
  BY DEF Page, PageFrom, PageTo
<1> HIDE DEF from, to
<1>4. /\ page \in Seq(S)
      /\ Len(page) = IF from <= to THEN to - from + 1 ELSE 0
      /\ \A i \in 1..(to - from + 1) : page[i] = list[from + i - 1]
  <2>1. from \in Int /\ to \in Int /\ \A i \in from..to : list[i] \in S
    BY <1>1, <1>2
  <2> QED
    BY <2>1, SubSeqProperties
<1> HIDE DEF page
<1>5. DOMAIN page = 1..Len(page) /\ Len(page) \in Nat
  BY <1>4
<1>6. ASSUME NEW i \in from..to PROVE list[i] \in Range(page)
  <2>1. i - from + 1 \in 1..(to - from + 1) /\ from <= to
    BY <1>2
  <2>2. page[i - from + 1] = list[from + (i - from + 1) - 1]
    BY <1>4, <2>1
  <2>3. page[i - from + 1] = list[i]
    BY <1>2, <2>2
  <2>4. i - from + 1 \in DOMAIN page
    BY <1>4, <1>5, <2>1
  <2> QED
    BY <2>3, <2>4 DEF Range
<1>7. ASSUME NEW x \in Range(page)
      PROVE  \E i \in from..to : i \in 1..Len(list) /\ x = list[i]
  <2>1. PICK j \in DOMAIN page : x = page[j]
    BY DEF Range
  <2>2. j \in 1..(to - from + 1) /\ from <= to
    BY <1>2, <1>4, <1>5
  <2>3. x = list[from + j - 1]
    BY <1>4, <2>1, <2>2
  <2>4. from + j - 1 \in from..to /\ from + j - 1 \in 1..Len(list)
    BY <1>1, <1>2, <2>2
  <2> QED
    BY <2>3, <2>4
<1> QED
  BY <1>2, <1>3, <1>6, <1>7 DEF from, to

(* A list no longer than a batch is its own first page.                    *)
LEMMA WholePage ==
  ASSUME NEW S, NEW list \in Seq(S), Len(list) <= MAX_SNAPSHOT_BATCH_SIZE
  PROVE  Range(Page(list, 0, U32Max)) = Range(list)
PROOF
<1>1. Len(list) \in Nat /\ DOMAIN list = 1..Len(list)
  OBVIOUS
<1>2. 0 \in 0..U32Max /\ U32Max \in 1..U32Max
  BY ConstantsAssumption, BatchAssumption
<1>3. PageFrom(list, 0) = 1 /\ PageTo(list, 0, U32Max) = Len(list)
  <2>1. /\ U32Max \in Nat /\ MAX_SNAPSHOT_BATCH_SIZE \in Nat
        /\ MAX_SNAPSHOT_BATCH_SIZE <= U32Max
    BY ConstantsAssumption, BatchAssumption
  <2>2. SaturatingAdd(0, ClampedLimit(U32Max)) = MAX_SNAPSHOT_BATCH_SIZE
    BY <2>1 DEF Least, SaturatingAdd, ClampedLimit
  <2> QED
    BY <1>1, <2>1, <2>2 DEF PageFrom, PageTo, Least
<1>4. /\ \A i \in 1..Len(list) : list[i] \in Range(Page(list, 0, U32Max))
      /\ \A x \in Range(Page(list, 0, U32Max)) :
           \E i \in 1..Len(list) : x = list[i]
  BY <1>2, <1>3, PageElements
<1> QED
  BY <1>1, <1>4 DEF Range

(* Whatever the page, its keys come from the list.                         *)
LEMMA PageOfList ==
  ASSUME NEW S, NEW list \in Seq(S), NEW off \in 0..U32Max,
         NEW limit \in 1..U32Max
  PROVE  Range(Page(list, off, limit)) \subseteq Range(list)
PROOF
<1>1. DOMAIN list = 1..Len(list)
  OBVIOUS
<1>2. \A x \in Range(Page(list, off, limit)) :
        \E i \in 1..Len(list) : x = list[i]
  BY PageElements
<1> QED
  BY <1>1, <1>2 DEF Range

-----------------------------------------------------------------------------
(* Snapshots                                                               *)

(* The maps of a snapshot, in terms of the pages they are built from.      *)
LEMMA SnapshotMaps ==
  ASSUME TypeOK, NEW off \in 0..U32Max, NEW limit \in 1..U32Max
  PROVE  LET s == get_snapshot(off, limit)
         IN  /\ DOMAIN s.guardians = Range(Page(all_guardians, off, limit))
             /\ DOMAIN s.tasks = {t \in Range(Page(all_tasks, off, limit)) :
                                    has_active_task(t)}
             /\ \A t \in DOMAIN s.tasks : s.tasks[t] = active_task[t]
             /\ s.votes = Range(Page(all_votes, off, limit))
             /\ DOMAIN s.reward_streams
                  = {t \in Range(Page(all_streams, off, limit)) :
                       reward_stream[t] # None}
PROOF
<1> DEFINE s == get_snapshot(off, limit)
           keys(list) == Range(Page(list, off, limit))
           found == [t \in TaskId |-> get_task(t)]
<1>1. /\ s.guardians = GuardianMap(keys(all_guardians))
      /\ s.tasks = Entries(keys(all_tasks), found)
      /\ s.votes = keys(all_votes)
      /\ s.reward_streams = Entries(keys(all_streams), reward_stream)
  BY DEF get_snapshot, VotesOfPage
<1>2. keys(all_tasks) \subseteq TaskId
  <2>1. all_tasks \in Seq(TaskId)
    BY DEF TypeOK
  <2>2. Range(all_tasks) \subseteq TaskId
    BY <2>1 DEF Range
  <2> QED
    BY <2>1, <2>2, PageOfList
<1>3. \A t \in keys(all_tasks) : found[t] = active_task[t]
  BY <1>2 DEF get_task
<1> HIDE DEF s, keys, found
<1>4. /\ DOMAIN s.guardians = keys(all_guardians)
      /\ DOMAIN s.tasks = {t \in keys(all_tasks) : has_active_task(t)}
      /\ \A t \in DOMAIN s.tasks : s.tasks[t] = active_task[t]
      /\ DOMAIN s.reward_streams
           = {t \in keys(all_streams) : reward_stream[t] # None}
  BY <1>1, <1>3 DEF GuardianMap, Entries, has_active_task
<1> QED
  BY <1>1, <1>4 DEF s, keys

(* The entries of one task in the vote map are as many as its voters.      *)
LEMMA VotesOfTask ==
  ASSUME TypeOK, CountInv, NEW t \in TaskId
  PROVE  Cardinality({v \in voted : v[1] = t}) = Cardinality(Voters(t))
PROOF
<1> DEFINE entries == {v \in voted : v[1] = t}
           entry == [g \in Voters(t) |-> <<t, g>>]
<1>1. entry \in [Voters(t) -> entries]
  BY DEF Voters
<1>2. \A g, h \in Voters(t) : entry[g] = entry[h] => g = h
  OBVIOUS
<1>3. ASSUME NEW v \in entries PROVE \E g \in Voters(t) : entry[g] = v
  <2>1. v[2] \in Address /\ v = <<t, v[2]>> /\ <<t, v[2]>> \in voted
    <3>1. v \in voted /\ v[1] = t
      OBVIOUS
    <3>2. PICK u \in TaskId, g \in Address : v = <<u, g>>
      BY <3>1 DEF TypeOK
    <3> QED
      BY <3>1, <3>2
  <2>2. v[2] \in Voters(t)
    BY <2>1 DEF Voters
  <2>3. entry[v[2]] = <<t, v[2]>>
    BY <2>2
  <2> QED
    BY <2>1, <2>2, <2>3
<1> HIDE DEF entries, entry
<1>4. entry \in Bijection(Voters(t), entries)
  BY <1>1, <1>2, <1>3 DEF Bijection, Injection, Surjection, IsInjective
<1>5. ExistsBijection(Voters(t), entries)
  BY <1>4 DEF ExistsBijection
<1>6. IsFiniteSet(Voters(t))
  BY DEF CountInv
<1> QED
  BY <1>5, <1>6, FS_Bijection DEF entries

(* What the invariants of the lists say of a snapshot that covers them.    *)
LEMMA CoveringSnapshot ==
  ASSUME TypeOK, CountInv, TasksPartition, VoteLogExact, GuardiansListed,
         StreamsOnlyForResolved
  PROVE  SnapshotAddsUp
PROOF
<1> SUFFICES ASSUME OnePage
             PROVE  LET s == get_snapshot(0, U32Max)
                    IN  /\ \A t \in DOMAIN s.tasks :
                             s.tasks[t].votes
                               = Cardinality({v \in s.votes : v[1] = t})
                        /\ \A v \in s.votes :
                             /\ v[2] \in DOMAIN s.guardians
                             /\ v[1] \notin DOMAIN s.tasks
                                  => has_archived_task(v[1])
                        /\ \A t \in DOMAIN s.reward_streams \ DOMAIN s.tasks :
                             has_archived_task(t)
  BY DEF SnapshotAddsUp
<1> DEFINE s == get_snapshot(0, U32Max)
<1>1. 0 \in 0..U32Max /\ U32Max \in 1..U32Max
  BY ConstantsAssumption, BatchAssumption
<1>2. /\ Range(Page(all_guardians, 0, U32Max)) = Range(all_guardians)
      /\ Range(Page(all_tasks, 0, U32Max)) = Range(all_tasks)
      /\ Range(Page(all_votes, 0, U32Max)) = Range(all_votes)
  BY WholePage DEF OnePage, TypeOK
<1>3. Range(Page(all_streams, 0, U32Max)) \subseteq Range(all_streams)
  BY <1>1, PageOfList DEF TypeOK
<1>4. /\ Range(all_tasks) = {t \in TaskId : Registered(t)}
      /\ Range(all_votes) = voted
      /\ Range(all_streams) = {t \in TaskId : reward_stream[t] # None}
  BY DEF TasksPartition, VoteLogExact, StreamsOnlyForResolved, ListsExactly
<1>5. /\ DOMAIN s.guardians = Range(all_guardians)
      /\ DOMAIN s.tasks = {t \in TaskId : has_active_task(t)}
      /\ \A t \in DOMAIN s.tasks : s.tasks[t] = active_task[t]
      /\ s.votes = voted
      /\ DOMAIN s.reward_streams \subseteq {t \in TaskId : reward_stream[t] # None}
  BY <1>1, <1>2, <1>3, <1>4, SnapshotMaps DEF Registered
<1> HIDE DEF s
<1>6. ASSUME NEW t \in DOMAIN s.tasks
      PROVE  s.tasks[t].votes = Cardinality({v \in s.votes : v[1] = t})
  <2>1. t \in TaskId /\ has_active_task(t) /\ s.tasks[t] = active_task[t]
    BY <1>5
  <2>2. active_task[t].votes = Cardinality(Voters(t))
    BY <2>1 DEF CountInv, VotesMatchVoters, Registered, Record
  <2> QED
    BY <1>5, <2>1, <2>2, VotesOfTask
<1>7. ASSUME NEW v \in s.votes
      PROVE  /\ v[2] \in DOMAIN s.guardians
             /\ v[1] \notin DOMAIN s.tasks => has_archived_task(v[1])
  <2>1. v \in voted /\ v[1] \in TaskId /\ v[2] \in Address /\ v = <<v[1], v[2]>>
    BY <1>5 DEF TypeOK
  <2>2. v[2] \in Voters(v[1])
    BY <2>1 DEF Voters
  <2>3. Registered(v[1])
    BY <2>1, <2>2 DEF CountInv, VotesMatchVoters
  <2> QED
    BY <1>5, <2>1, <2>3 DEF GuardiansListed, Registered
<1>8. ASSUME NEW t \in DOMAIN s.reward_streams \ DOMAIN s.tasks
      PROVE  has_archived_task(t)
  BY <1>5 DEF StreamsOnlyForResolved, Done, Registered
<1> QED
  BY <1>6, <1>7, <1>8 DEF s

(* A snapshot whose lists fit into one page adds up in every reachable     *)
(* state: counts match the vote map, every voter is in the guardian map,   *)
(* and what lacks a task in the task map belongs to an archived one.       *)
THEOREM SnapshotsAddUp == Spec => []SnapshotAddsUp
PROOF
<1>1. TypeOK /\ CountInv /\ TasksPartition /\ VoteLogExact /\ GuardiansListed
        /\ StreamsOnlyForResolved => SnapshotAddsUp
  BY CoveringSnapshot
<1> QED
  BY <1>1, TypeCorrect, CountInvariant, RegisteredOnce, VoteLogCorrect,
     GuardiansStayListed, StreamsEarned, PTL

-----------------------------------------------------------------------------
(* The paging client                                                       *)

(* A reader changes nothing: whatever holds of the contract holds while it *)
(* is being read.                                                          *)
LEMMA ReadingIsHarmless == ReaderSpec => Spec
PROOF
<1>1. ReaderInit => Init
  BY DEF ReaderInit
<1>2. [ReaderNext]_<<vars, readerVars>> => [Next]_vars
  BY DEF ReaderNext, StartReading, ReadPage, StopReading
<1> QED
  BY <1>1, <1>2, PTL DEF ReaderSpec, Spec

(* The longer list starts with the shorter one.                            *)
Extends(longer, list) ==
  Len(list) <= Len(longer) /\ \A i \in 1..Len(list) : longer[i] = list[i]

LEMMA AppendExtends ==
  ASSUME NEW S, NEW list \in Seq(S), NEW x \in S
  PROVE  Extends(Append(list, x), list)
PROOF
  BY DEF Extends

LEMMA SameExtends ==
  ASSUME NEW S, NEW list \in Seq(S)
  PROVE  Extends(list, list)
PROOF
  BY DEF Extends

LEMMA ListNames ==
  /\ Maps = {"guardians", "tasks", "votes", "reward_streams"}
  /\ Lists["guardians"] = all_guardians
  /\ Lists["tasks"] = all_tasks
  /\ Lists["votes"] = all_votes
  /\ Lists["reward_streams"] = all_streams
PROOF
  BY DEF Maps, Lists

LEMMA ListLengths ==
  ASSUME TypeOK, NEW m \in Maps
  PROVE  Len(Lists[m]) \in Nat
PROOF
<1>1. /\ Len(all_guardians) \in Nat /\ Len(all_tasks) \in Nat
      /\ Len(all_votes) \in Nat /\ Len(all_streams) \in Nat
  BY DEF TypeOK
<1> QED
  BY <1>1, ListNames

(* Only add_guardian touches AllGuardians, and it appends.                 *)
LEMMA GuardianListExtends ==
  ASSUME TypeOK, [Next]_vars
  PROVE  Extends(all_guardians', all_guardians)
PROOF
<1> USE DEF guardianVars
<1>1. all_guardians' = all_guardians
        \/ \E g \in Address : all_guardians' = Append(all_guardians, g)
  <2>1. CASE BreakerStep
    BY <2>1 DEF BreakerStep, TogglePause, Pause, Unpause, SetPaused,
                RecordFailure, ResetCircuitBreaker
  <2>2. CASE GuardianStep
    BY <2>2 DEF GuardianStep, AddGuardian, RemoveGuardian, SetReputation
  <2>3. CASE TokenStep
    BY <2>3
    DEF TokenStep, Initialize, LockTokens, ResignGuardian, UnlockTokens
  <2>4. CASE TaskStep
    BY <2>4 DEF TaskStep, RegisterTask, CancelTask, ArchiveTask
  <2>5. CASE VotingStep
    BY <2>5 DEF VotingStep, SetWeightThreshold, SetVaultAddress, Vote
  <2>6. CASE StreamStep
    BY <2>6 DEF StreamStep, StartRewardStream
  <2>7. CASE Tick
    BY <2>7 DEF Tick
  <2>8. CASE UNCHANGED vars
    BY <2>8 DEF vars
  <2> QED
    BY <2>1, <2>2, <2>3, <2>4, <2>5, <2>6, <2>7, <2>8, [Next]_vars DEF Next
<1>2. all_guardians \in Seq(Address)
  BY DEF TypeOK
<1> QED
  BY <1>1, <1>2, AppendExtends, SameExtends

(* Every list only grows at its end, and no task leaves the archive.       *)
LEMMA ListsExtend ==
  ASSUME TypeOK, [Next]_vars
  PROVE  /\ \A m \in Maps : Extends(Lists[m]', Lists[m])
         /\ \A t \in TaskId : has_archived_task(t) => has_archived_task(t)'
PROOF
<1>1. all_tasks \in Seq(TaskId) /\ all_votes \in Seq(TaskId \X Address)
        /\ all_streams \in Seq(TaskId)
  BY DEF TypeOK
<1>2. /\ Extends(all_tasks', all_tasks)
      /\ Extends(all_votes', all_votes)
      /\ \A t \in TaskId : has_archived_task(t) => has_archived_task(t)'
  <2>1. CASE Quiet
    BY <1>1, <2>1, SameExtends DEF Quiet, has_archived_task
  <2> DEFINE Goal == /\ Extends(all_tasks', all_tasks)
                     /\ Extends(all_votes', all_votes)
                     /\ \A t \in TaskId :
                          has_archived_task(t) => has_archived_task(t)'
  <2>2. ASSUME NEW t \in TaskId, RegisterTask(t) PROVE Goal
    <3>1. /\ all_tasks' = Append(all_tasks, t)
          /\ UNCHANGED <<all_votes, archived_task>>
      BY <2>2 DEF RegisterTask, voteVars
    <3> QED
      BY <1>1, <3>1, AppendExtends, SameExtends DEF has_archived_task
  <2>3. ASSUME NEW t \in TaskId, CancelTask(t) PROVE Goal
    <3>1. UNCHANGED <<all_tasks, all_votes, archived_task>>
      BY <2>3 DEF CancelTask, voteVars
    <3> QED
      BY <1>1, <3>1, SameExtends DEF has_archived_task
  <2>4. ASSUME NEW t \in TaskId, ArchiveTask(t) PROVE Goal
    <3>1. /\ UNCHANGED <<all_tasks, all_votes>>
          /\ archived_task' = [archived_task EXCEPT ![t] = active_task[t]]
          /\ active_task[t] # None
      BY <2>4 DEF ArchiveTask, ArchiveTaskError, has_active_task, Ok, voteVars
    <3>2. \A u \in TaskId : has_archived_task(u) => has_archived_task(u)'
      BY <3>1 DEF has_archived_task, TypeOK
    <3> QED
      BY <1>1, <3>1, <3>2, SameExtends
  <2>5. ASSUME NEW g \in Address, NEW t \in TaskId, NEW escrow_up \in BOOLEAN,
               Vote(g, t, escrow_up)
        PROVE  Goal
    <3>1. /\ all_votes' = Append(all_votes, <<t, g>>)
          /\ UNCHANGED <<all_tasks, archived_task>>
      BY <2>5 DEF Vote
    <3>2. Extends(all_votes', all_votes)
      BY <1>1, <3>1, AppendExtends
    <3> QED
      BY <1>1, <3>1, <3>2, SameExtends DEF has_archived_task
  <2> QED
    BY <2>1, <2>2, <2>3, <2>4, <2>5, QuietSteps DEF TaskStep
<1>3. Extends(all_streams', all_streams)
  <2>1. CASE UNCHANGED streamVars
    BY <1>1, <2>1, SameExtends DEF streamVars
  <2>2. CASE StreamStep
    BY <1>1, <2>2, AppendExtends DEF StreamStep, StartRewardStream
  <2> QED
    BY <2>1, <2>2, StreamQuietSteps
<1>4. /\ Lists["guardians"]' = all_guardians'
      /\ Lists["tasks"]' = all_tasks'
      /\ Lists["votes"]' = all_votes'
      /\ Lists["reward_streams"]' = all_streams'
  BY DEF Lists
<1> QED
  BY <1>2, <1>3, <1>4, GuardianListExtends, ListNames

(* A page leaves out no index between its offset and the next one, except  *)
(* tasks that are archived by the time it is read.                         *)
LEMMA PageCovers ==
  ASSUME TypeOK, TasksPartition, StreamsOnlyForResolved,
         offset \in 0..U32Max, NEW m \in Maps,
         NEW i \in 1..Len(Lists[m]), offset < i, i <= NextOffset
  PROVE  \/ Lists[m][i] \in PageKeys[m]
         \/ m = "tasks" /\ has_archived_task(Lists[m][i])
PROOF
<1> DEFINE page(list) == Range(Page(list, offset, PageLimit))
           s == get_snapshot(offset, PageLimit)
<1>1. /\ PageLimit \in 1..U32Max /\ U32Max \in Nat
      /\ NextOffset \in Nat
  BY PageLimitAssumption, BatchAssumption, ConstantsAssumption
  DEF NextOffset, SaturatingAdd, ClampedLimit, Least
<1>2. ASSUME NEW S, NEW list \in Seq(S), i \in 1..Len(list)
      PROVE  list[i] \in page(list)
  <2>1. Len(list) \in Nat
    OBVIOUS
  <2>2. PageFrom(list, offset) = offset + 1
    BY <1>2, <2>1 DEF PageFrom, Least
  <2>3. PageTo(list, offset, PageLimit) = Least(NextOffset, Len(list))
    BY DEF PageTo, NextOffset
  <2>4. i \in PageFrom(list, offset)..PageTo(list, offset, PageLimit)
    BY <1>1, <1>2, <2>1, <2>2, <2>3 DEF Least
  <2> QED
    BY <1>1, <2>4, PageElements
<1>3. /\ DOMAIN s.guardians = page(all_guardians)
      /\ DOMAIN s.tasks = {t \in page(all_tasks) : has_active_task(t)}
      /\ s.votes = page(all_votes)
      /\ DOMAIN s.reward_streams
           = {t \in page(all_streams) : reward_stream[t] # None}
  BY <1>1, SnapshotMaps
<1>4. /\ PageKeys["guardians"] = DOMAIN s.guardians
      /\ PageKeys["tasks"] = DOMAIN s.tasks
      /\ PageKeys["votes"] = s.votes
      /\ PageKeys["reward_streams"] = DOMAIN s.reward_streams
  BY DEF PageKeys
<1> HIDE DEF page, s
<1>5. CASE m = "guardians"
  BY <1>2, <1>3, <1>4, <1>5, ListNames DEF TypeOK
<1>6. CASE m = "tasks"
  <2>1. all_tasks \in Seq(TaskId) /\ i \in 1..Len(all_tasks)
    BY <1>6, ListNames DEF TypeOK
  <2>2. all_tasks[i] \in page(all_tasks)
    BY <1>2, <2>1
  <2>3. all_tasks[i] \in Range(all_tasks)
    BY <2>1 DEF Range
  <2>4. Registered(all_tasks[i])
    BY <2>3 DEF TasksPartition, ListsExactly
  <2> QED
    BY <1>3, <1>4, <1>6, <2>2, <2>4, ListNames DEF Registered
<1>7. CASE m = "votes"
  <2>1. all_votes \in Seq(TaskId \X Address) /\ i \in 1..Len(all_votes)
    BY <1>7, ListNames DEF TypeOK
  <2>2. all_votes[i] \in page(all_votes)
    BY <1>2, <2>1
  <2> QED
    BY <1>3, <1>4, <1>7, <2>2, ListNames
<1>8. CASE m = "reward_streams"
  <2>1. all_streams \in Seq(TaskId) /\ i \in 1..Len(all_streams)
    BY <1>8, ListNames DEF TypeOK
  <2>2. all_streams[i] \in page(all_streams)
    BY <1>2, <2>1
  <2>3. all_streams[i] \in Range(all_streams)
    BY <2>1 DEF Range
  <2>4. reward_stream[all_streams[i]] # None
    BY <2>3 DEF StreamsOnlyForResolved, ListsExactly
  <2> QED
    BY <1>3, <1>4, <1>8, <2>2, <2>4, ListNames
<1> QED
  BY <1>5, <1>6, <1>7, <1>8, ListNames

(* The inductive strengthening: what the client remembers stays within the *)
(* lists, and an idle client has not advanced.                             *)
ReaderTypeOK ==
  /\ offset \in 0..U32Max
  /\ listed \in [Maps -> Nat]

ReaderInv ==
  /\ ReaderTypeOK
  /\ reader = "idle" => offset = 0
  /\ reader # "idle" => \A m \in Maps : listed[m] <= Len(Lists[m])
  /\ NothingSkipped

(* A step of the contract moves nothing the client has already passed.     *)
LEMMA ContractKeepsReader ==
  ASSUME TypeOK, ReaderInv, [Next]_vars, UNCHANGED readerVars
  PROVE  ReaderInv'
PROOF
<1>1. UNCHANGED <<reader, offset, collected, listed>>
  BY DEF readerVars
<1>2. /\ offset \in Nat /\ listed \in [Maps -> Nat]
      /\ reader # "idle" => \A m \in Maps : listed[m] <= Len(Lists[m])
  BY ConstantsAssumption DEF ReaderInv, ReaderTypeOK
<1>3. TypeOK'
  BY NextType
<1>4. ASSUME NEW m \in Maps
      PROVE  /\ Len(Lists[m]) \in Nat /\ Len(Lists[m]') \in Nat
             /\ Len(Lists[m]) <= Len(Lists[m]')
             /\ \A i \in 1..Len(Lists[m]) : Lists[m]'[i] = Lists[m][i]
  <2>1. Len(Lists[m]') \in Nat
    BY <1>3, ListLengths
  <2> QED
    BY <2>1, ListLengths, ListsExtend DEF Extends
<1>5. (reader # "idle" => \A m \in Maps : listed[m] <= Len(Lists[m]))'
  BY <1>1, <1>2, <1>4
<1>6. NothingSkipped'
  <2>1. ASSUME reader # "idle", NEW m \in Maps,
               NEW i \in 1..Least(offset, listed[m])
        PROVE  \/ Lists[m]'[i] \in collected[m]
               \/ m = "tasks" /\ archived_task'[Lists[m]'[i]] # None
    <3>1. i \in 1..Len(Lists[m])
      BY <1>2, <1>4, <2>1 DEF Least
    <3>2. \/ Lists[m][i] \in collected[m]
          \/ m = "tasks" /\ archived_task[Lists[m][i]] # None
      BY <2>1 DEF ReaderInv, NothingSkipped, has_archived_task
    <3>3. Lists[m]'[i] = Lists[m][i]
      BY <1>4, <3>1
    <3>4. m = "tasks" => Lists[m][i] \in TaskId
      BY <3>1, ListNames DEF TypeOK
    <3>5. \A t \in TaskId : archived_task[t] # None => archived_task'[t] # None
      BY ListsExtend DEF has_archived_task
    <3> QED
      BY <3>2, <3>3, <3>4, <3>5
  <2> QED
    BY <1>1, <2>1 DEF NothingSkipped, has_archived_task
<1> QED
  BY <1>1, <1>5, <1>6 DEF ReaderInv, ReaderTypeOK

LEMMA ReaderStep ==
  ASSUME TypeOK, TasksPartition, StreamsOnlyForResolved, ReaderInv,
         [ReaderNext]_<<vars, readerVars>>
  PROVE  ReaderInv'
PROOF
<1>1. /\ offset \in 0..U32Max /\ offset \in Nat /\ U32Max \in Nat
      /\ listed \in [Maps -> Nat]
  BY ConstantsAssumption DEF ReaderInv, ReaderTypeOK
<1>2. ASSUME UNCHANGED vars
      PROVE  Lists' = Lists /\ archived_task' = archived_task
  BY <1>2 DEF Lists, vars, guardianVars, taskVars, voteVars, streamVars
<1>3. CASE StartReading
  <2>1. /\ reader = "idle" /\ reader' = "reading" /\ offset' = offset
        /\ listed' = [m \in Maps |-> Len(Lists[m])]
        /\ Lists' = Lists
    BY <1>2, <1>3 DEF StartReading
  <2>2. listed' \in [Maps -> Nat] /\ \A m \in Maps : listed'[m] = Len(Lists[m])
    BY <2>1, ListLengths
  <2>3. offset' = 0
    BY <2>1 DEF ReaderInv
  <2>4. \A m \in Maps : 1..Least(offset', listed'[m]) = {}
    BY <2>2, <2>3 DEF Least
  <2>5. NothingSkipped'
    BY <2>4 DEF NothingSkipped
  <2>6. \A m \in Maps : listed'[m] <= Len(Lists'[m])
    BY <2>1, <2>2, ListLengths
  <2> QED
    BY <1>1, <2>1, <2>2, <2>5, <2>6 DEF ReaderInv, ReaderTypeOK
<1>4. CASE ReadPage
  <2>1. /\ reader = "reading" /\ reader' = reader /\ listed' = listed
        /\ collected' = [m \in Maps |-> collected[m] \cup PageKeys[m]]
        /\ offset' = NextOffset
        /\ Lists' = Lists /\ archived_task' = archived_task
    BY <1>2, <1>4 DEF ReadPage, NextOffset
  <2>2. NextOffset \in 0..U32Max
    BY <1>1, PageLimitAssumption, BatchAssumption
    DEF NextOffset, SaturatingAdd, ClampedLimit, Least
  <2>3. \A m \in Maps : listed[m] <= Len(Lists[m])
    BY <2>1 DEF ReaderInv
  <2>4. ASSUME NEW m \in Maps, NEW i \in 1..Least(offset', listed[m])
        PROVE  \/ Lists[m][i] \in collected'[m]
               \/ m = "tasks" /\ has_archived_task(Lists[m][i])
    <3>1. /\ i \in 1..Len(Lists[m]) /\ i <= listed[m] /\ i <= NextOffset
      BY <1>1, <2>1, <2>2, <2>3, ListLengths DEF Least
    <3>2. collected'[m] = collected[m] \cup PageKeys[m]
      BY <2>1
    <3>3. CASE i <= offset
      <4>1. i \in 1..Least(offset, listed[m])
        BY <1>1, <3>1, <3>3 DEF Least
      <4> QED
        BY <2>1, <3>2, <4>1 DEF ReaderInv, NothingSkipped
    <3>4. CASE offset < i
      BY <1>1, <3>1, <3>2, <3>4, PageCovers
    <3> QED
      BY <1>1, <3>1, <3>3, <3>4
  <2>5. NothingSkipped'
    BY <2>1, <2>4 DEF NothingSkipped, has_archived_task
  <2> QED
    BY <1>1, <2>1, <2>2, <2>3, <2>5 DEF ReaderInv, ReaderTypeOK
<1>5. CASE StopReading
  <2>1. /\ reader = "reading" /\ reader' = "done"
        /\ UNCHANGED <<offset, collected, listed>>
        /\ Lists' = Lists /\ archived_task' = archived_task
    BY <1>2, <1>5 DEF StopReading
  <2> QED
    BY <2>1 DEF ReaderInv, ReaderTypeOK, NothingSkipped, has_archived_task
<1>6. CASE Next /\ UNCHANGED readerVars
  BY <1>6, ContractKeepsReader
<1>7. CASE UNCHANGED <<vars, readerVars>>
  BY <1>7, ContractKeepsReader
<1> QED
  BY <1>3, <1>4, <1>5, <1>6, <1>7, [ReaderNext]_<<vars, readerVars>>
  DEF ReaderNext

LEMMA ReaderInvariant == ReaderSpec => []ReaderInv
PROOF
<1>1. ReaderInit => ReaderInv
  <2> SUFFICES ASSUME ReaderInit PROVE ReaderInv
    OBVIOUS
  <2>1. offset \in 0..U32Max /\ listed \in [Maps -> Nat]
    BY ConstantsAssumption DEF ReaderInit
  <2> QED
    BY <2>1 DEF ReaderInit, ReaderInv, ReaderTypeOK, NothingSkipped
<1>2. TypeOK /\ TasksPartition /\ StreamsOnlyForResolved /\ ReaderInv
        /\ [ReaderNext]_<<vars, readerVars>> => ReaderInv'
  BY ReaderStep
<1> QED
  BY <1>1, <1>2, ReadingIsHarmless, TypeCorrect, RegisteredOnce,
     StreamsEarned, PTL DEF ReaderSpec

(* Pages read while the contract keeps changing fit together: whatever was *)
(* listed when the client started and lies behind its offset has been      *)
(* collected, for any page size, except tasks archived meanwhile.          *)
THEOREM PagingSkipsNothing == ReaderSpec => []NothingSkipped
PROOF
<1>1. ReaderInv => NothingSkipped
  BY DEF ReaderInv
<1> QED
  BY <1>1, ReaderInvariant, PTL

-----------------------------------------------------------------------------
(* The end of the lists                                                    *)

(* A soroban Vec counts its elements in a u32.                             *)
ListsFit == \A m \in Maps : Len(Lists[m]) <= U32Max

LEMMA StopStep ==
  ASSUME TypeOK, TasksPartition, StreamsOnlyForResolved, ReaderInv, ListsFit,
         StopReading
  PROVE  EmptyPageIsEnd'
PROOF
<1>1. /\ reader = "reading"
      /\ \A m \in Maps : PageKeys[m] = {}
      /\ UNCHANGED <<offset, listed, all_tasks, archived_task>>
  BY DEF StopReading, vars, taskVars
<1>2. offset \in 0..U32Max /\ U32Max \in Nat /\ NextOffset \in Nat
  BY ConstantsAssumption, PageLimitAssumption, BatchAssumption
  DEF ReaderInv, ReaderTypeOK, NextOffset, SaturatingAdd, ClampedLimit, Least
<1>3. ASSUME NEW m \in Maps
      PROVE  /\ listed[m] \in Nat /\ listed[m] <= Len(Lists[m])
             /\ Len(Lists[m]) \in Nat /\ Len(Lists[m]) <= U32Max
  BY <1>1, ListLengths DEF ReaderInv, ReaderTypeOK, ListsFit
<1>4. ASSUME NEW m \in Maps \ {"tasks"}, ~(listed[m] <= offset)
      PROVE  FALSE
  <2>1. offset + 1 \in 1..Len(Lists[m]) /\ offset < offset + 1
    BY <1>2, <1>3, <1>4
  <2>2. offset + 1 <= NextOffset
    BY <1>2, <1>3, <1>4, PageLimitAssumption, BatchAssumption
    DEF NextOffset, SaturatingAdd, ClampedLimit, Least
  <2>3. Lists[m][offset + 1] \in PageKeys[m]
    BY <1>2, <2>1, <2>2, PageCovers
  <2> QED
    BY <1>1, <2>3
<1>5. ASSUME NEW i \in (offset + 1)..Least(NextOffset, listed["tasks"])
      PROVE  has_archived_task(all_tasks[i])
  <2>1. "tasks" \in Maps
    BY DEF Maps
  <2>2. /\ i \in 1..Len(Lists["tasks"])
        /\ offset < i /\ i <= NextOffset
    BY <1>2, <1>3, <2>1 DEF Least
  <2>3. has_archived_task(Lists["tasks"][i])
    BY <1>1, <1>2, <2>1, <2>2, PageCovers
  <2> QED
    BY <2>3, ListNames
<1>6. NextOffset' = NextOffset
  BY <1>1 DEF NextOffset
<1> QED
  BY <1>1, <1>4, <1>5, <1>6 DEF EmptyPageIsEnd, has_archived_task

(* What the client was told stays true when the contract moves on.         *)
LEMMA EndKept ==
  ASSUME TypeOK, ReaderInv, EmptyPageIsEnd, [Next]_vars, UNCHANGED readerVars
  PROVE  EmptyPageIsEnd'
PROOF
<1>1. UNCHANGED <<reader, offset, listed>> /\ NextOffset' = NextOffset
  BY DEF readerVars, NextOffset
<1> SUFFICES ASSUME reader = "done",
                    NEW i \in (offset + 1)..Least(NextOffset, listed["tasks"])
             PROVE  archived_task'[all_tasks'[i]] # None
  BY <1>1 DEF EmptyPageIsEnd, has_archived_task
<1>2. "tasks" \in Maps
  BY DEF Maps
<1>3. /\ offset \in Nat /\ NextOffset \in Nat
      /\ listed["tasks"] \in Nat /\ listed["tasks"] <= Len(all_tasks)
      /\ all_tasks \in Seq(TaskId)
  BY <1>2, ListNames, ConstantsAssumption, PageLimitAssumption,
     BatchAssumption
  DEF ReaderInv, ReaderTypeOK, TypeOK, NextOffset, SaturatingAdd,
      ClampedLimit, Least
<1>4. i \in 1..Len(all_tasks) /\ all_tasks[i] \in TaskId
  BY <1>3 DEF Least
<1>5. all_tasks'[i] = all_tasks[i]
  <2>1. Lists["tasks"] = all_tasks /\ Lists["tasks"]' = all_tasks'
    BY DEF Lists
  <2> QED
    BY <1>2, <1>4, <2>1, ListsExtend DEF Extends
<1>6. archived_task[all_tasks[i]] # None
  BY DEF EmptyPageIsEnd, has_archived_task
<1> QED
  BY <1>4, <1>5, <1>6, ListsExtend DEF has_archived_task

LEMMA EndStep ==
  ASSUME TypeOK, TasksPartition, StreamsOnlyForResolved, ReaderInv, ListsFit,
         EmptyPageIsEnd, [ReaderNext]_<<vars, readerVars>>
  PROVE  EmptyPageIsEnd'
PROOF
<1>1. CASE StopReading
  BY <1>1, StopStep
<1>2. CASE StartReading \/ ReadPage
  BY <1>2 DEF StartReading, ReadPage, EmptyPageIsEnd
<1>3. CASE [Next]_vars /\ UNCHANGED readerVars
  BY <1>3, EndKept
<1> QED
  BY <1>1, <1>2, <1>3, [ReaderNext]_<<vars, readerVars>> DEF ReaderNext

(* A client that stops at the first empty page has passed every guardian,  *)
(* vote and stream that was listed when it started, and every task the     *)
(* empty page stood for is archived, as long as no list outgrows the u32   *)
(* its length is kept in.  Tasks further on it may have missed.            *)
THEOREM EmptyPageEndsLists == ReaderSpec /\ []ListsFit => []EmptyPageIsEnd
PROOF
<1>1. ReaderInit => EmptyPageIsEnd
  BY DEF ReaderInit, EmptyPageIsEnd
<1>2. TypeOK /\ TasksPartition /\ StreamsOnlyForResolved /\ ReaderInv
        /\ ListsFit /\ EmptyPageIsEnd /\ [ReaderNext]_<<vars, readerVars>>
        => EmptyPageIsEnd'
  BY EndStep
<1> QED
  BY <1>1, <1>2, ReadingIsHarmless, TypeCorrect, RegisteredOnce,
     StreamsEarned, ReaderInvariant, PTL DEF ReaderSpec
=============================================================================
