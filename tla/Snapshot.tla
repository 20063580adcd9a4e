------------------------------- MODULE Snapshot -------------------------------
(***************************************************************************)
(* get_snapshot of lib.rs and the getters it calls.  One call cuts the     *)
(* same page out of four lists and reports, as maps, what storage holds    *)
(* now for the keys of the page.  Admin and DripsAddress are never         *)
(* written, so those two fields are always None and left out.              *)
(***************************************************************************)
EXTENDS VeroCore

CONSTANT MAX_SNAPSHOT_BATCH_SIZE

ASSUME BatchAssumption == MAX_SNAPSHOT_BATCH_SIZE \in 1..U32Max

(* core::cmp::min and u32::saturating_add                                  *)
Least(a, b) == IF a <= b THEN a ELSE b

SaturatingAdd(a, b) == Least(a + b, U32Max)

ClampedLimit(limit) == Least(limit, MAX_SNAPSHOT_BATCH_SIZE)

(* Mutant: the end of the page taken for an index instead of a bound.      *)
PageShort(list, offset, limit) ==
  SubSeq(list, Least(offset, Len(list)) + 1,
               Least(SaturatingAdd(offset, ClampedLimit(limit)), Len(list)) - 1)

(* Mutant: offsets taken to be counted from one.                           *)
PageFromOne(list, offset, limit) ==
  SubSeq(list, Least(offset + 1, Len(list)) + 1,
               Least(SaturatingAdd(offset + 1, ClampedLimit(limit)), Len(list)))

(* list.slice(start..end)                                                  *)
Page(list, offset, limit) ==
  SubSeq(list, Least(offset, Len(list)) + 1,
               Least(SaturatingAdd(offset, ClampedLimit(limit)), Len(list)))

(* Only the active key space: an archived task is not found.               *)
get_task(t) == active_task[t]

(* Mutant: reports current guardians only.                                 *)
GuardianMapActive(keys) == [g \in {a \in keys : is_guardian(a)} |-> TRUE]

(* Every listed address with its current status.                           *)
GuardianMap(keys) == [g \in keys |-> is_guardian(g)]

(* A key without an entry is left out of the map.                          *)
Entries(keys, entry) == [k \in {x \in keys : entry[x] # None} |-> entry[k]]

(* Mutant: the votes cut with a page of one too few.                       *)
VotesOfPageShort(offset, limit) == Range(PageShort(all_votes, offset, limit))

VotesOfPage(offset, limit) == Range(Page(all_votes, offset, limit))

get_snapshot(offset, limit) ==
  LET keys(list) == Range(Page(list, offset, limit))
  IN  [paused           |-> paused,
       failure_count    |-> failure_count,
       weight_threshold |-> weight_threshold,
       vault_address    |-> vault_address,
       guardians        |-> GuardianMap(keys(all_guardians)),
       reputations      |-> Entries(keys(all_guardians), reputation),
       tasks            |-> Entries(keys(all_tasks),
                                    [t \in TaskId |-> get_task(t)]),
       votes            |-> VotesOfPage(offset, limit),
       reward_streams   |-> Entries(keys(all_streams), reward_stream)]

-----------------------------------------------------------------------------
(* Every list fits into the first page.                                    *)
OnePage ==
  \A n \in {Len(all_guardians), Len(all_tasks), Len(all_votes)} :
    n <= MAX_SNAPSHOT_BATCH_SIZE

(* A snapshot that covers the lists adds up: a task's votes field is the   *)
(* number of its entries in the vote map, every voter is in the guardian   *)
(* map, every vote belongs to a task in the task map or an archived one,   *)
(* and a stream without a task in the task map belongs to an archived one. *)
SnapshotAddsUp ==
  OnePage =>
    LET s == get_snapshot(0, U32Max)
    IN  /\ \A t \in DOMAIN s.tasks :
             s.tasks[t].votes = Cardinality({v \in s.votes : v[1] = t})
        /\ \A v \in s.votes :
             /\ v[2] \in DOMAIN s.guardians
             /\ v[1] \notin DOMAIN s.tasks => has_archived_task(v[1])
        /\ \A t \in DOMAIN s.reward_streams \ DOMAIN s.tasks :
             has_archived_task(t)
=============================================================================
