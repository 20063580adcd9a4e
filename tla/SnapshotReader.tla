---------------------------- MODULE SnapshotReader ----------------------------
(***************************************************************************)
(* A client that reads the whole contract through get_snapshot, one page   *)
(* per call, while other calls change the contract in between.  The client *)
(* is external: it starts at offset 0, advances by the page size the       *)
(* contract grants, and stops at the first page whose maps are all empty.  *)
(***************************************************************************)
EXTENDS Snapshot

CONSTANT PageLimit    \* the limit the client passes

ASSUME PageLimitAssumption == PageLimit \in 1..U32Max

VARIABLES
  reader,      \* "idle", "reading" or "done"
  offset,      \* offset of the next page
  collected,   \* keys collected so far, per map
  listed       \* lengths of the lists when the client started

readerVars == <<reader, offset, collected, listed>>

Maps == {"guardians", "tasks", "votes", "reward_streams"}

(* The list each map is cut from.                                          *)
Lists == [guardians |-> all_guardians, tasks |-> all_tasks,
          votes |-> all_votes, reward_streams |-> all_streams]

ReaderInit ==
  /\ Init
  /\ reader = "idle"
  /\ offset = 0
  /\ collected = [m \in Maps |-> {}]
  /\ listed = [m \in Maps |-> 0]

StartReading ==
  /\ reader = "idle"
  /\ reader' = "reading"
  /\ listed' = [m \in Maps |-> Len(Lists[m])]
  /\ UNCHANGED <<offset, collected, vars>>

(* The keys of the four maps of one page.                                  *)
PageKeys ==
  LET s == get_snapshot(offset, PageLimit)
  IN  [guardians |-> DOMAIN s.guardians, tasks |-> DOMAIN s.tasks,
       votes |-> s.votes, reward_streams |-> DOMAIN s.reward_streams]

(* The offset of the page after this one.                                  *)
NextOffset == SaturatingAdd(offset, ClampedLimit(PageLimit))

ReadPage ==
  /\ reader = "reading"
  /\ \E m \in Maps : PageKeys[m] # {}
  /\ collected' = [m \in Maps |-> collected[m] \cup PageKeys[m]]
  /\ offset' = NextOffset
  /\ UNCHANGED <<reader, listed, vars>>

StopReading ==
  /\ reader = "reading"
  /\ \A m \in Maps : PageKeys[m] = {}
  /\ reader' = "done"
  /\ UNCHANGED <<offset, collected, listed, vars>>

ReaderNext ==
  \/ StartReading
  \/ ReadPage
  \/ StopReading
  \/ Next /\ UNCHANGED readerVars

ReaderSpec == ReaderInit /\ [][ReaderNext]_<<vars, readerVars>>

-----------------------------------------------------------------------------
(* The lists only grow at their end, so pages read at different times fit  *)
(* together: whatever a list held when the client started and an offset    *)
(* already passed has been collected, except tasks archived meanwhile.     *)
NothingSkipped ==
  reader # "idle" =>
    \A m \in Maps : \A i \in 1..Least(offset, listed[m]) :
      \/ Lists[m][i] \in collected[m]
      \/ m = "tasks" /\ has_archived_task(Lists[m][i])

(* A page with empty maps is the end of the guardians, the votes and the   *)
(* streams: removed and resigned guardians still fill a page, and a stream *)
(* never loses its entry.  It need not be the end of the tasks, because    *)
(* archived ones are left out of the map: a client that stops here misses  *)
(* active tasks, but only behind a page's worth of archived ones.          *)
EmptyPageIsEnd ==
  reader = "done" =>
    /\ \A m \in Maps \ {"tasks"} : listed[m] <= offset
    /\ \A i \in (offset + 1)..Least(NextOffset, listed["tasks"]) :
         has_archived_task(all_tasks[i])
=============================================================================
