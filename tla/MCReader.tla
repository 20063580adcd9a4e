------------------------------- MODULE MCReader -------------------------------
(***************************************************************************)
(* Small instances of the client that pages through get_snapshot.          *)
(***************************************************************************)
EXTENDS SnapshotReader, TLC

(* initialize accepts any i128: with this threshold guardians vote without *)
(* locking tokens, which paging does not look at.                          *)
StakeWaived == {-1}

TaskSymmetry == Permutations(TaskId)
=============================================================================
