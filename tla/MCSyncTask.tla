----------------------------- MODULE MCSyncTask -----------------------------
(***************************************************************************)
(* SyncTask for TLC: the task IDs are alike, and so are the requests.      *)
(***************************************************************************)
EXTENDS SyncTask, TLC

Symmetry == Permutations(Task) \cup Permutations(Request)
=============================================================================
