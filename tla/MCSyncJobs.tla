----------------------------- MODULE MCSyncJobs -----------------------------
(* Small instances of SyncJobs for TLC. *)
EXTENDS SyncJobs, TLC

\* Sound for the safety runs only.
Symmetry == Permutations(Worker) \cup Permutations(Conn) \cup Permutations(Task) \cup Permutations(Api)
=============================================================================
