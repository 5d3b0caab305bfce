---------------------------- MODULE MCSyncEngine ----------------------------
(* Small instances of SyncEngine for TLC. *)
EXTENDS SyncEngine, TLC

\* Sound for the safety runs only.
Symmetry ==
  UNION {Permutations(S) : S \in {Src, Run, Node, Dev, Alert, Pending, Val \ Pending}}
=============================================================================
