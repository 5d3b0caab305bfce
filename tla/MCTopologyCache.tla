-------------------------- MODULE MCTopologyCache --------------------------
(* Small instances of TopologyCache for TLC. *)
EXTENDS TopologyCache, TLC

CONSTANTS a, b, c

\* A chain of three devices.
ChainCabling == {<<a, b>>, <<c, b>>}
EndToEnd == {<<a, c>>}

\* Sound for the safety properties only.
Symmetry == Permutations(Client) \cup Permutations(Worker)
=============================================================================
