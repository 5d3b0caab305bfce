---------------------------- MODULE MCRackEditor ----------------------------
(* A small instance of RackEditor for TLC. *)
EXTENDS RackEditor

CONSTANTS srv, pdu, new

Absent == [st |-> "none", start |-> 1, size |-> 1]
At(u) == [st |-> "active", start |-> u, size |-> 1]
One(k, r) == [kind |-> [e \in Editor |-> k], rack |-> r]

\* One editor, of each kind; others are what happens elsewhere.  The rack has
\* two units.  In the elevation two devices are to be added beside a PDU; the
\* others start with a server and the PDU, and add one device, where they were
\* when Elsewhere has taken one of them out.
MCScenarios ==
  LET full == [d \in Device |-> CASE d = srv -> At(1) [] d = pdu -> At(2) [] OTHER -> Absent]
      empty == [full EXCEPT ![srv] = Absent]
  IN {One("elevation", empty)} \cup {One(k, full) : k \in Kind \ {"elevation"}}
=============================================================================
