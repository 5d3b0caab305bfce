--------------------------- MODULE MCSessionClient ---------------------------
(* Small instances of SessionClient for TLC. *)
EXTENDS SessionClient, TLC

CONSTANTS main, other

\* The other tab shares the cookie of the main one.
MCTab == {main, other}
MCUses == [t \in Tab |-> IF t = main THEN Kind ELSE {"change_password"}]

\* Call slots are interchangeable.
Symmetry == Permutations(Call)
=============================================================================
