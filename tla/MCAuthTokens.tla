---------------------------- MODULE MCAuthTokens ----------------------------
(* Small instances of AuthTokens for TLC. *)
EXTENDS AuthTokens, TLC

\* Requests and users are interchangeable; no temporal property is checked
\* together with this symmetry.
Symmetry == Permutations(Req) \cup Permutations(User)
=============================================================================
