----------------------------- MODULE TokenLedger -----------------------------
(***************************************************************************)
(* What the token endpoints promise their clients, without requests,       *)
(* clocks or tables: a signed token is live until it is spent (exchanged   *)
(* or logged out) or dies (its lifetime is over), and a spent refresh      *)
(* token has at most one heir.  AuthTokens implements this ledger;         *)
(* SessionClient is the frontend's use of it.                              *)
(***************************************************************************)
CONSTANT Jti           \* ids of the tokens a behaviour may sign

VARIABLES st,          \* what has become of each token
          heir         \* the refresh tokens that were signed in exchange for it

ledger == <<st, heir>>

Status == {"unsigned", "live", "spent", "dead"}

With(S) == {j \in Jti : st[j] = S}

\* An access and a refresh token are signed; a lifetime of zero may leave one
\* dead at birth.
Sign(a, r, dead) ==
  /\ a # r /\ {a, r} \subseteq With("unsigned")
  /\ st' = [j \in Jti |-> IF j \notin {a, r} THEN st[j]
                          ELSE IF j \in dead THEN "dead" ELSE "live"]

SignIn(a, r, dead) == Sign(a, r, dead) /\ UNCHANGED heir

\* Spent tokens never come back to life.
Spend(S) ==
  /\ S \subseteq With("live")
  /\ st' = [j \in Jti |-> IF j \in S THEN "spent" ELSE st[j]]
  /\ UNCHANGED heir

\* The second half of a rotation: a pair for a token that is spent and has
\* no heir.  Only a rotation that outlives its token escapes the promise.
Exchange(j, a, r, dead) ==
  /\ \/ st[j] = "spent" /\ heir[j] = {}
     \/ st[j] = "dead"
  /\ Sign(a, r, dead)
  /\ heir' = [heir EXCEPT ![j] = @ \cup {r}]

Die(S) ==
  /\ S \subseteq With("live") \cup With("spent")
  /\ st' = [j \in Jti |-> IF j \in S THEN "dead" ELSE st[j]]
  /\ UNCHANGED heir

Init ==
  /\ st = [j \in Jti |-> "unsigned"]
  /\ heir = [j \in Jti |-> {}]

Next ==
  /\ ledger' # ledger
  /\ \/ \E a, r \in With("unsigned") : \E dead \in SUBSET {a, r} : SignIn(a, r, dead)
     \/ \E S \in SUBSET With("live") : Spend(S)
     \/ \E j \in With("spent") \cup With("dead"), a, r \in With("unsigned") :
          \E dead \in SUBSET {a, r} : Exchange(j, a, r, dead)
     \/ \E S \in SUBSET (With("live") \cup With("spent")) : Die(S)

Spec == Init /\ [][Next]_ledger

\* A token that has not died has at most one heir, and none while it is live.
OneHeir ==
  \A j \in Jti :
    /\ st[j] = "spent" => \A g, h \in heir[j] : g = h
    /\ st[j] \in {"unsigned", "live"} => heir[j] = {}
=============================================================================
