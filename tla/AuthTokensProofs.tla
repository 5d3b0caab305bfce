-------------------------- MODULE AuthTokensProofs --------------------------
(***************************************************************************)
(* Proofs about AuthTokens: type correctness, exclusive rotation, finality *)
(* of logout, that a logged-out token is refused until it expires, that    *)
(* logout ends the whole session, and that the endpoints implement the     *)
(* token ledger, for every set of users and concurrent requests and every  *)
(* token lifetime.                                                         *)
(*                                                                         *)
(* The argument: the primary key of token_revocations elects, for each     *)
(* token that has not expired, at most one request (the Owner) that may go *)
(* on to exchange the token or to log it out, and the row that elected it  *)
(* cannot be purged before the token expires.  So a session is always in   *)
(* one hand: a usable refresh token, or the one request that uses it up.   *)
(***************************************************************************)
EXTENDS AuthTokens, TLAPS

-----------------------------------------------------------------------------
(* The inductive invariant *)

\* Tokens are signed in jti order and never in the future.
TokenInv ==
  \A j \in Jti : /\ token[j] # None <=> j <= issued
                 /\ token[j] # None => token[j].iat <= clock

\* What a request holds was signed, and each token is of the kind its place
\* in the handler requires.
Holds(q) ==
  /\ q.ref # None => q.ref \in Issued
  /\ q.acc # None => q.acc \in Issued
  /\ q.pc \in {"refresh_checked", "refresh_loaded", "refresh_revoked"} =>
       q.ref # None /\ token[q.ref].type = "refresh"
  /\ q.pc \in {"auth_checked", "authed", "access_revoked", "refresh_handled"} =>
       q.acc # None /\ token[q.acc].type = "access"
  /\ q.pc = "refresh_handled" /\ q.ref # None => token[q.ref].type = "refresh"
  /\ q.pc \in {"access_revoked", "refresh_handled"} => q.acc \in revoked \/ Expired(q.acc)
  /\ q.pc \in {"login_verified", "refresh_checked", "refresh_loaded", "refresh_revoked"} =>
       q.user # None

RequestInv == \A r \in Req : Holds(req[r])

HistoryInv ==
  /\ revoked \subseteq Issued /\ loggedOut \subseteq Issued
  /\ \A j \in Jti : heir[j] # {} => j \in Issued /\ token[j].type = "refresh"
  /\ \A j \in Jti : heir[j] \subseteq Issued

\* The row of a live token elects one owner, which finds the token unused.
Exclusive ==
  \A j \in Issued : ~Expired(j) =>
    /\ heir[j] # {} \/ j \in loggedOut => j \in revoked
    /\ \A r \in Req : Owner(r, j) => j \in revoked /\ heir[j] = {} /\ j \notin loggedOut
    /\ \A r, s \in Req : Owner(r, j) /\ Owner(s, j) => r = s

IInv == /\ TypeOK /\ TokenInv /\ RequestInv /\ HistoryInv
        /\ Exclusive /\ RotatedOnce /\ LogoutFinal

-----------------------------------------------------------------------------
(* Lemmas about the operators *)

LEMMA WholeSecondNat == ASSUME NEW t \in Nat PROVE WholeSecond(t) \in Nat
  <1>1. TicksPerSecond \in Nat \ {0}
    BY AuthAssumption
  <1>2. t \div TicksPerSecond \in Nat
    BY <1>1
  <1> QED
    BY <1>1, <1>2 DEF WholeSecond

\* _make_token always returns a well-formed token signed now.
LEMMA MakeTokenType ==
  ASSUME NEW type \in {"access", "refresh"}, NEW u \in User, NEW ttl \in Nat,
         NEW sid \in Jti, clock \in Nat
  PROVE  /\ MakeToken(type, u, ttl, sid) \in Token
         /\ MakeToken(type, u, ttl, sid).iat = clock
         /\ MakeToken(type, u, ttl, sid).type = type
  <1>1. clock + ttl * TicksPerSecond \in Nat
    BY AuthAssumption
  <1>2. WholeSecond(clock + ttl * TicksPerSecond) \in Nat
    BY <1>1, WholeSecondNat
  <1> QED
    BY <1>2 DEF MakeToken, Token

-----------------------------------------------------------------------------
(* Preservation of the invariant *)

\* A step that only moves request r on, without making it an owner.
LEMMA RequestStep ==
  ASSUME IInv, NEW r \in Req, NEW q \in ReqState, Holds(q),
         q.pc \in {"refresh_revoked", "refresh_handled"} => q.ref = None,
         req' = [req EXCEPT ![r] = q],
         UNCHANGED <<clock, active, issued, token, revoked, heir, loggedOut>>
  PROVE  IInv'
  <1> USE DEF IInv
  <1>1. TypeOK'
    BY DEF TypeOK
  <1>2. TokenInv'
    BY DEF TokenInv
  <1>3. RequestInv'
    BY DEF RequestInv, Holds, Issued, Expired, TypeOK
  <1>4. HistoryInv'
    BY DEF HistoryInv, Issued
  <1>5. \A s \in Req, j \in Issued : Owner(s, j)' => Owner(s, j)
    BY AuthAssumption DEF Owner, Issued, TypeOK
  <1>6. Exclusive'
    BY <1>5 DEF Exclusive, Issued, Expired
  <1>7. RotatedOnce' /\ LogoutFinal'
    BY DEF RotatedOnce, LogoutFinal, Issued
  <1> QED
    BY <1>1, <1>2, <1>3, <1>4, <1>6, <1>7

\* Reply and Fail leave a well-formed finished request.
LEMMA ReplyStep ==
  ASSUME IInv, NEW r \in Req, NEW op \in Op,
         NEW status \in {"none", "ok", "unauthorized", "bad_request", "error"},
         Reply(r, op, status, None, None),
         UNCHANGED <<clock, active, issued, token, revoked, heir, loggedOut>>
  PROVE  IInv'
  <1> DEFINE q == [pc |-> "replied", op |-> op, user |-> None, acc |-> None,
                   ref |-> None, status |-> status, cookie |-> None]
  <1>1. q \in ReqState
    BY DEF ReqState, PC
  <1>2. Holds(q) /\ q.pc = "replied"
    BY DEF Holds
  <1>3. req' = [req EXCEPT ![r] = q]
    BY DEF Reply
  <1> QED
    BY <1>1, <1>2, <1>3, RequestStep

LEMMA GotoStep ==
  ASSUME IInv, NEW r \in Req, NEW pc \in PC, Goto(r, pc),
         Holds([req[r] EXCEPT !.pc = pc]), pc \notin {"refresh_revoked", "refresh_handled"},
         UNCHANGED <<clock, active, issued, token, revoked, heir, loggedOut>>
  PROVE  IInv'
  <1> DEFINE q == [req[r] EXCEPT !.pc = pc]
  <1>1. req[r] \in ReqState
    BY DEF IInv, TypeOK
  <1>2. q \in ReqState /\ q.pc = pc
    BY <1>1 DEF ReqState
  <1>3. req' = [req EXCEPT ![r] = q]
    BY DEF Goto
  <1> QED
    BY <1>1, <1>2, <1>3, RequestStep

\* Signing a token pair leaves every earlier token as it was.
LEMMA IssuePairStep ==
  ASSUME IInv, NEW u \in User, NEW sid \in Jti, IssuePair(u, sid), clock' = clock
  PROVE  /\ issued' = issued + 2 /\ issued + 2 \in Jti /\ issued + 1 \in Jti
         /\ token' \in [Jti -> Token \cup {None}]
         /\ \A j \in Issued : token'[j] = token[j]
         /\ Issued' = Issued \cup {issued + 1, issued + 2}
         /\ issued + 1 \notin Issued /\ issued + 2 \notin Issued
         /\ token'[issued + 1].iat = clock /\ token'[issued + 2].iat = clock
         /\ TokenInv'
  <1> DEFINE a == MakeToken("access", u, AccessTTL, sid)
             b == MakeToken("refresh", u, RefreshTTL, sid)
  <1>1. clock \in Nat /\ issued \in 0..MaxTokens /\ token \in [Jti -> Token \cup {None}]
    BY DEF IInv, TypeOK
  <1>2. /\ a \in Token /\ a.iat = clock /\ a.type = "access"
        /\ b \in Token /\ b.iat = clock /\ b.type = "refresh"
    BY <1>1, MakeTokenType, AuthAssumption
  <1>3. issued + 2 \in Jti /\ issued + 1 \in Jti /\ issued + 1 # issued + 2
    BY <1>1, AuthAssumption DEF IssuePair, NewRefresh, Jti
  <1>4. token' = [token EXCEPT ![issued + 1] = a, ![issued + 2] = b] /\ issued' = issued + 2
    BY DEF IssuePair, NewAccess, NewRefresh
  <1> HIDE DEF a, b
  <1>5. token' \in [Jti -> Token \cup {None}]
    BY <1>1, <1>2, <1>3, <1>4
  <1>6. token'[issued + 1] = a /\ token'[issued + 2] = b
    BY <1>1, <1>3, <1>4
  <1>7. \A j \in Jti : j # issued + 1 /\ j # issued + 2 => token'[j] = token[j]
    BY <1>1, <1>3, <1>4
  <1>8. \A j \in Jti : token[j] # None <=> j <= issued
    BY DEF IInv, TokenInv
  <1>9. a # None /\ b # None
    BY <1>2, AuthAssumption
  <1>10. Issued' = Issued \cup {issued + 1, issued + 2}
    BY <1>3, <1>6, <1>7, <1>9 DEF Issued
  <1>11. issued + 1 \notin Issued /\ issued + 2 \notin Issued
    BY <1>1, <1>3, <1>8 DEF Issued, Jti
  <1>12. TokenInv'
    <2>1. ASSUME NEW j \in Jti PROVE token'[j] # None <=> j <= issued + 2
      BY <1>1, <1>3, <1>6, <1>7, <1>8, <1>9 DEF Jti
    <2>2. ASSUME NEW j \in Jti, token'[j] # None PROVE token'[j].iat <= clock
      BY <1>1, <1>2, <1>6, <1>7, <2>2 DEF IInv, TokenInv
    <2> QED
      BY <1>4, <2>1, <2>2 DEF TokenInv
  <1> QED
    BY <1>2, <1>3, <1>4, <1>5, <1>6, <1>7, <1>10, <1>11, <1>12 DEF Issued

\* The common part of LoginIssue and RefreshIssue: no one owns more than before.
LEMMA IssueReply ==
  ASSUME IInv, NEW r \in Req, NEW u \in User, NEW sid \in Jti, IssuePair(u, sid),
         Reply(r, req[r].op, "ok", NewAccess, NewRefresh),
         UNCHANGED <<clock, active, revoked, loggedOut>>,
         heir' \in [Jti -> SUBSET Jti]
  PROVE  /\ TypeOK' /\ RequestInv'
         /\ \A s \in Req, j \in Jti : Owner(s, j)' => Owner(s, j) /\ s # r
  <1>1. /\ issued' = issued + 2 /\ issued + 2 \in Jti /\ issued + 1 \in Jti
        /\ token' \in [Jti -> Token \cup {None}]
        /\ \A j \in Issued : token'[j] = token[j]
        /\ Issued' = Issued \cup {issued + 1, issued + 2}
    BY IssuePairStep
  <1>2. req[r] \in ReqState
    BY DEF IInv, TypeOK
  <1> DEFINE q == [pc |-> "replied", op |-> req[r].op, user |-> None, acc |-> issued + 1,
                   ref |-> None, status |-> "ok", cookie |-> issued + 2]
  <1>3. req' = [req EXCEPT ![r] = q]
    BY DEF Reply, NewAccess, NewRefresh
  <1>4. q \in ReqState
    BY <1>1, <1>2 DEF ReqState, PC
  <1>5. TypeOK'
    BY <1>1, <1>3, <1>4 DEF IInv, TypeOK, Jti
  <1>6. Holds(req[r])'
    <2>1. req'[r] = q
      BY <1>3 DEF IInv, TypeOK
    <2> QED
      BY <1>1, <2>1 DEF Holds
  <1>7. ASSUME NEW s \in Req, s # r PROVE Holds(req[s])'
    <2>1. req'[s] = req[s] /\ Holds(req[s])
      BY <1>3, <1>7 DEF IInv, TypeOK, RequestInv
    <2> QED
      BY <1>1, <2>1 DEF Holds, Expired, IInv, HistoryInv
  <1>8. RequestInv'
    BY <1>6, <1>7 DEF RequestInv
  <1>9. \A s \in Req, j \in Jti : Owner(s, j)' => Owner(s, j) /\ s # r
    BY <1>3 DEF Owner, IInv, TypeOK
  <1> QED
    BY <1>5, <1>8, <1>9

LEMMA LoginIssueStep ==
  ASSUME IInv, NEW r \in Req, LoginIssue(r) PROVE IInv'
  <1>1. req[r].user \in User
    BY DEF LoginIssue, IInv, RequestInv, Holds, TypeOK, ReqState
  <1>2. NewRefresh \in Jti
    BY AuthAssumption DEF LoginIssue, IssuePair, NewRefresh, IInv, TypeOK, Jti
  <1>3. heir \in [Jti -> SUBSET Jti] /\ heir' = heir
    BY DEF LoginIssue, history, IInv, TypeOK
  <1>4. /\ TypeOK' /\ RequestInv'
        /\ \A s \in Req, j \in Jti : Owner(s, j)' => Owner(s, j) /\ s # r
    BY <1>1, <1>2, <1>3, IssueReply DEF LoginIssue, history
  <1>5. /\ TokenInv'
        /\ \A j \in Issued : token'[j] = token[j]
        /\ Issued' = Issued \cup {issued + 1, issued + 2}
        /\ issued + 1 \notin Issued /\ issued + 2 \notin Issued
    BY <1>1, <1>2, IssuePairStep DEF LoginIssue
  <1>6. UNCHANGED <<clock, revoked, heir, loggedOut>>
    BY DEF LoginIssue, history
  <1>7. Issued \subseteq Jti /\ \A j \in Jti : heir[j] \subseteq Issued
    BY DEF Issued, IInv, HistoryInv
  <1>8. HistoryInv'
    BY <1>5, <1>6 DEF HistoryInv, IInv
  <1>9. \A j \in {issued + 1, issued + 2} :
          j \in Jti => heir[j] = {} /\ j \notin loggedOut /\ \A s \in Req : ~Owner(s, j)
    BY <1>5, AuthAssumption DEF IInv, HistoryInv, RequestInv, Holds, Owner
  <1>10. Exclusive'
    BY <1>4, <1>5, <1>6, <1>7, <1>9 DEF Exclusive, Expired, IInv, Issued
  <1>11. RotatedOnce' /\ LogoutFinal'
    BY <1>5, <1>6, <1>7, <1>9 DEF RotatedOnce, LogoutFinal, IInv, HistoryInv, Issued
  <1> QED
    BY <1>4, <1>5, <1>8, <1>10, <1>11 DEF IInv

LEMMA RefreshIssueStep ==
  ASSUME IInv, NEW r \in Req, RefreshIssue(r) PROVE IInv'
  <1> DEFINE k == req[r].ref
             n == issued + 2
  <1>1. req[r].user \in User /\ k \in Issued /\ token[k].type = "refresh" /\ Owner(r, k)
    BY DEF RefreshIssue, IInv, RequestInv, Holds, TypeOK, ReqState, Owner
  <1>2. k \in Jti /\ token[k] \in Token /\ token[k].sid \in Jti
    BY <1>1 DEF Issued, IInv, TypeOK, Token
  <1>3. /\ TokenInv' /\ n \in Jti
        /\ \A j \in Issued : token'[j] = token[j]
        /\ Issued' = Issued \cup {issued + 1, n}
        /\ issued + 1 \notin Issued /\ n \notin Issued /\ issued + 1 # n
        /\ token'[n].iat = clock
    BY <1>1, <1>2, IssuePairStep DEF RefreshIssue, IInv, TypeOK
  <1>4. heir' = [heir EXCEPT ![k] = heir[k] \cup {n}] /\ heir \in [Jti -> SUBSET Jti]
    BY DEF RefreshIssue, NewRefresh, IInv, TypeOK
  <1>5. heir' \in [Jti -> SUBSET Jti] /\ heir'[k] = heir[k] \cup {n}
        /\ \A j \in Jti \ {k} : heir'[j] = heir[j]
    BY <1>2, <1>3, <1>4
  <1>6. /\ TypeOK' /\ RequestInv'
        /\ \A s \in Req, j \in Jti : Owner(s, j)' => Owner(s, j) /\ s # r
    BY <1>1, <1>2, <1>5, IssueReply DEF RefreshIssue
  <1>7. UNCHANGED <<clock, revoked, loggedOut>>
    BY DEF RefreshIssue
  <1>8. /\ Issued \subseteq Jti /\ revoked \subseteq Issued /\ loggedOut \subseteq Issued
        /\ \A j \in Jti : heir[j] \subseteq Issued
        /\ \A j \in Jti : heir[j] # {} => j \in Issued /\ token[j].type = "refresh"
    BY DEF Issued, IInv, HistoryInv
  <1>9. HistoryInv'
    BY <1>1, <1>2, <1>3, <1>5, <1>7, <1>8 DEF HistoryInv
  <1>10. \A j \in {issued + 1, n} :
          j \in Jti => heir[j] = {} /\ j \notin loggedOut /\ \A s \in Req : ~Owner(s, j)
    BY <1>3, AuthAssumption DEF IInv, HistoryInv, RequestInv, Holds, Owner
  <1>11. ~Expired(k) => k \in revoked /\ heir[k] = {} /\ k \notin loggedOut
                        /\ \A s \in Req : Owner(s, k) => s = r
    BY <1>1 DEF IInv, Exclusive
  <1>12. ASSUME NEW j \in Issued', ~Expired(j)'
         PROVE  /\ heir'[j] # {} \/ j \in loggedOut' => j \in revoked'
                /\ \A s \in Req : Owner(s, j)' => j \in revoked' /\ heir'[j] = {} /\ j \notin loggedOut'
                /\ \A s, t \in Req : Owner(s, j)' /\ Owner(t, j)' => s = t
    <2>1. CASE j = k
      BY <1>1, <1>2, <1>3, <1>6, <1>7, <1>11, <1>12, <2>1 DEF Expired
    <2>2. CASE j \in Issued \ {k}
      <3>1. ~Expired(j) /\ heir'[j] = heir[j] /\ j \in Jti
        BY <1>3, <1>5, <1>7, <1>8, <1>12, <2>2 DEF Expired
      <3> QED
        BY <1>6, <1>7, <2>2, <3>1 DEF IInv, Exclusive
    <2>3. CASE j \in {issued + 1, n}
      <3>1. j \in Jti /\ j # k
        BY <1>1, <1>3, <2>3 DEF Issued
      <3> QED
        BY <1>5, <1>6, <1>7, <1>10, <2>3, <3>1
    <2> QED
      BY <1>3, <1>12, <2>1, <2>2, <2>3
  <1>13. Exclusive'
    BY <1>12 DEF Exclusive
  <1>14. token[k].exp \in Nat /\ clock \in Nat
    BY <1>2 DEF IInv, TypeOK, Token
  <1>15. ASSUME NEW j \in Issued', NEW g \in heir'[j], NEW h \in heir'[j],
                token'[g].iat <= token'[j].exp, token'[h].iat <= token'[j].exp
         PROVE  g = h
    <2>1. CASE j = k
      <3>1. CASE Expired(k)
        <4>1. ~(token'[n].iat <= token'[k].exp)
          BY <1>1, <1>3, <1>14, <3>1 DEF Expired
        <4>2. g \in heir[k] /\ h \in heir[k]
          BY <1>5, <1>15, <2>1, <4>1
        <4> QED
          BY <1>1, <1>2, <1>3, <1>8, <1>15, <2>1, <4>2 DEF IInv, RotatedOnce
      <3>2. CASE ~Expired(k)
        BY <1>5, <1>11, <2>1, <3>2
      <3> QED
        BY <3>1, <3>2
    <2>2. CASE j # k
      <3>1. j \in Jti /\ heir'[j] = heir[j]
        BY <1>5, <2>2 DEF Issued
      <3>2. j \in Issued
        BY <1>8, <3>1
      <3> QED
        BY <1>3, <1>8, <1>15, <3>1, <3>2 DEF IInv, RotatedOnce
    <2> QED
      BY <2>1, <2>2
  <1>16. RotatedOnce'
    BY <1>15 DEF RotatedOnce
  <1>17. ASSUME NEW j \in loggedOut', NEW h \in heir'[j] PROVE token'[h].iat > token'[j].exp
    <2>1. j \in Issued /\ token'[j] = token[j]
      BY <1>3, <1>7, <1>8
    <2>2. CASE h \in heir[j]
      BY <1>3, <1>7, <1>8, <2>1, <2>2 DEF IInv, LogoutFinal
    <2>3. CASE h \notin heir[j]
      <3>1. j = k /\ h = n
        BY <1>5, <1>8, <2>1, <2>3
      <3> QED
        BY <1>3, <1>7, <1>11, <1>14, <2>1, <3>1 DEF Expired
    <2> QED
      BY <2>2, <2>3
  <1>18. LogoutFinal'
    BY <1>17 DEF LogoutFinal
  <1> QED
    BY <1>3, <1>6, <1>9, <1>13, <1>16, <1>18 DEF IInv

\* Inserting the row of k and moving request r on to pc.  When r becomes the
\* owner of k, nobody else owns k and k has not been used.
LEMMA InsertStep ==
  ASSUME IInv, NEW r \in Req, NEW k \in Issued, k \notin revoked, revoked' = revoked \cup {k},
         NEW pc \in PC, Goto(r, pc),
         \/ pc = "refresh_revoked" /\ req[r].pc = "refresh_loaded" /\ req[r].ref = k
         \/ pc = "access_revoked" /\ req[r].pc = "authed" /\ req[r].acc = k
         \/ /\ pc = "refresh_handled" /\ req[r].pc = "access_revoked" /\ req[r].ref = k
            /\ token[k].type = "refresh",
         UNCHANGED <<clock, active, issued, token, heir, loggedOut>>
  PROVE  IInv'
  <1>1. /\ Issued' = Issued /\ k \in Jti /\ req[r] \in ReqState
        /\ \A j : Expired(j)' <=> Expired(j)
    BY DEF Issued, Expired, IInv, TypeOK
  <1>2. /\ \A s \in Req \ {r} : req'[s] = req[s]
        /\ req'[r].pc = pc /\ req'[r].op = req[r].op /\ req'[r].user = req[r].user
        /\ req'[r].acc = req[r].acc /\ req'[r].ref = req[r].ref
    BY <1>1 DEF Goto, IInv, TypeOK, ReqState
  <1>3. TypeOK'
    <2>1. req' \in [Req -> ReqState]
      BY <1>1 DEF Goto, IInv, TypeOK, ReqState
    <2> QED
      BY <1>1, <2>1 DEF IInv, TypeOK
  <1>4. TokenInv'
    BY DEF IInv, TokenInv
  <1>5. ASSUME NEW s \in Req PROVE Holds(req[s])'
    <2>1. Holds(req[s]) /\ Holds(req[r])
      BY DEF IInv, RequestInv
    <2>2. CASE s # r
      BY <1>1, <1>2, <2>1, <2>2 DEF Holds
    <2>3. CASE s = r
      BY <1>1, <1>2, <2>1, <2>3 DEF Holds
    <2> QED
      BY <2>2, <2>3
  <1>6. HistoryInv'
    BY <1>1 DEF IInv, HistoryInv
  <1>7. ASSUME NEW j \in Issued, ~Expired(j)
        PROVE  /\ heir'[j] # {} \/ j \in loggedOut' => j \in revoked'
               /\ \A s \in Req : Owner(s, j)' => j \in revoked' /\ heir'[j] = {} /\ j \notin loggedOut'
               /\ \A s, t \in Req : Owner(s, j)' /\ Owner(t, j)' => s = t
    <2>1. \A s \in Req \ {r} : Owner(s, j)' <=> Owner(s, j)
      BY <1>2 DEF Owner
    <2>2. ~Owner(r, j)
      BY DEF Owner
    <2>3. CASE j = k
      <3>1. heir[k] = {} /\ k \notin loggedOut /\ \A s \in Req : ~Owner(s, k)
        BY <1>7, <2>3 DEF IInv, Exclusive
      <3> QED
        BY <2>1, <2>3, <3>1
    <2>4. CASE j # k
      <3>1. ~Owner(r, j)'
        BY <1>2, <2>4 DEF Owner
      <3> QED
        BY <1>7, <2>1, <2>4, <3>1 DEF IInv, Exclusive
    <2> QED
      BY <2>3, <2>4
  <1>8. Exclusive'
    BY <1>1, <1>7 DEF Exclusive
  <1>9. RotatedOnce' /\ LogoutFinal'
    BY <1>1 DEF IInv, RotatedOnce, LogoutFinal
  <1> QED
    BY <1>3, <1>4, <1>5, <1>6, <1>8, <1>9 DEF IInv, RequestInv

LEMMA RefreshRevokeStep ==
  ASSUME IInv, NEW r \in Req, RefreshRevoke(r) PROVE IInv'
  <1> DEFINE k == req[r].ref
  <1>1. k \in Issued /\ req[r].op \in Op
    BY DEF RefreshRevoke, IInv, RequestInv, Holds, TypeOK, ReqState
  <1>2. CASE k \notin revoked
    BY <1>1, <1>2, InsertStep DEF RefreshRevoke, Revoke, PC
  <1>3. CASE k \in revoked
    BY <1>1, <1>3, ReplyStep DEF RefreshRevoke, Revoke, Fail
  <1> QED
    BY <1>2, <1>3

LEMMA LogoutRevokeAccessStep ==
  ASSUME IInv, NEW r \in Req, LogoutRevokeAccess(r) PROVE IInv'
  <1> DEFINE k == req[r].acc
  <1>1. k \in Issued /\ req[r].op \in Op
    BY DEF LogoutRevokeAccess, IInv, RequestInv, Holds, TypeOK, ReqState
  <1>2. CASE Decodes(k) /\ k \notin revoked
    BY <1>1, <1>2, InsertStep DEF LogoutRevokeAccess, Revoke, PC
  <1>3. CASE Decodes(k) /\ k \in revoked
    BY <1>1, <1>3, ReplyStep DEF LogoutRevokeAccess, Revoke, Fail
  <1>4. CASE ~Decodes(k)
    BY <1>1, <1>4, ReplyStep DEF LogoutRevokeAccess, Fail
  <1> QED
    BY <1>2, <1>3, <1>4

LEMMA LogoutRevokeRefreshStep ==
  ASSUME IInv, NEW r \in Req, LogoutRevokeRefresh(r) PROVE IInv'
  <1> DEFINE k == req[r].ref
             found == k # None /\ Decodes(k) /\ token[k].type = "refresh"
  <1>1. /\ Holds(req[r]) /\ req[r] \in ReqState /\ req[r].op \in Op
        /\ req[r].pc = "access_revoked" /\ req \in [Req -> ReqState]
    BY DEF LogoutRevokeRefresh, IInv, RequestInv, TypeOK, ReqState
  <1>2. CASE found /\ k \notin revoked
    <2>1. k \in Issued /\ token[k].type = "refresh"
      BY <1>1, <1>2 DEF Holds
    <2> QED
      BY <1>1, <1>2, <2>1, InsertStep DEF LogoutRevokeRefresh, Revoke, PC
  <1>3. CASE found /\ k \in revoked
    BY <1>1, <1>3, ReplyStep DEF LogoutRevokeRefresh, Revoke, Fail
  <1>4. CASE ~found
    <2> DEFINE q == [req[r] EXCEPT !.pc = "refresh_handled", !.ref = None]
    <2>1. /\ req' = [req EXCEPT ![r] = q]
          /\ UNCHANGED <<clock, active, issued, token, revoked, heir, loggedOut>>
      BY <1>4 DEF LogoutRevokeRefresh
    <2>2. q \in ReqState /\ q.ref = None
      BY <1>1 DEF ReqState, PC
    <2>3. Holds(q)
      BY <1>1 DEF Holds, ReqState
    <2> HIDE DEF q
    <2> QED
      BY <1>1, <2>1, <2>2, <2>3, RequestStep
  <1> QED
    BY <1>2, <1>3, <1>4

\* The owner of a refresh token finishes its logout.
LEMMA LogoutFinishStep ==
  ASSUME IInv, NEW r \in Req, LogoutFinish(r) PROVE IInv'
  <1> DEFINE q == [pc |-> "replied", op |-> "logout", user |-> None, acc |-> None,
                   ref |-> None, status |-> "ok", cookie |-> Clear]
             new == {j \in Jti \cap {req[r].acc, req[r].ref} : ~Expired(j)}
  <1>1. /\ req' = [req EXCEPT ![r] = q] /\ loggedOut' = loggedOut \cup new
        /\ UNCHANGED <<clock, active, issued, token, revoked, heir>>
        /\ req[r].pc = "refresh_handled" /\ req \in [Req -> ReqState] /\ Holds(req[r])
    BY DEF LogoutFinish, Reply, IInv, TypeOK, RequestInv
  <1>2. q \in ReqState
    BY DEF ReqState, PC, Op
  <1>3. Issued' = Issued /\ \A j : Expired(j)' <=> Expired(j)
    BY <1>1 DEF Issued, Expired
  <1>4. TypeOK' /\ TokenInv'
    BY <1>1, <1>2 DEF IInv, TypeOK, TokenInv
  <1>5. /\ req'[r].pc = "replied" /\ req'[r].acc = None /\ req'[r].ref = None
        /\ \A s \in Req \ {r} : req'[s] = req[s]
    BY <1>1
  <1>6. RequestInv'
    <2>1. Holds(req[r])'
      BY <1>5 DEF Holds
    <2>2. ASSUME NEW s \in Req \ {r} PROVE Holds(req[s])'
      BY <1>1, <1>3, <1>5 DEF Holds, IInv, RequestInv
    <2> QED
      BY <2>1, <2>2 DEF RequestInv
  <1>7. ASSUME NEW j \in new
        PROVE  /\ j \in Issued /\ j \in revoked /\ heir[j] = {}
               /\ \A s \in Req \ {r} : ~Owner(s, j)
    <2>1. j \in Issued /\ ~Expired(j)
      BY <1>1, AuthAssumption DEF Holds
    <2>2. CASE j = req[r].ref
      BY <1>1, <2>1, <2>2 DEF IInv, Exclusive, Owner
    <2>3. CASE j = req[r].acc
      <3>1. j # None /\ token[j].type = "access" /\ j \in revoked
        BY <1>1, <2>1, <2>3, AuthAssumption DEF Holds
      <3>2. \A s \in Req : ~Owner(s, j)
        BY <3>1 DEF Owner, IInv, RequestInv, Holds
      <3> QED
        BY <2>1, <3>1, <3>2 DEF IInv, HistoryInv, Issued
    <2> QED
      BY <2>2, <2>3
  <1> HIDE DEF q, new
  <1>8. HistoryInv'
    BY <1>1, <1>3, <1>7 DEF IInv, HistoryInv
  <1>9. \A s \in Req, j \in Jti : Owner(s, j)' => Owner(s, j) /\ s # r
    BY <1>5 DEF Owner
  <1>10. Exclusive'
    BY <1>1, <1>3, <1>7, <1>9 DEF IInv, Exclusive, Issued
  <1>11. RotatedOnce' /\ LogoutFinal'
    BY <1>1, <1>3, <1>7 DEF IInv, RotatedOnce, LogoutFinal
  <1> QED
    BY <1>4, <1>6, <1>8, <1>10, <1>11 DEF IInv

\* Starting a handler: the token it presented was checked in this step.
LEMMA StartStep ==
  ASSUME IInv, NEW r \in Req, NEW op \in Op, NEW u \in User, NEW acc \in Issued \cup {None},
         NEW ref \in Issued \cup {None},
         NEW pc \in {"login_verified", "refresh_checked", "auth_checked"},
         pc = "refresh_checked" => ref # None /\ token[ref].type = "refresh",
         pc = "auth_checked" => acc # None /\ token[acc].type = "access",
         Start(r, op, u, acc, ref, pc),
         UNCHANGED <<clock, active, issued, token, revoked, heir, loggedOut>>
  PROVE  IInv'
  <1> DEFINE q == [pc |-> pc, op |-> op, user |-> u, acc |-> acc, ref |-> ref,
                   status |-> "none", cookie |-> None]
  <1>1. q \in ReqState
    BY DEF ReqState, PC, Issued, IInv, TypeOK
  <1>2. Holds(q) /\ q.pc \notin {"refresh_revoked", "refresh_handled"}
    BY AuthAssumption DEF Holds
  <1>3. req' = [req EXCEPT ![r] = q]
    BY DEF Start
  <1> HIDE DEF q
  <1> QED
    BY <1>1, <1>2, <1>3, RequestStep

LEMMA HandlerStep ==
  ASSUME IInv, NEW r \in Req, Handler(r) PROVE IInv'
  <1>1. req[r] \in ReqState /\ req[r].op \in Op /\ Holds(req[r])
    BY DEF IInv, TypeOK, RequestInv, ReqState
  <1>2. \A j \in Issued : j \in Jti /\ token[j] \in Token /\ token[j].sub \in User
    BY DEF Issued, IInv, TypeOK, Token
  <1>3. "unauthorized" \in {"none", "ok", "unauthorized", "bad_request", "error"}
    OBVIOUS
  <1>4. ASSUME NEW u \in User, NEW ok \in BOOLEAN, LoginVerify(r, u, ok) PROVE IInv'
    <2>1. CASE active[u] /\ ok
      BY <1>4, <2>1, StartStep DEF LoginVerify, Op, history
    <2>2. CASE ~(active[u] /\ ok)
      BY <1>1, <1>4, <2>2, ReplyStep DEF LoginVerify, Fail, Op, history
    <2> QED
      BY <2>1, <2>2
  <1>5. ASSUME NEW j \in Issued, RefreshCheck(r, j) PROVE IInv'
    <2>1. CASE Decodes(j) /\ token[j].type = "refresh" /\ ~IsRevoked(j)
      <3>1. j # None
        BY <1>2, AuthAssumption
      <3> QED
        BY <1>2, <1>5, <2>1, <3>1, StartStep DEF RefreshCheck, Op, history
    <2>2. CASE ~(Decodes(j) /\ token[j].type = "refresh" /\ ~IsRevoked(j))
      BY <1>1, <1>5, <2>2, ReplyStep DEF RefreshCheck, Fail, Op, history
    <2> QED
      BY <2>1, <2>2
  <1>6. CASE RefreshLoadUser(r)
    <2>1. CASE active[req[r].user]
      <3>1. Holds([req[r] EXCEPT !.pc = "refresh_loaded"])
        BY <1>1, <1>6 DEF Holds, ReqState, RefreshLoadUser
      <3> QED
        BY <1>6, <2>1, <3>1, GotoStep DEF RefreshLoadUser, PC, history
    <2>2. CASE ~active[req[r].user]
      BY <1>1, <1>6, <2>2, ReplyStep DEF RefreshLoadUser, Fail, history
    <2> QED
      BY <2>1, <2>2
  <1>7. ASSUME NEW a \in Issued, NEW op \in Endpoint, NEW c \in Cookie, AuthCheck(r, a, op, c)
        PROVE  IInv'
    <2>1. op \in Op /\ c \in Issued \cup {None} /\ a # None
      BY <1>2, AuthAssumption DEF Op, Cookie
    <2>2. CASE Decodes(a) /\ token[a].type = "access" /\ ~IsRevoked(a)
      BY <1>2, <1>7, <2>1, <2>2, StartStep DEF AuthCheck, history
    <2>3. CASE ~(Decodes(a) /\ token[a].type = "access" /\ ~IsRevoked(a))
      BY <1>1, <1>7, <2>1, <2>3, ReplyStep DEF AuthCheck, Fail, history
    <2> QED
      BY <2>2, <2>3
  <1>8. CASE AuthLoadUser(r)
    <2>1. CASE active[req[r].user]
      <3>1. Holds([req[r] EXCEPT !.pc = "authed"])
        BY <1>1, <1>8 DEF Holds, ReqState, AuthLoadUser
      <3> QED
        BY <1>8, <2>1, <3>1, GotoStep DEF AuthLoadUser, PC, history
    <2>2. CASE ~active[req[r].user]
      BY <1>1, <1>8, <2>2, ReplyStep DEF AuthLoadUser, Fail, history
    <2> QED
      BY <2>1, <2>2
  <1>9. CASE GetMe(r)
    BY <1>1, <1>9, ReplyStep DEF GetMe, Op, history
  <1>10. ASSUME NEW ok \in BOOLEAN, ChangePassword(r, ok) PROVE IInv'
    <2>1. \E status \in {"ok", "bad_request"} : \E op \in Op : Reply(r, op, status, None, None)
      BY <1>1, <1>10 DEF ChangePassword, Fail, Op
    <2> QED
      BY <1>10, <2>1, ReplyStep DEF ChangePassword, history
  <1>11. CASE Deliver(r)
    <2>1. Idle \in ReqState /\ Holds(Idle) /\ Idle.pc = "idle"
      BY DEF Idle, ReqState, PC, Op, Holds
    <2> QED
      BY <1>1, <1>11, <2>1, RequestStep DEF Deliver, history
  <1> QED
    BY <1>4, <1>5, <1>6, <1>7, <1>8, <1>9, <1>10, <1>11, LoginIssueStep, RefreshIssueStep,
       RefreshRevokeStep, LogoutRevokeAccessStep, LogoutRevokeRefreshStep, LogoutFinishStep
       DEF Handler

\* The purge deletes rows of expired tokens only.
LEMMA PurgeStep ==
  ASSUME IInv, PurgeExpired PROVE IInv'
  <1>1. /\ UNCHANGED <<clock, active, issued, token, req, heir, loggedOut>>
        /\ revoked' = {j \in revoked : ~Expired(j)}
    BY DEF PurgeExpired, history
  <1>2. Issued' = Issued /\ \A j : Expired(j)' <=> Expired(j)
    BY <1>1 DEF Issued, Expired
  <1>3. \A s, j : Owner(s, j)' <=> Owner(s, j)
    BY <1>1 DEF Owner
  <1>4. TypeOK' /\ TokenInv'
    BY <1>1 DEF IInv, TypeOK, TokenInv
  <1>5. RequestInv'
    BY <1>1, <1>2 DEF IInv, RequestInv, Holds
  <1>6. HistoryInv'
    BY <1>1, <1>2 DEF IInv, HistoryInv
  <1>7. Exclusive'
    BY <1>1, <1>2, <1>3 DEF IInv, Exclusive
  <1>8. RotatedOnce' /\ LogoutFinal'
    BY <1>1, <1>2 DEF IInv, RotatedOnce, LogoutFinal
  <1> QED
    BY <1>4, <1>5, <1>6, <1>7, <1>8 DEF IInv

\* Time only makes more tokens expire.
LEMMA TickStep ==
  ASSUME IInv, Tick PROVE IInv'
  <1>1. /\ UNCHANGED <<active, issued, token, req, revoked, heir, loggedOut>>
        /\ clock \in Nat /\ clock' = clock + 1
    BY DEF Tick, history, IInv, TypeOK
  <1>2. Issued' = Issued /\ \A j \in Issued : token[j] \in Token
    BY <1>1 DEF Issued, IInv, TypeOK
  <1>3. \A j \in Issued : Expired(j) => Expired(j)'
    BY <1>1, <1>2 DEF Expired, Token
  <1>4. \A s, j : Owner(s, j)' <=> Owner(s, j)
    BY <1>1 DEF Owner
  <1>5. TypeOK'
    BY <1>1 DEF IInv, TypeOK
  <1>6. TokenInv'
    BY <1>1, <1>2 DEF IInv, TokenInv, Token, Issued
  <1>7. RequestInv'
    BY <1>1, <1>2, <1>3 DEF IInv, RequestInv, Holds
  <1>8. HistoryInv'
    BY <1>1, <1>2 DEF IInv, HistoryInv
  <1>9. Exclusive'
    BY <1>1, <1>2, <1>3, <1>4 DEF IInv, Exclusive
  <1>10. RotatedOnce' /\ LogoutFinal'
    BY <1>1, <1>2 DEF IInv, RotatedOnce, LogoutFinal
  <1> QED
    BY <1>5, <1>6, <1>7, <1>8, <1>9, <1>10 DEF IInv

LEMMA SetActiveStep ==
  ASSUME IInv, NEW u \in User, SetActive(u) PROVE IInv'
  <1>1. UNCHANGED <<clock, issued, token, revoked, req, heir, loggedOut>>
    BY DEF SetActive, history
  <1>2. TypeOK'
    BY <1>1 DEF SetActive, IInv, TypeOK
  <1>3. /\ Issued' = Issued /\ \A j : Expired(j)' <=> Expired(j)
        /\ \A s, j : Owner(s, j)' <=> Owner(s, j)
    BY <1>1 DEF Issued, Expired, Owner
  <1>4. TokenInv' /\ HistoryInv' /\ RotatedOnce' /\ LogoutFinal'
    BY <1>1, <1>3 DEF IInv, TokenInv, HistoryInv, RotatedOnce, LogoutFinal
  <1>5. RequestInv'
    BY <1>1, <1>3 DEF IInv, RequestInv, Holds
  <1>6. Exclusive'
    BY <1>1, <1>3 DEF IInv, Exclusive
  <1> QED
    BY <1>2, <1>4, <1>5, <1>6 DEF IInv

\* A crash forgets the owners; the rows they inserted remain.
LEMMA CrashStep ==
  ASSUME IInv, Crash PROVE IInv'
  <1>1. /\ UNCHANGED <<clock, active, issued, token, revoked, heir, loggedOut>>
        /\ req' = [r \in Req |-> Idle]
    BY DEF Crash, history
  <1>2. Idle \in ReqState
    BY DEF Idle, ReqState, PC, Op
  <1>3. TypeOK'
    BY <1>1, <1>2 DEF IInv, TypeOK
  <1>4. RequestInv'
    BY <1>1 DEF RequestInv, Holds, Idle
  <1>5. Issued' = Issued /\ \A j : Expired(j)' <=> Expired(j)
    BY <1>1 DEF Issued, Expired
  <1>6. TokenInv' /\ HistoryInv' /\ RotatedOnce' /\ LogoutFinal'
    BY <1>1, <1>5 DEF IInv, TokenInv, HistoryInv, RotatedOnce, LogoutFinal
  <1>7. \A s \in Req : \A j : ~Owner(s, j)'
    BY <1>1 DEF Owner, Idle
  <1>8. Exclusive'
    BY <1>1, <1>5, <1>7 DEF IInv, Exclusive
  <1> QED
    BY <1>3, <1>4, <1>6, <1>8 DEF IInv

LEMMA InvInit == Init => IInv
  <1> SUFFICES ASSUME Init PROVE IInv
    OBVIOUS
  <1>1. Idle \in ReqState
    BY DEF Idle, ReqState, PC, Op
  <1>2. TypeOK
    BY <1>1, AuthAssumption DEF Init, TypeOK
  <1>3. Issued = {}
    BY DEF Init, Issued
  <1>4. TokenInv
    BY AuthAssumption DEF Init, TokenInv, Jti
  <1>5. RequestInv
    BY DEF Init, RequestInv, Holds, Idle
  <1>6. HistoryInv /\ Exclusive /\ RotatedOnce /\ LogoutFinal
    BY <1>3 DEF Init, HistoryInv, Exclusive, RotatedOnce, LogoutFinal
  <1> QED
    BY <1>2, <1>4, <1>5, <1>6 DEF IInv

LEMMA InvNext == IInv /\ [Next]_vars => IInv'
  <1> SUFFICES ASSUME IInv, [Next]_vars PROVE IInv'
    OBVIOUS
  <1>1. CASE Next
    BY <1>1, HandlerStep, SetActiveStep, PurgeStep, TickStep, CrashStep DEF Next
  <1>2. CASE UNCHANGED vars
    <2>1. /\ Issued' = Issued /\ \A j : Expired(j)' <=> Expired(j)
          /\ \A s, j : Owner(s, j)' <=> Owner(s, j)
      BY <1>2 DEF vars, Issued, Expired, Owner
    <2>2. TypeOK' /\ TokenInv' /\ HistoryInv' /\ RotatedOnce' /\ LogoutFinal'
      BY <1>2, <2>1 DEF vars, IInv, TypeOK, TokenInv, HistoryInv, RotatedOnce, LogoutFinal
    <2>3. RequestInv' /\ Exclusive'
      BY <1>2, <2>1 DEF vars, IInv, RequestInv, Holds, Exclusive
    <2> QED
      BY <2>2, <2>3 DEF IInv
  <1> QED
    BY <1>1, <1>2

LEMMA Inductive == Spec => []IInv
  BY InvInit, InvNext, PTL DEF Spec

-----------------------------------------------------------------------------
(* The theorems *)

\* The session state is well typed in every reachable state.
THEOREM TypeCorrect == Spec => []TypeOK
  <1>1. IInv => TypeOK
    BY DEF IInv
  <1> QED
    BY <1>1, Inductive, PTL

\* POST /auth/refresh exchanges a refresh token at most once in its lifetime,
\* for any number of concurrent requests, logouts, purges and crashes.
THEOREM RotationExclusive == Spec => []RotatedOnce
  <1>1. IInv => RotatedOnce
    BY DEF IInv
  <1> QED
    BY <1>1, Inductive, PTL

\* The insert into token_revocations elects one request per refresh token,
\* which finds the token neither exchanged nor logged out.
THEOREM InsertElectsOne == Spec => []OneOwner
  <1>1. IInv => OneOwner
    BY DEF IInv, Exclusive, OneOwner
  <1> QED
    BY <1>1, Inductive, PTL

\* POST /auth/logout is final: a refresh token whose logout was answered 204
\* was not and will not be exchanged in its lifetime.
THEOREM LogoutIsFinal == Spec => []LogoutFinal
  <1>1. IInv => LogoutFinal
    BY DEF IInv
  <1> QED
    BY <1>1, Inductive, PTL

\* No later request gets past the denylist check with a token that was logged
\* out and has not expired, whenever the purge runs.
THEOREM LogoutIsRemembered == Spec => LoggedOutRefused
  <1> DEFINE A == \A r \in Req : Accepts(r) =>
                    Presented(req'[r]) \notin loggedOut \/ Expired(Presented(req'[r]))
  <1>1. ASSUME IInv, Next PROVE A
    <2> SUFFICES ASSUME NEW r \in Req, Accepts(r),
                        Presented(req'[r]) \in loggedOut, ~Expired(Presented(req'[r]))
                 PROVE  FALSE
      OBVIOUS
    <2> DEFINE t == Presented(req'[r])
    <2>1. t \in revoked
      BY <1>1 DEF IInv, Exclusive, HistoryInv
    <2>2. req[r].pc = "idle" /\ req'[r].pc \in {"refresh_checked", "auth_checked"}
      BY DEF Accepts
    <2>3. req \in [Req -> ReqState]
      BY <1>1 DEF IInv, TypeOK
    <2>4. ASSUME NEW s \in Req, Handler(s) PROVE s = r
      BY <2>2, <2>3, <2>4 DEF Handler, LoginVerify, LoginIssue, RefreshCheck, RefreshLoadUser,
         RefreshRevoke, RefreshIssue, AuthCheck, AuthLoadUser, GetMe, ChangePassword,
         LogoutRevokeAccess, LogoutRevokeRefresh, LogoutFinish, Deliver, Start, Reply, Fail,
         Goto, Revoke
    <2>5. ~Crash
      BY <2>2 DEF Crash, Idle
    <2>6. Handler(r)
      BY <1>1, <2>2, <2>4, <2>5 DEF Next, SetActive, PurgeExpired, Tick
    <2>7. \/ \E j \in Issued : RefreshCheck(r, j) /\ ~IsRevoked(j) /\ t = j
          \/ \E a \in Issued, op \in Endpoint, c \in Cookie :
               AuthCheck(r, a, op, c) /\ ~IsRevoked(a) /\ t = a
      BY <2>2, <2>3, <2>6, AuthAssumption DEF Handler, LoginVerify, LoginIssue, RefreshCheck,
         RefreshLoadUser, RefreshRevoke, RefreshIssue, AuthCheck, AuthLoadUser, GetMe,
         ChangePassword, LogoutRevokeAccess, LogoutRevokeRefresh, LogoutFinish, Deliver,
         Start, Reply, Fail, Goto, Revoke, Presented, Idle
    <2> QED
      BY <2>1, <2>7 DEF IsRevoked
  <1>2. IInv /\ [Next]_vars => [A]_vars
    BY <1>1
  <1> QED
    BY <1>2, Inductive, PTL DEF LoggedOutRefused, Spec
-----------------------------------------------------------------------------
(* Logout ends the whole session *)

\* A refresh token that can be exchanged.
Usable(j) == token[j].type = "refresh" /\ ~Expired(j) /\ j \notin revoked

\* Request r has taken the live refresh token j off the market, to exchange it or
\* to log it out.
Using(r, j) == Owner(r, j) /\ token[j].type = "refresh" /\ ~Expired(j)

\* A session, the tokens that descend from one login, has one usable token or one
\* request that uses it, and neither once it is logged out.
OneInSession ==
  /\ \A k \in Issued : token[k].sid \in 1..issued
  /\ \A j, k \in Issued : Usable(j) /\ Usable(k) /\ token[j].sid = token[k].sid => j = k
  /\ \A r \in Req, j, k \in Issued : Using(r, j) /\ Usable(k) => token[j].sid # token[k].sid
  /\ \A r, s \in Req, j, k \in Issued :
       Using(r, j) /\ Using(s, k) /\ token[j].sid = token[k].sid => r = s
  /\ \A j \in loggedOut : token[j].type = "refresh" =>
       /\ \A k \in Issued : Usable(k) => token[j].sid # token[k].sid
       /\ \A r \in Req, k \in Issued : Using(r, k) => token[j].sid # token[k].sid

\* An exchange of an expired token gives its session a second usable token.
SessionInv == ~LateRotation => OneInSession

\* Tokens and sessions stay as they are.
LEMMA SameTokens ==
  ASSUME UNCHANGED <<token, heir>>
  PROVE  Issued' = Issued /\ (LateRotation' <=> LateRotation)
  BY DEF Issued, LateRotation

\* A step that makes no token usable and no request use one.
LEMMA SessionQuiet ==
  ASSUME SessionInv, UNCHANGED <<issued, token, heir, loggedOut>>,
         \A j \in Issued : Usable(j)' => Usable(j),
         \A r \in Req, j \in Issued : Using(r, j)' => Using(r, j)
  PROVE  SessionInv'
  BY SameTokens DEF SessionInv, OneInSession

\* The INSERT of the row of k hands the session over to r.
LEMMA SessionInsert ==
  ASSUME SessionInv, UNCHANGED <<clock, issued, token, heir, loggedOut>>,
         NEW r \in Req, NEW k \in Issued, k \notin revoked, revoked' = revoked \cup {k},
         \A s \in Req, j \in Issued : Owner(s, j)' => Owner(s, j) \/ (s = r /\ j = k),
         \A j \in Issued : ~Owner(r, j)
  PROVE  SessionInv'
  <1>1. \A j : Expired(j)' <=> Expired(j)
    BY DEF Expired
  <1>2. \A j \in Issued : Usable(j)' => Usable(j) /\ j # k
    BY <1>1 DEF Usable
  <1>3. \A s \in Req, j \in Issued : Using(s, j)' => Using(s, j) \/ (s = r /\ j = k /\ Usable(k))
    BY <1>1 DEF Using, Usable
  <1> QED
    BY <1>2, <1>3, SameTokens DEF SessionInv, OneInSession

\* What is signed, besides what IssuePairStep says.
LEMMA IssuePairClaims ==
  ASSUME IInv, NEW u \in User, NEW sid \in Jti, IssuePair(u, sid), clock' = clock
  PROVE  /\ token'[issued + 1].type = "access" /\ token'[issued + 1].sid = sid
         /\ token'[issued + 2].type = "refresh" /\ token'[issued + 2].sid = sid
  <1> DEFINE a == MakeToken("access", u, AccessTTL, sid)
             b == MakeToken("refresh", u, RefreshTTL, sid)
  <1>1. a.type = "access" /\ a.sid = sid /\ b.type = "refresh" /\ b.sid = sid
    BY DEF MakeToken
  <1>2. token \in [Jti -> Token \cup {None}] /\ issued \in Nat
    BY DEF IInv, TypeOK
  <1>3. issued + 2 \in Jti /\ issued + 1 \in Jti /\ issued + 1 # issued + 2
    BY <1>2, IssuePairStep
  <1>4. token' = [token EXCEPT ![issued + 1] = a, ![issued + 2] = b]
    BY DEF IssuePair, NewAccess, NewRefresh
  <1> HIDE DEF a, b
  <1> QED
    BY <1>1, <1>2, <1>3, <1>4

\* Signing a pair for session sid, which has no usable token and nobody using one
\* after this step, and is not logged out.
LEMMA SessionIssue ==
  ASSUME IInv, OneInSession, NEW r \in Req, NEW u \in User, NEW sid \in Jti,
         IssuePair(u, sid), Reply(r, req[r].op, "ok", NewAccess, NewRefresh),
         UNCHANGED <<clock, active, revoked, loggedOut>>, heir' \in [Jti -> SUBSET Jti],
         sid <= issued + 2,
         \A k \in Issued : Usable(k) => token[k].sid # sid,
         \A s \in Req \ {r}, k \in Issued : Using(s, k) => token[k].sid # sid,
         \A j \in loggedOut : token[j].type = "refresh" => token[j].sid # sid
  PROVE  OneInSession'
  <1> DEFINE a == issued + 1
             n == issued + 2
  <1>1. /\ issued' = n /\ n \in Jti /\ a \in Jti /\ issued \in Nat
        /\ \A j \in Issued : token'[j] = token[j]
        /\ Issued' = Issued \cup {a, n} /\ a \notin Issued /\ n \notin Issued
    BY IssuePairStep DEF IInv, TypeOK
  <1>2. /\ token'[a].type = "access" /\ token'[a].sid = sid
        /\ token'[n].type = "refresh" /\ token'[n].sid = sid
    BY IssuePairClaims
  <1>3. /\ \A s \in Req, j \in Jti : Owner(s, j)' => Owner(s, j) /\ s # r
    BY IssueReply
  <1>4. \A s \in Req, j \in Jti : Owner(s, j) => j \in Issued
    BY AuthAssumption DEF Owner, IInv, RequestInv, Holds
  <1>5. /\ loggedOut' = loggedOut /\ loggedOut \subseteq Issued /\ Issued \subseteq Jti
    BY DEF IInv, HistoryInv, Issued
  <1>6. \A j \in Issued : (Expired(j)' <=> Expired(j)) /\ (Usable(j)' <=> Usable(j))
    BY <1>1 DEF Expired, Usable
  <1>7. \A j \in Issued' : Usable(j)' => (j \in Issued /\ Usable(j)) \/ j = n
    BY <1>1, <1>2, <1>6 DEF Usable
  <1>8. \A s \in Req, j \in Issued' : Using(s, j)' => j \in Issued /\ Using(s, j) /\ s # r
    BY <1>1, <1>3, <1>4, <1>5, <1>6 DEF Using
  <1>9. \A k \in Issued' : token'[k].sid \in 1..issued'
    BY <1>1, <1>2 DEF OneInSession, Jti
  <1>10. \A j, k \in Issued' : Usable(j)' /\ Usable(k)' /\ token'[j].sid = token'[k].sid => j = k
    BY <1>1, <1>2, <1>7 DEF OneInSession
  <1>11. \A s \in Req, j, k \in Issued' : Using(s, j)' /\ Usable(k)' => token'[j].sid # token'[k].sid
    BY <1>1, <1>2, <1>7, <1>8 DEF OneInSession
  <1>12. \A s, t \in Req, j, k \in Issued' :
           Using(s, j)' /\ Using(t, k)' /\ token'[j].sid = token'[k].sid => s = t
    BY <1>1, <1>8 DEF OneInSession
  <1>13. \A j \in loggedOut' : token'[j].type = "refresh" =>
           /\ \A k \in Issued' : Usable(k)' => token'[j].sid # token'[k].sid
           /\ \A s \in Req, k \in Issued' : Using(s, k)' => token'[j].sid # token'[k].sid
    BY <1>1, <1>2, <1>5, <1>7, <1>8 DEF OneInSession
  <1> QED
    BY <1>9, <1>10, <1>11, <1>12, <1>13 DEF OneInSession

LEMMA SessionLogin ==
  ASSUME IInv, SessionInv, NEW r \in Req, LoginIssue(r)
  PROVE  SessionInv'
  <1>1. req[r].user \in User
    BY DEF LoginIssue, IInv, RequestInv, Holds, TypeOK, ReqState
  <1>2. NewRefresh \in Jti /\ NewRefresh = issued + 2 /\ issued \in Nat
    BY AuthAssumption DEF LoginIssue, IssuePair, NewRefresh, IInv, TypeOK, Jti
  <1>3. /\ IssuePair(req[r].user, NewRefresh) /\ Reply(r, req[r].op, "ok", NewAccess, NewRefresh)
        /\ UNCHANGED <<clock, active, revoked, loggedOut, heir>>
    BY DEF LoginIssue, history
  <1>4. /\ \A j \in Issued : token'[j] = token[j]
        /\ Issued \subseteq Issued'
    BY <1>1, <1>2, <1>3, IssuePairStep
  <1>5. heir \in [Jti -> SUBSET Jti] /\ loggedOut \subseteq Issued
        /\ \A j \in Issued : j \in Jti /\ heir[j] \subseteq Issued
    BY DEF IInv, TypeOK, HistoryInv, Issued
  <1>6. LateRotation => LateRotation'
    BY <1>3, <1>4, <1>5 DEF LateRotation
  <1>7. ASSUME ~LateRotation PROVE OneInSession'
    <2>1. OneInSession
      BY <1>7 DEF SessionInv
    <2>2. \A k \in Issued : token[k].sid # NewRefresh
      BY <1>2, <2>1 DEF OneInSession
    <2> QED
      BY <1>1, <1>2, <1>3, <1>5, <2>1, <2>2, SessionIssue
  <1> QED
    BY <1>6, <1>7 DEF SessionInv

LEMMA SessionExchange ==
  ASSUME IInv, SessionInv, NEW r \in Req, RefreshIssue(r)
  PROVE  SessionInv'
  <1> DEFINE k == req[r].ref
             n == issued + 2
  <1>1. /\ req[r].user \in User /\ k \in Issued /\ k \in Jti /\ token[k].type = "refresh"
        /\ Owner(r, k) /\ token[k] \in Token
    BY AuthAssumption
       DEF RefreshIssue, IInv, RequestInv, Holds, TypeOK, ReqState, Issued, Owner
  <1>2. token[k].sid \in Jti
    BY <1>1 DEF Token
  <1>3. /\ IssuePair(req[r].user, token[k].sid)
        /\ Reply(r, req[r].op, "ok", NewAccess, NewRefresh)
        /\ heir' = [heir EXCEPT ![k] = @ \cup {n}]
        /\ UNCHANGED <<clock, active, revoked, loggedOut>>
    BY DEF RefreshIssue, NewRefresh
  <1>4. /\ \A j \in Issued : token'[j] = token[j] /\ token'[n].iat = clock
        /\ Issued \subseteq Issued' /\ n \in Jti
    BY <1>1, <1>2, <1>3, IssuePairStep
  <1>5. /\ heir \in [Jti -> SUBSET Jti] /\ loggedOut \subseteq Issued
        /\ \A j \in Issued : j \in Jti /\ heir[j] \subseteq Issued
    BY DEF IInv, TypeOK, HistoryInv, Issued
  <1>6. heir' \in [Jti -> SUBSET Jti] /\ \A j \in Jti : heir[j] \subseteq heir'[j]
    BY <1>1, <1>3, <1>4, <1>5
  <1>7. LateRotation => LateRotation'
    <2>1. ASSUME NEW j \in Issued, NEW h \in heir[j], token[h].iat > token[j].exp
          PROVE  LateRotation'
      <3>1. j \in Issued' /\ h \in heir'[j] /\ token'[h] = token[h] /\ token'[j] = token[j]
        BY <1>4, <1>5, <1>6
      <3> QED
        BY <2>1, <3>1 DEF LateRotation
    <2> QED
      BY <2>1 DEF LateRotation
  <1>8. CASE Expired(k)
    <2>1. k \in Issued' /\ n \in heir'[k] /\ token'[n].iat = clock /\ token'[k].exp = token[k].exp
      BY <1>1, <1>3, <1>4, <1>5
    <2>2. token[k].exp \in Nat /\ clock \in Nat
      BY <1>1 DEF Token, IInv, TypeOK
    <2>3. token'[n].iat > token'[k].exp
      BY <1>8, <2>1, <2>2 DEF Expired
    <2> QED
      BY <2>1, <2>3 DEF LateRotation, SessionInv
  <1>9. ASSUME ~Expired(k), ~LateRotation PROVE OneInSession'
    <2>1. OneInSession
      BY <1>9 DEF SessionInv
    <2>2. Using(r, k)
      BY <1>1, <1>9 DEF Using
    <2>3. token[k].sid <= issued + 2
      <3>1. token[k].sid \in 1..issued /\ issued \in Nat
        BY <1>1, <2>1 DEF OneInSession, IInv, TypeOK
      <3> QED
        BY <3>1
    <2>4. /\ \A j \in Issued : Usable(j) => token[j].sid # token[k].sid
          /\ \A s \in Req \ {r}, j \in Issued : Using(s, j) => token[j].sid # token[k].sid
          /\ \A j \in loggedOut : token[j].type = "refresh" => token[j].sid # token[k].sid
      BY <1>1, <2>1, <2>2 DEF OneInSession
    <2> QED
      BY <1>1, <1>2, <1>3, <1>6, <2>1, <2>3, <2>4, SessionIssue
  <1> QED
    BY <1>7, <1>8, <1>9 DEF SessionInv

\* A 204: the request that used the session is done, and the session is over.
LEMMA SessionFinish ==
  ASSUME IInv, SessionInv, NEW r \in Req, LogoutFinish(r)
  PROVE  SessionInv'
  <1>1. /\ UNCHANGED <<clock, issued, token, revoked, heir>> /\ req[r].pc = "refresh_handled"
        /\ req \in [Req -> ReqState] /\ Holds(req[r])
        /\ loggedOut' = loggedOut \cup {j \in Jti \cap {req[r].acc, req[r].ref} : ~Expired(j)}
    BY DEF LogoutFinish, IInv, TypeOK, RequestInv
  <1>2. /\ req'[r].pc = "replied" /\ \A s \in Req : s # r => req'[s] = req[s]
    BY <1>1 DEF LogoutFinish, Reply
  <1>3. /\ \A j : (Expired(j)' <=> Expired(j)) /\ (Usable(j)' <=> Usable(j))
        /\ \A s \in Req : \A j : Using(s, j)' => Using(s, j) /\ s # r
    BY <1>1, <1>2 DEF Expired, Usable, Using, Owner
  <1>4. ASSUME NEW j \in loggedOut', token[j].type = "refresh"
        PROVE  j \in loggedOut \/ (j \in Issued /\ Using(r, j))
    <2>1. CASE j \in loggedOut
      BY <2>1
    <2>2. CASE j = req[r].acc /\ j \in Jti
      BY <1>1, <1>4, <2>2, AuthAssumption DEF Holds
    <2>3. CASE j = req[r].ref /\ j \in Jti /\ ~Expired(j)
      <3>1. j \in Issued
        BY <1>1, <2>3, AuthAssumption DEF Holds
      <3> QED
        BY <1>1, <1>4, <2>3, <3>1 DEF Using, Owner
    <2> QED
      BY <1>1, <1>4, <2>1, <2>2, <2>3
  <1>5. ASSUME OneInSession PROVE OneInSession'
    <2>1. Issued' = Issued
      BY <1>1, SameTokens
    <2>2. ASSUME NEW j \in loggedOut', token[j].type = "refresh"
          PROVE  /\ \A k \in Issued : Usable(k) => token[j].sid # token[k].sid
                 /\ \A s \in Req \ {r}, k \in Issued : Using(s, k) => token[j].sid # token[k].sid
      BY <1>4, <1>5, <2>2 DEF OneInSession
    <2> QED
      BY <1>1, <1>3, <1>5, <2>1, <2>2 DEF OneInSession
  <1> QED
    BY <1>1, <1>5, SameTokens DEF SessionInv

\* The other steps of a handler.
LEMMA SessionRest ==
  ASSUME IInv, SessionInv, NEW r \in Req, UNCHANGED <<clock, issued, token, revoked, heir, loggedOut>>,
         \/ req'[r].pc \notin {"refresh_revoked", "refresh_handled"}
         \/ req'[r].ref = None,
         \A s \in Req : s # r => req'[s] = req[s]
  PROVE  SessionInv'
  <1>1. \A s \in Req, j \in Issued : Owner(s, j)' => Owner(s, j)
    BY AuthAssumption DEF Owner, Issued
  <1>2. /\ \A j : Usable(j)' => Usable(j)
        /\ \A s \in Req, j \in Issued : Using(s, j)' => Using(s, j)
    BY <1>1 DEF Usable, Using, Expired
  <1> QED
    BY <1>2, SessionQuiet

LEMMA SessionRevoke ==
  ASSUME IInv, SessionInv, NEW r \in Req, NEW k \in Issued, NEW next \in PC, Revoke(r, k, next),
         \/ next = "refresh_revoked" /\ req[r].ref = k
         \/ next = "access_revoked"
         \/ next = "refresh_handled" /\ req[r].ref = k,
         req[r].pc \notin {"refresh_revoked", "refresh_handled"},
         UNCHANGED <<clock, issued, token, heir, loggedOut>>
  PROVE  SessionInv'
  <1>1. req \in [Req -> ReqState] /\ req[r] \in ReqState
    BY DEF IInv, TypeOK
  <1>2. CASE k \notin revoked
    <2>1. revoked' = revoked \cup {k} /\ req' = [req EXCEPT ![r].pc = next]
      BY <1>2 DEF Revoke, Goto
    <2>2. /\ req'[r].pc = next /\ req'[r].ref = req[r].ref
          /\ \A s \in Req : s # r => req'[s] = req[s]
      BY <1>1, <2>1 DEF ReqState
    <2>3. \A s \in Req, j \in Issued : Owner(s, j)' => Owner(s, j) \/ (s = r /\ j = k)
      BY <2>2 DEF Owner
    <2>4. \A j \in Issued : ~Owner(r, j)
      BY DEF Owner
    <2> QED
      BY <1>2, <2>1, <2>3, <2>4, SessionInsert
  <1>3. CASE k \in revoked
    <2>1. /\ UNCHANGED revoked /\ req'[r].pc = "replied"
          /\ \A s \in Req : s # r => req'[s] = req[s]
      BY <1>1, <1>3 DEF Revoke, Fail, Reply
    <2> QED
      BY <2>1, SessionRest
  <1> QED
    BY <1>2, <1>3

LEMMA SessionHandler ==
  ASSUME IInv, SessionInv, NEW r \in Req, Handler(r)
  PROVE  SessionInv'
  <1> USE DEF history
  <1>0. req \in [Req -> ReqState] /\ req[r] \in ReqState /\ Holds(req[r])
    BY DEF IInv, TypeOK, RequestInv
  \* A request that moves on within its handler, or replies.
  <1>1. ASSUME NEW q, req' = [req EXCEPT ![r] = q], q.pc \notin {"refresh_revoked", "refresh_handled"},
               UNCHANGED <<clock, issued, token, revoked, heir, loggedOut>>
        PROVE  SessionInv'
    BY <1>0, <1>1, SessionRest
  <1>2. ASSUME NEW op, NEW status, NEW acc, NEW cookie, Reply(r, op, status, acc, cookie),
               UNCHANGED <<clock, issued, token, revoked, heir, loggedOut>>
        PROVE  SessionInv'
    BY <1>1, <1>2 DEF Reply
  <1>3. ASSUME NEW op, NEW u, NEW acc, NEW ref, NEW pc, Start(r, op, u, acc, ref, pc),
               pc \in {"login_verified", "refresh_checked", "auth_checked"},
               UNCHANGED <<clock, issued, token, revoked, heir, loggedOut>>
        PROVE  SessionInv'
    BY <1>1, <1>3 DEF Start
  <1>4. ASSUME NEW pc, Goto(r, pc), pc \in {"refresh_loaded", "authed"},
               UNCHANGED <<clock, issued, token, revoked, heir, loggedOut>>
        PROVE  SessionInv'
    <2>1. [req[r] EXCEPT !.pc = pc].pc = pc /\ req' = [req EXCEPT ![r] = [req[r] EXCEPT !.pc = pc]]
      BY <1>0, <1>4 DEF Goto, ReqState
    <2> QED
      BY <1>0, <1>4, <2>1, SessionRest
  <1>5. CASE \E u \in User, ok \in BOOLEAN : LoginVerify(r, u, ok)
    BY <1>2, <1>3, <1>5 DEF LoginVerify, Fail
  <1>6. CASE \E j \in Issued : RefreshCheck(r, j)
    BY <1>2, <1>3, <1>6 DEF RefreshCheck, Fail
  <1>7. CASE RefreshLoadUser(r)
    BY <1>2, <1>4, <1>7 DEF RefreshLoadUser, Fail
  <1>8. CASE RefreshRevoke(r)
    BY <1>0, <1>8, SessionRevoke DEF RefreshRevoke, Holds, PC
  <1>9. CASE \E a \in Issued, op \in Endpoint, c \in Cookie : AuthCheck(r, a, op, c)
    BY <1>2, <1>3, <1>9 DEF AuthCheck, Fail
  <1>10. CASE AuthLoadUser(r)
    BY <1>2, <1>4, <1>10 DEF AuthLoadUser, Fail
  <1>11. CASE GetMe(r) \/ \E ok \in BOOLEAN : ChangePassword(r, ok)
    BY <1>2, <1>11 DEF GetMe, ChangePassword, Fail
  <1>12. CASE LogoutRevokeAccess(r)
    <2>1. CASE Decodes(req[r].acc)
      BY <1>0, <1>12, <2>1, SessionRevoke DEF LogoutRevokeAccess, Holds, PC
    <2>2. CASE ~Decodes(req[r].acc)
      BY <1>2, <1>12, <2>2 DEF LogoutRevokeAccess, Fail
    <2> QED
      BY <2>1, <2>2
  <1>13. CASE LogoutRevokeRefresh(r)
    <2> DEFINE c == req[r].ref
    <2>1. CASE c # None /\ Decodes(c) /\ token[c].type = "refresh"
      BY <1>0, <1>13, <2>1, SessionRevoke DEF LogoutRevokeRefresh, Holds, PC
    <2>2. CASE ~(c # None /\ Decodes(c) /\ token[c].type = "refresh")
      <3>1. /\ req' = [req EXCEPT ![r].pc = "refresh_handled", ![r].ref = None]
            /\ UNCHANGED <<clock, issued, token, revoked, heir, loggedOut>>
        BY <1>13, <2>2 DEF LogoutRevokeRefresh
      <3>2. req'[r].ref = None /\ \A s \in Req : s # r => req'[s] = req[s]
        BY <1>0, <3>1 DEF ReqState
      <3> QED
        BY <3>1, <3>2, SessionRest
    <2> QED
      BY <2>1, <2>2
  <1>14. CASE Deliver(r)
    BY <1>1, <1>14 DEF Deliver, Idle
  <1> QED
    BY <1>5, <1>6, <1>7, <1>8, <1>9, <1>10, <1>11, <1>12, <1>13, <1>14,
       SessionLogin, SessionExchange, SessionFinish DEF Handler

LEMMA SessionNext ==
  ASSUME IInv, SessionInv, [Next]_vars
  PROVE  SessionInv'
  <1>1. \A j \in Issued : token[j].exp \in Nat /\ clock \in Nat
    BY DEF Issued, IInv, TypeOK, Token
  <1>2. ASSUME UNCHANGED <<issued, token, heir, loggedOut>>,
               UNCHANGED req \/ \A s \in Req : req'[s] = Idle,
               clock' = clock \/ (clock' = clock + 1 /\ UNCHANGED revoked),
               \A j \in Issued : j \in revoked => j \in revoked' \/ Expired(j)
        PROVE  SessionInv'
    <2>1. \A j \in Issued : Expired(j) => Expired(j)'
      BY <1>1, <1>2 DEF Expired
    <2>2. \A j \in Issued : Usable(j)' => Usable(j)
      BY <1>2, <2>1 DEF Usable
    <2>3. \A s \in Req, j \in Issued : Using(s, j)' => Using(s, j)
      BY <1>2, <2>1 DEF Using, Owner, Idle
    <2> QED
      BY <1>2, <2>2, <2>3, SessionQuiet
  <1>3. ASSUME NEW u \in User, SetActive(u) PROVE SessionInv'
    BY <1>2, <1>3 DEF SetActive, history
  <1>4. CASE PurgeExpired
    BY <1>2, <1>4 DEF PurgeExpired, history
  <1>5. CASE Tick
    BY <1>2, <1>5 DEF Tick, history
  <1>6. CASE Crash
    BY <1>2, <1>6 DEF Crash, history
  <1>7. CASE UNCHANGED vars
    BY <1>2, <1>7 DEF vars
  <1> QED
    BY <1>3, <1>4, <1>5, <1>6, <1>7, SessionHandler DEF Next

LEMMA SessionInit == Init => SessionInv
  <1> SUFFICES ASSUME Init PROVE OneInSession
    BY DEF SessionInv
  <1>1. Issued = {} /\ loggedOut = {}
    BY DEF Init, Issued
  <1> QED
    BY <1>1 DEF OneInSession

\* After the 204 of a logout no refresh token that descends from the same login
\* can be exchanged, and no request that will exchange one is under way, unless a
\* request has exchanged a token that expired while it stalled.
THEOREM LogoutEndsTheSession == Spec => []LogoutEndsSession
  <1>1. ASSUME IInv, SessionInv PROVE LogoutEndsSession
    <2>1. SUFFICES ASSUME OneInSession, NEW j \in loggedOut, token[j].type = "refresh"
                   PROVE  /\ \A k \in Issued : token[k].type = "refresh" /\ token[k].sid = token[j].sid
                                                 => k \in revoked \/ Expired(k)
                          /\ \A r \in Req : req[r].pc = "refresh_revoked"
                                            /\ token[req[r].ref].sid = token[j].sid
                                                 => Expired(req[r].ref)
      BY <1>1 DEF SessionInv, LogoutEndsSession
    <2>2. \A k \in Issued : token[k].type = "refresh" /\ token[k].sid = token[j].sid
                              => k \in revoked \/ Expired(k)
      BY <2>1 DEF OneInSession, Usable
    <2>3. ASSUME NEW r \in Req, req[r].pc = "refresh_revoked", token[req[r].ref].sid = token[j].sid
          PROVE  Expired(req[r].ref)
      <3>1. req[r].ref \in Issued /\ token[req[r].ref].type = "refresh"
        BY <1>1, <2>3 DEF IInv, RequestInv, Holds
      <3>2. Owner(r, req[r].ref)
        BY <2>3 DEF Owner
      <3> QED
        BY <2>1, <2>3, <3>1, <3>2 DEF OneInSession, Using
    <2> QED
      BY <2>2, <2>3
  <1>2. IInv /\ SessionInv /\ [Next]_vars => SessionInv'
    BY SessionNext
  <1> QED
    BY <1>1, <1>2, SessionInit, Inductive, PTL DEF Spec

-----------------------------------------------------------------------------
(* AuthTokens implements TokenLedger.  The refinement maps a token to what *)
(* has become of it: its claims, the clock and the denylist are all it     *)
(* takes.  Most steps of the handlers stutter; the ones that do not are    *)
(* the INSERT into token_revocations (Spend), the signing of a pair        *)
(* (SignIn, Exchange) and the clock (Die).                                 *)

LedgerStep == [Ledger!Next]_Ledger!ledger

LEMMA SameFate ==
  ASSUME UNCHANGED <<clock, token, revoked, heir>>
  PROVE  LedgerStep
  BY DEF LedgerStep, Ledger!ledger, Fate, Expired

\* A token's fate is one of the four of the ledger.
LEMMA FateCases ==
  ASSUME NEW j \in Jti
  PROVE  /\ Fate(j) = "unsigned" <=> token[j] = None
         /\ Fate(j) = "dead" <=> token[j] # None /\ Expired(j)
         /\ Fate(j) = "spent" <=> token[j] # None /\ ~Expired(j) /\ j \in revoked
         /\ Fate(j) = "live" <=> token[j] # None /\ ~Expired(j) /\ j \notin revoked
  BY DEF Fate

\* The INSERT of a row spends its token, unless the token is dead anyway.
LEMMA InsertFate ==
  ASSUME NEW j \in Issued, revoked' = revoked \cup {j}, UNCHANGED <<clock, token, heir>>
  PROVE  LedgerStep
  <1>1. j \in Jti /\ token[j] # None
    BY DEF Issued
  <1>2. \A k \in Jti : k # j => Fate(k)' = Fate(k)
    BY DEF Fate, Expired
  <1>3. CASE Fate(j) = "live"
    <2>1. Fate(j)' = "spent"
      BY <1>1, <1>3, FateCases DEF Fate, Expired
    <2>2. Ledger!Spend({j})
      BY <1>1, <1>2, <1>3, <2>1 DEF Ledger!Spend, Ledger!With
    <2>3. {j} \in SUBSET Ledger!With("live")
      BY <1>1, <1>3 DEF Ledger!With
    <2> QED
      BY <2>2, <2>3 DEF LedgerStep, Ledger!Next
  <1>4. CASE Fate(j) # "live"
    <2>1. Fate(j)' = Fate(j)
      BY <1>1, <1>4, FateCases DEF Fate, Expired
    <2> QED
      BY <1>2, <2>1 DEF LedgerStep, Ledger!ledger
  <1> QED
    BY <1>3, <1>4

\* Signing a pair.
LEMMA SignFate ==
  ASSUME IInv, NEW u \in User, NEW sid \in Jti, IssuePair(u, sid), UNCHANGED <<clock, revoked>>
  PROVE  /\ NewAccess \in Ledger!With("unsigned") /\ NewRefresh \in Ledger!With("unsigned")
         /\ \E dead \in SUBSET {NewAccess, NewRefresh} :
              Ledger!Sign(NewAccess, NewRefresh, dead)
  <1> DEFINE a == NewAccess
             r == NewRefresh
             dead == {k \in {a, r} : Expired(k)'}
  <1>1. a \in Jti /\ r \in Jti /\ a # r
    BY AuthAssumption DEF IssuePair, NewAccess, NewRefresh, Jti, IInv, TypeOK
  <1>2. token[a] = None /\ token[r] = None
    BY <1>1 DEF IInv, TokenInv, TypeOK, NewAccess, NewRefresh, Jti
  <1>3. Fate(a) = "unsigned" /\ Fate(r) = "unsigned"
    BY <1>1, <1>2, FateCases
  <1>4. a \notin revoked /\ r \notin revoked
    BY <1>2 DEF IInv, HistoryInv, Issued
  <1>5. /\ \A k \in Jti : k \notin {a, r} => token'[k] = token[k]
        /\ token'[a] # None /\ token'[r] # None
    BY <1>1, AuthAssumption, MakeTokenType DEF IssuePair, IInv, TypeOK
  <1>6. \A k \in Jti : k \notin {a, r} => Fate(k)' = Fate(k)
    BY <1>5 DEF Fate, Expired
  <1>7. \A k \in {a, r} : Fate(k)' = IF k \in dead THEN "dead" ELSE "live"
    BY <1>1, <1>4, <1>5 DEF Fate
  <1>8. {a, r} \subseteq Ledger!With("unsigned")
    BY <1>1, <1>3 DEF Ledger!With
  <1>9. Ledger!Sign(a, r, dead)
    BY <1>1, <1>6, <1>7, <1>8 DEF Ledger!Sign
  <1>10. dead \in SUBSET {a, r}
    OBVIOUS
  <1> QED
    BY <1>8, <1>9, <1>10

LEMMA LoginFate ==
  ASSUME IInv, NEW r \in Req, LoginIssue(r)
  PROVE  LedgerStep
  <1>1. req[r].user \in User
    BY AuthAssumption DEF LoginIssue, IInv, TypeOK, RequestInv, Holds, ReqState
  <1>2. NewRefresh \in Jti
    BY AuthAssumption DEF LoginIssue, IssuePair, NewRefresh, Jti, IInv, TypeOK
  <1>3. UNCHANGED <<clock, revoked, heir>> /\ IssuePair(req[r].user, NewRefresh)
    BY DEF LoginIssue, history
  <1>4. PICK dead \in SUBSET {NewAccess, NewRefresh} :
          Ledger!Sign(NewAccess, NewRefresh, dead)
    BY <1>1, <1>2, <1>3, SignFate
  <1>5. Ledger!SignIn(NewAccess, NewRefresh, dead)
    BY <1>3, <1>4 DEF Ledger!SignIn
  <1> QED
    BY <1>1, <1>2, <1>3, <1>5, SignFate DEF LedgerStep, Ledger!Next

LEMMA ExchangeFate ==
  ASSUME IInv, NEW r \in Req, RefreshIssue(r)
  PROVE  LedgerStep
  <1> DEFINE j == req[r].ref
  <1>1. req[r].user \in User /\ j \in Issued /\ j \in Jti /\ token[j].sid \in Jti
    BY AuthAssumption DEF RefreshIssue, IInv, TypeOK, RequestInv, Holds, ReqState, Issued, Token
  <1>2. /\ UNCHANGED <<clock, revoked>> /\ IssuePair(req[r].user, token[j].sid)
        /\ heir' = [heir EXCEPT ![j] = @ \cup {NewRefresh}]
    BY DEF RefreshIssue
  <1>3. PICK dead \in SUBSET {NewAccess, NewRefresh} :
          Ledger!Sign(NewAccess, NewRefresh, dead)
    BY <1>1, <1>2, SignFate
  <1>4. Owner(r, j)
    BY DEF Owner, RefreshIssue
  <1>5. Expired(j) \/ (j \in revoked /\ heir[j] = {})
    BY <1>1, <1>4 DEF IInv, Exclusive
  <1>6. Fate(j) = "dead" \/ (Fate(j) = "spent" /\ heir[j] = {})
    BY <1>1, <1>5, FateCases DEF Issued
  <1>7. Ledger!Exchange(j, NewAccess, NewRefresh, dead)
    BY <1>1, <1>2, <1>3, <1>6 DEF Ledger!Exchange
  <1>8. j \in Ledger!With("spent") \cup Ledger!With("dead")
    BY <1>1, <1>6 DEF Ledger!With
  <1>9. NewAccess \in Ledger!With("unsigned") /\ NewRefresh \in Ledger!With("unsigned")
    BY <1>1, <1>2, SignFate
  <1> QED
    BY <1>7, <1>8, <1>9 DEF LedgerStep, Ledger!Next

\* Time passes: tokens die, spent or not.
LEMMA TickFate ==
  ASSUME IInv, Tick
  PROVE  LedgerStep
  <1> DEFINE S == {j \in Issued : ~Expired(j) /\ Expired(j)'}
  <1>1. /\ clock \in Nat /\ clock' = clock + 1
        /\ UNCHANGED <<token, revoked, heir>>
    BY DEF Tick, IInv, TypeOK, history
  <1>2. \A j \in Issued : token[j].exp \in Nat
    BY DEF Issued, IInv, TypeOK, Token
  <1>3. \A j \in Issued : Expired(j) => Expired(j)'
    BY <1>1, <1>2 DEF Expired
  <1>4. \A j \in Jti : Fate(j)' = IF j \in S THEN "dead" ELSE Fate(j)
    BY <1>1, <1>3 DEF Fate, Issued
  <1>5. S \subseteq Ledger!With("live") \cup Ledger!With("spent")
    BY FateCases DEF Ledger!With, Issued
  <1>6. Ledger!Die(S)
    BY <1>1, <1>4, <1>5 DEF Ledger!Die
  <1> QED
    BY <1>5, <1>6 DEF LedgerStep, Ledger!Next

\* The purge removes rows of dead tokens only.
LEMMA PurgeFate ==
  ASSUME PurgeExpired
  PROVE  LedgerStep
  <1>1. \A j \in Jti : Fate(j)' = Fate(j)
    BY DEF PurgeExpired, Fate, Expired
  <1> QED
    BY <1>1 DEF LedgerStep, Ledger!ledger, PurgeExpired, history

LEMMA RevokeFate ==
  ASSUME IInv, NEW r \in Req, NEW j \in Issued, NEW next \in PC, Revoke(r, j, next),
         UNCHANGED <<clock, token, heir>>
  PROVE  LedgerStep
  BY InsertFate, SameFate DEF Revoke

LEMMA HandlerFate ==
  ASSUME IInv, NEW r \in Req, Handler(r)
  PROVE  LedgerStep
  <1> USE DEF history
  <1>1. CASE \E u \in User, ok \in BOOLEAN : LoginVerify(r, u, ok)
    BY <1>1, SameFate DEF LoginVerify
  <1>2. CASE LoginIssue(r)
    BY <1>2, LoginFate
  <1>3. CASE \E j \in Issued : RefreshCheck(r, j)
    BY <1>3, SameFate DEF RefreshCheck
  <1>4. CASE RefreshLoadUser(r)
    BY <1>4, SameFate DEF RefreshLoadUser
  <1>5. CASE RefreshRevoke(r)
    <2>1. req[r].ref \in Issued
      BY <1>5 DEF RefreshRevoke, IInv, RequestInv, Holds
    <2> QED
      BY <1>5, <2>1, RevokeFate DEF RefreshRevoke, PC
  <1>6. CASE RefreshIssue(r)
    BY <1>6, ExchangeFate
  <1>7. CASE \E a \in Issued, op \in Endpoint, c \in Cookie : AuthCheck(r, a, op, c)
    BY <1>7, SameFate DEF AuthCheck
  <1>8. CASE AuthLoadUser(r) \/ GetMe(r) \/ \E ok \in BOOLEAN : ChangePassword(r, ok)
    BY <1>8, SameFate DEF AuthLoadUser, GetMe, ChangePassword
  <1>9. CASE LogoutRevokeAccess(r)
    <2>1. req[r].acc \in Issued
      BY <1>9 DEF LogoutRevokeAccess, IInv, RequestInv, Holds
    <2>2. CASE Decodes(req[r].acc)
      BY <1>9, <2>1, <2>2, RevokeFate DEF LogoutRevokeAccess, PC
    <2>3. CASE ~Decodes(req[r].acc)
      BY <1>9, <2>3, SameFate DEF LogoutRevokeAccess
    <2> QED
      BY <2>2, <2>3
  <1>10. CASE LogoutRevokeRefresh(r)
    <2> DEFINE c == req[r].ref
    <2>1. CASE c # None /\ Decodes(c) /\ token[c].type = "refresh"
      <3>1. c \in Issued
        BY <2>1 DEF IInv, RequestInv, Holds
      <3> QED
        BY <1>10, <2>1, <3>1, RevokeFate DEF LogoutRevokeRefresh, PC
    <2>2. CASE ~(c # None /\ Decodes(c) /\ token[c].type = "refresh")
      BY <1>10, <2>2, SameFate DEF LogoutRevokeRefresh
    <2> QED
      BY <2>1, <2>2
  <1>11. CASE LogoutFinish(r) \/ Deliver(r)
    BY <1>11, SameFate DEF LogoutFinish, Deliver
  <1> QED
    BY <1>1, <1>2, <1>3, <1>4, <1>5, <1>6, <1>7, <1>8, <1>9, <1>10, <1>11 DEF Handler

\* The token endpoints, the denylist and its purge implement TokenLedger.
THEOREM LedgerRefinement == Spec => ImplementsLedger
  <1>1. Init => Ledger!Init
    BY DEF Init, Ledger!Init, Fate
  <1>2. ASSUME IInv, Next PROVE LedgerStep
    <2>1. CASE \E r \in Req : Handler(r)
      BY <1>2, <2>1, HandlerFate
    <2>2. CASE (\E u \in User : SetActive(u)) \/ Crash
      BY <2>2, SameFate DEF SetActive, Crash, history
    <2>3. CASE PurgeExpired \/ Tick
      BY <1>2, <2>3, PurgeFate, TickFate
    <2> QED
      BY <1>2, <2>1, <2>2, <2>3 DEF Next
  <1>3. UNCHANGED vars => LedgerStep
    BY SameFate DEF vars
  <1>4. IInv /\ [Next]_vars => [Ledger!Next]_Ledger!ledger
    BY <1>2, <1>3 DEF LedgerStep
  <1> QED
    BY <1>1, <1>4, Inductive, PTL DEF Spec, ImplementsLedger, Ledger!Spec
=============================================================================
