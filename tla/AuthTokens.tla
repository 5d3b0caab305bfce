----------------------------- MODULE AuthTokens -----------------------------
(***************************************************************************)
(* JWT sessions of the backend: login, refresh-token rotation, logout,     *)
(* change-password and the get_current_user dependency                     *)
(* (app/api/v1/endpoints/auth.py, app/core/security.py), the denylist      *)
(* table token_revocations (app/crud/token_revocation.py) and the daily    *)
(* purge of it (app/tasks/cleanup_jobs.py).                                *)
(*                                                                         *)
(* FastAPI runs every request as a coroutine: other requests run at each   *)
(* await of a database call.  A handler is therefore a small state machine *)
(* with one action per database round trip.  Tokens are self-contained     *)
(* JWTs: nothing about a live token is stored, only revoked jtis are.      *)
(***************************************************************************)
EXTENDS Integers, FiniteSets

CONSTANTS User,            \* rows of the users table
          Req,             \* concurrent HTTP requests
          Endpoint,        \* the authenticated endpoints that clients call
          None, Clear,     \* "no value"; "Set-Cookie that deletes the cookie"
          MaxTokens,       \* bound: how many JWTs a behaviour may sign
          MaxTime,         \* bound: the last clock tick
          TicksPerSecond,  \* clock resolution (JWT exp claims have whole seconds)
          AccessTTL, RefreshTTL   \* token lifetimes, in seconds

\* JWT ids (uuid4 in the code).
Jti == 1..MaxTokens

\* Claims of a JWT; iat and sid are history: the signing instant, and the
\* refresh token of the login that started the session.
Token == [type : {"access", "refresh"}, sub : User, exp : Nat, iat : Nat, sid : Jti]

ASSUME AuthAssumption ==
  /\ None \notin Jti /\ Clear \notin Jti /\ None # Clear
  /\ None \notin User /\ None \notin Token
  /\ Endpoint \subseteq {"logout", "change_password", "me"}
  /\ MaxTokens \in Nat /\ MaxTime \in Nat
  /\ TicksPerSecond \in Nat \ {0}
  /\ AccessTTL \in Nat /\ RefreshTTL \in Nat

VARIABLES
  clock,      \* wall clock of the server
  active,     \* users.is_active
  issued,     \* number of tokens signed so far; uuid4 jtis are 1, 2, ...
  token,      \* claims of every signed token
  revoked,    \* jtis with a row in token_revocations
  req,        \* the state of each request's coroutine
  heir,       \* history: refresh tokens issued in exchange for a refresh token
  loggedOut   \* history: tokens whose logout was answered 204 before they expired

vars == <<clock, active, issued, token, revoked, req, heir, loggedOut>>
history == <<heir, loggedOut>>

-----------------------------------------------------------------------------
(* Tokens *)

Issued == {j \in Jti : token[j] # None}

\* What a refresh cookie may hold.
Cookie == {j \in Issued : token[j].type = "refresh"} \cup {None}

WholeSecond(t) == (t \div TicksPerSecond) * TicksPerSecond

\* _make_token: exp = now + delta, encoded as whole seconds since the epoch.
MakeToken(type, user, ttl, sid) ==
  [type |-> type, sub |-> user, exp |-> WholeSecond(clock + ttl * TicksPerSecond),
   iat |-> clock, sid |-> sid]

\* jwt.decode accepts a token until its exp second is over.
Decodes(j) == token[j].exp >= WholeSecond(clock)

\* purge_expired deletes the row of a token when its exp is in the past.
Expired(j) == token[j].exp < clock

IsRevoked(j) == j \in revoked

\* create_access_token and create_refresh_token, always called together.
NewAccess  == issued + 1
NewRefresh == issued + 2
IssuePair(user, sid) ==
  /\ NewRefresh <= MaxTokens
  /\ issued' = NewRefresh
  /\ token' = [token EXCEPT ![NewAccess]  = MakeToken("access", user, AccessTTL, sid),
                            ![NewRefresh] = MakeToken("refresh", user, RefreshTTL, sid)]

-----------------------------------------------------------------------------
(* Requests *)

Op == {"none", "login", "refresh", "logout", "change_password", "me"}
PC == {"idle", "login_verified", "refresh_checked", "refresh_loaded", "refresh_revoked",
       "auth_checked", "authed", "access_revoked", "refresh_handled", "replied"}

ReqState == [pc : PC, op : Op, user : User \cup {None},
             acc : Jti \cup {None},             \* bearer token; access token in the reply
             ref : Jti \cup {None},             \* refresh token presented
             status : {"none", "ok", "unauthorized", "bad_request", "error"},
             cookie : Jti \cup {None, Clear}]   \* Set-Cookie of the reply

Idle == [pc |-> "idle", op |-> "none", user |-> None, acc |-> None, ref |-> None,
         status |-> "none", cookie |-> None]

Goto(r, pc) == req' = [req EXCEPT ![r].pc = pc]

Start(r, op, user, acc, ref, pc) ==
  req' = [req EXCEPT ![r] = [pc |-> pc, op |-> op, user |-> user, acc |-> acc, ref |-> ref,
                             status |-> "none", cookie |-> None]]

\* The response of r; what the coroutine knew is gone.
Reply(r, op, status, acc, cookie) ==
  req' = [req EXCEPT ![r] = [pc |-> "replied", op |-> op, user |-> None, acc |-> acc,
                             ref |-> None, status |-> status, cookie |-> cookie]]

\* The handler raises: an error response without a Set-Cookie header.
Fail(r, op, status) == Reply(r, op, status, None, None)

\* Mutant: INSERT ... ON CONFLICT DO NOTHING.
RevokeUpsert(r, j, next) ==
  /\ revoked' = revoked \cup {j}
  /\ Goto(r, next)

\* crud_token_revocation.revoke: INSERT and COMMIT.  The jti is the primary
\* key, so the second of two inserts fails with an IntegrityError, which no
\* handler catches.
Revoke(r, j, next) ==
  \/ /\ j \notin revoked
     /\ revoked' = revoked \cup {j}
     /\ Goto(r, next)
  \/ /\ j \in revoked
     /\ Fail(r, req[r].op, "error")
     /\ UNCHANGED revoked

-----------------------------------------------------------------------------
(* POST /auth/login *)

LoginVerify(r, u, passwordOk) ==
  /\ req[r].pc = "idle"
  /\ IF active[u] /\ passwordOk
     THEN Start(r, "login", u, None, None, "login_verified")
     ELSE Fail(r, "login", "unauthorized")
  /\ UNCHANGED <<clock, active, issued, token, revoked, history>>

LoginIssue(r) ==
  /\ req[r].pc = "login_verified"
  /\ IssuePair(req[r].user, NewRefresh)
  /\ Reply(r, req[r].op, "ok", NewAccess, NewRefresh)
  /\ UNCHANGED <<clock, active, revoked, history>>

-----------------------------------------------------------------------------
(* POST /auth/refresh *)

RefreshCheck(r, j) ==
  /\ req[r].pc = "idle"
  /\ IF Decodes(j) /\ token[j].type = "refresh" /\ ~IsRevoked(j)
     THEN Start(r, "refresh", token[j].sub, None, j, "refresh_checked")
     ELSE Fail(r, "refresh", "unauthorized")
  /\ UNCHANGED <<clock, active, issued, token, revoked, history>>

RefreshLoadUser(r) ==
  /\ req[r].pc = "refresh_checked"
  /\ IF active[req[r].user] THEN Goto(r, "refresh_loaded") ELSE Fail(r, req[r].op, "unauthorized")
  /\ UNCHANGED <<clock, active, issued, token, revoked, history>>

\* Mutant: new tokens are issued without revoking the old one.
RefreshKeepOld(r) ==
  /\ req[r].pc = "refresh_loaded"
  /\ Goto(r, "refresh_revoked")
  /\ UNCHANGED <<clock, active, issued, token, revoked, heir, loggedOut>>

RefreshRevoke(r) ==
  /\ req[r].pc = "refresh_loaded"
  /\ Revoke(r, req[r].ref, "refresh_revoked")
  /\ UNCHANGED <<clock, active, issued, token, heir, loggedOut>>

RefreshIssue(r) ==
  /\ req[r].pc = "refresh_revoked"
  /\ IssuePair(req[r].user, token[req[r].ref].sid)
  /\ heir' = [heir EXCEPT ![req[r].ref] = @ \cup {NewRefresh}]
  /\ Reply(r, req[r].op, "ok", NewAccess, NewRefresh)
  /\ UNCHANGED <<clock, active, revoked, loggedOut>>

-----------------------------------------------------------------------------
(* The get_current_user dependency of every authenticated endpoint; ref is *)
(* the refresh cookie (or legacy body field) that came with the request.   *)

AuthCheck(r, a, op, ref) ==
  /\ req[r].pc = "idle"
  /\ op = "logout" \/ ref = None
  /\ IF Decodes(a) /\ token[a].type = "access" /\ ~IsRevoked(a)
     THEN Start(r, op, token[a].sub, a, ref, "auth_checked")
     ELSE Fail(r, op, "unauthorized")
  /\ UNCHANGED <<clock, active, issued, token, revoked, history>>

AuthLoadUser(r) ==
  /\ req[r].pc = "auth_checked"
  /\ IF active[req[r].user] THEN Goto(r, "authed") ELSE Fail(r, req[r].op, "unauthorized")
  /\ UNCHANGED <<clock, active, issued, token, revoked, history>>

\* GET /auth/me, standing for any endpoint that leaves the session alone.
GetMe(r) ==
  /\ req[r].pc = "authed" /\ req[r].op = "me"
  /\ Reply(r, "me", "ok", None, None)
  /\ UNCHANGED <<clock, active, issued, token, revoked, history>>

\* POST /auth/change-password: verify, set_password, audit.  It touches the
\* users row only: the tokens of the user stay valid.
ChangePassword(r, passwordOk) ==
  /\ req[r].pc = "authed" /\ req[r].op = "change_password"
  /\ IF passwordOk
     THEN Reply(r, "change_password", "ok", None, None)
     ELSE Fail(r, req[r].op, "bad_request")
  /\ UNCHANGED <<clock, active, issued, token, revoked, history>>

-----------------------------------------------------------------------------
(* POST /auth/logout *)

\* The bearer token is decoded a second time, and may have expired meanwhile.
LogoutRevokeAccess(r) ==
  /\ req[r].pc = "authed" /\ req[r].op = "logout"
  /\ IF Decodes(req[r].acc)
     THEN Revoke(r, req[r].acc, "access_revoked")
     ELSE Fail(r, req[r].op, "unauthorized") /\ UNCHANGED revoked
  /\ UNCHANGED <<clock, active, issued, token, heir, loggedOut>>

\* Mutant: every exception of the refresh-token block is swallowed.
LogoutSwallowConflict(r) ==
  LET c == req[r].ref IN
  /\ req[r].pc = "access_revoked"
  /\ Goto(r, "refresh_handled")
  /\ revoked' = revoked \cup {j \in Jti : j = c /\ Decodes(j) /\ token[j].type = "refresh"}
  /\ UNCHANGED <<clock, active, issued, token, heir, loggedOut>>

\* Only the HTTPException of decode_token is swallowed.
LogoutRevokeRefresh(r) ==
  LET c == req[r].ref IN
  /\ req[r].pc = "access_revoked"
  /\ IF c # None /\ Decodes(c) /\ token[c].type = "refresh"
     THEN Revoke(r, c, "refresh_handled")
     ELSE /\ req' = [req EXCEPT ![r].pc = "refresh_handled", ![r].ref = None]
          /\ UNCHANGED revoked
  /\ UNCHANGED <<clock, active, issued, token, heir, loggedOut>>

LogoutFinish(r) ==
  /\ req[r].pc = "refresh_handled"
  /\ Reply(r, "logout", "ok", None, Clear)
  /\ loggedOut' = loggedOut \cup {j \in Jti \cap {req[r].acc, req[r].ref} : ~Expired(j)}
  /\ UNCHANGED <<clock, active, issued, token, revoked, heir>>

-----------------------------------------------------------------------------
(* Environment *)

\* The reply leaves the server; the connection's slot can be reused.
Deliver(r) ==
  /\ req[r].pc = "replied"
  /\ req' = [req EXCEPT ![r] = Idle]
  /\ UNCHANGED <<clock, active, issued, token, revoked, history>>

\* PATCH /users/{id} with is_active.
SetActive(u) ==
  /\ active' = [active EXCEPT ![u] = ~@]
  /\ UNCHANGED <<clock, issued, token, revoked, req, history>>

\* Mutant: DELETE ... WHERE expires_at <= now.
PurgeAtExpiry ==
  /\ revoked' = {j \in revoked : token[j].exp > clock}
  /\ UNCHANGED <<clock, active, issued, token, req, history>>

\* cleanup:token_revocations: DELETE ... WHERE expires_at < now.
PurgeExpired ==
  /\ revoked' = {j \in revoked : ~Expired(j)}
  /\ UNCHANGED <<clock, active, issued, token, req, history>>

Tick ==
  /\ clock < MaxTime
  /\ clock' = clock + 1
  /\ UNCHANGED <<active, issued, token, revoked, req, history>>

\* The backend process dies and restarts: coroutines are lost, rows are not.
Crash ==
  /\ req' = [r \in Req |-> Idle]
  /\ UNCHANGED <<clock, active, issued, token, revoked, history>>

-----------------------------------------------------------------------------

Init ==
  /\ clock = 0
  /\ active = [u \in User |-> TRUE]
  /\ issued = 0
  /\ token = [j \in Jti |-> None]
  /\ revoked = {}
  /\ req = [r \in Req |-> Idle]
  /\ heir = [j \in Jti |-> {}]
  /\ loggedOut = {}

Handler(r) ==
  \/ \E u \in User, ok \in BOOLEAN : LoginVerify(r, u, ok)
  \/ LoginIssue(r)
  \/ \E j \in Issued : RefreshCheck(r, j)
  \/ RefreshLoadUser(r)
  \/ RefreshRevoke(r)
  \/ RefreshIssue(r)
  \/ \E a \in Issued, op \in Endpoint, c \in Cookie : AuthCheck(r, a, op, c)
  \/ AuthLoadUser(r)
  \/ GetMe(r)
  \/ \E ok \in BOOLEAN : ChangePassword(r, ok)
  \/ LogoutRevokeAccess(r)
  \/ LogoutRevokeRefresh(r)
  \/ LogoutFinish(r)
  \/ Deliver(r)

Next ==
  \/ \E r \in Req : Handler(r)
  \/ \E u \in User : SetActive(u)
  \/ PurgeExpired
  \/ Tick
  \/ Crash

Spec == Init /\ [][Next]_vars

-----------------------------------------------------------------------------
(* Properties *)

\* Type invariant of the session state.
TypeOK ==
  /\ clock \in Nat
  /\ active \in [User -> BOOLEAN]
  /\ issued \in 0..MaxTokens
  /\ token \in [Jti -> Token \cup {None}]
  /\ revoked \subseteq Jti
  /\ req \in [Req -> ReqState]
  /\ heir \in [Jti -> SUBSET Jti]
  /\ loggedOut \subseteq Jti

\* Rotation is exclusive (auth.py:218-223): however many refresh requests
\* present the same refresh token, interleaved at any await, at most one of
\* them gets new tokens for it before the token expires.
RotatedOnce ==
  \A j \in Issued : \A g, h \in heir[j] :
    token[g].iat <= token[j].exp /\ token[h].iat <= token[j].exp => g = h

\* Request r inserted the denylist row of j and has yet to act on it.
Owner(r, j) == req[r].ref = j /\ req[r].pc \in {"refresh_revoked", "refresh_handled"}

\* The insert elects one request (auth.py:195-243, 271-285): of all refreshes and
\* logouts that saw the same refresh token off the denylist, at most one goes
\* on to use it up, and it finds the token not yet exchanged, whatever the
\* others, a crash or the purge have done in between.
OneOwner ==
  \A j \in Issued : ~Expired(j) =>
    /\ \A r \in Req : Owner(r, j) => heir[j] = {} /\ j \notin loggedOut
    /\ \A r, s \in Req : Owner(r, j) /\ Owner(s, j) => r = s

\* Logout beats rotation (auth.py:271-285): a refresh token whose logout was
\* answered 204 in its lifetime is never exchanged for new tokens before it expires, not even
\* by a refresh request that had passed the denylist check before the logout.
LogoutFinal ==
  \A j \in loggedOut : \A h \in heir[j] : token[h].iat > token[j].exp

\* An exchange completed after the exchanged token's expiry.
LateRotation == \E j \in Issued : \E h \in heir[j] : token[h].iat > token[j].exp

\* Logout ends the whole session (auth.py:249-298): after a 204 no refresh
\* token descended from the same login can still be exchanged, and no refresh
\* request that will issue one is under way.  The exception
\* is an exchange that a stalled request completed after the token had expired.
LogoutEndsSession ==
  ~LateRotation =>
    \A j \in {k \in loggedOut : token[k].type = "refresh"} :
      /\ \A k \in Issued : token[k].type = "refresh" /\ token[k].sid = token[j].sid
                             => k \in revoked \/ Expired(k)
      /\ \A r \in Req : req[r].pc = "refresh_revoked" /\ token[req[r].ref].sid = token[j].sid
                             => Expired(req[r].ref)

\* The token a request presents for authentication.
Presented(q) == IF q.op = "refresh" THEN q.ref ELSE q.acc

\* Request r passes the denylist check in this step.
Accepts(r) == req[r].pc = "idle" /\ req'[r].pc \in {"refresh_checked", "auth_checked"}

\* Logout is remembered (cleanup_jobs.py:31-48, token_revocation.py:24-31): a
\* token whose logout was answered is refused by every later request until it
\* expires, whenever the purge ran in between.
LoggedOutRefused ==
  [][\A r \in Req : Accepts(r) =>
       Presented(req'[r]) \notin loggedOut \/ Expired(Presented(req'[r]))]_vars

\* auth.py:287 "Clear the httpOnly cookie regardless": every logout that got
\* past the authentication dependency and was not overtaken by the expiry of
\* its bearer token answers with the cookie cleared.
\* Does not hold of the code (README, "Disagreements").
LogoutClearsCookie ==
  \A r \in Req : req[r].op = "logout" /\ req[r].pc = "replied" /\ req[r].status # "unauthorized"
                   => req[r].cookie = Clear

-----------------------------------------------------------------------------
(* Refinement *)

\* What has become of token j, seen from outside.
Fate(j) ==
  CASE token[j] = None -> "unsigned"
    [] token[j] # None /\ Expired(j) -> "dead"
    [] token[j] # None /\ ~Expired(j) /\ j \in revoked -> "spent"
    [] OTHER -> "live"

Ledger == INSTANCE TokenLedger WITH st <- [j \in Jti |-> Fate(j)]

\* The endpoints, the denylist table and its purge implement the ledger
\* (auth.py:157-298, token_revocation.py, cleanup_jobs.py:31-48): whatever the
\* interleaving, the crash or the purge, no token comes back to life and a
\* spent token is exchanged once.
ImplementsLedger == Ledger!Spec
=============================================================================
