---------------------------- MODULE SessionClient ----------------------------
(***************************************************************************)
(* The frontend's session: the axios instance with its 401 interceptor and *)
(* shared refresh (api/index.ts), the login, logout and change-password    *)
(* hooks (api/auth.ts), the in-memory access token (store/authStore.ts),   *)
(* the route guards (App.tsx) and the browser around them: tabs that share *)
(* one cookie jar, reloads that drop a tab's memory, and a network that    *)
(* loses requests and answers.  The server's tokens are a TokenLedger.     *)
(***************************************************************************)
EXTENDS Naturals

CONSTANTS Tab,        \* browser tabs; they share the refresh cookie
          Call,       \* slots for API calls under way
          Uses,       \* the calls that each tab's user makes
          None,       \* no tab, no call
          MaxToken,   \* bound: tokens signed in a behaviour (a pair a time)
          MaxMishap   \* bound: expiries, losses and reloads in a behaviour

ASSUME SessionAssumption ==
  /\ MaxToken \in Nat /\ MaxMishap \in Nat
  /\ None \notin Tab /\ None \notin Call
  /\ \A t \in Tab : Uses[t] \subseteq {"login", "get", "change_password", "logout"}

Jti == 1..MaxToken

\* No token: 0 is not an id, and is never live.
NoToken == 0

VARIABLES
  st, heir,    \* the server's tokens (TokenLedger); heir is history
  jar,         \* the refresh cookie of the browser
  tab,         \* [acc: store token, page: shown route, leaving: document being replaced]
  call,        \* API calls
  exchange,    \* the refresh request that a call started
  origin,      \* history: the login each refresh token descends from
  mishaps,     \* how many of the MaxMishap mishaps have happened
  spentBy,     \* history: the tab whose present document spent a token by a refresh
  loggedOut,   \* history: tabs that logged out, and were not used again
  ended        \* history: refresh tokens a logout answered 204 was sent with

vars == <<st, heir, jar, tab, call, exchange, mishaps, origin, spentBy, loggedOut, ended>>
history == <<origin, spentBy, loggedOut, ended>>

Mishap == mishaps < MaxMishap /\ mishaps' = mishaps + 1

L == INSTANCE TokenLedger

\* The next two ids, an access token and the refresh token signed with it.
NextPair == {r \in Jti : /\ {r - 1, r} \subseteq L!With("unsigned")
                         /\ \A j \in L!With("unsigned") : j >= r - 1}
AccessOf(r) == r - 1

Live(j) == j \in Jti /\ st[j] = "live"

Kind == {"login", "get", "change_password", "logout"}
Page == {"login", "app", "change_password"}

CallState == [st : {"idle", "sent", "answered", "waiting"}, tab : Tab \cup {None}, kind : Kind,
              acc : Jti \cup {NoToken},       \* Authorization header
              cookie : Jti \cup {NoToken},    \* the jar when it was sent
              retry : BOOLEAN,                \* config._retry
              via : Call \cup {None},         \* whose exchange it awaits
              res : {"none", "ok", "unauthorized", "error"},
              new : Jti \cup {NoToken}]       \* refresh token in Set-Cookie

ExchangeState == [st : {"idle", "sent", "spent", "answered"}, tab : Tab \cup {None},
                  orphan : BOOLEAN,           \* its document is gone
                  cookie : Jti \cup {NoToken},
                  res : {"none", "ok", "refused", "lost"}, new : Jti \cup {NoToken}]

Idle == [st |-> "idle", tab |-> None, kind |-> "get", acc |-> NoToken, cookie |-> NoToken,
         retry |-> FALSE, via |-> None, res |-> "none", new |-> NoToken]

Unused == [st |-> "idle", tab |-> None, orphan |-> FALSE, cookie |-> NoToken, res |-> "none",
           new |-> NoToken]

-----------------------------------------------------------------------------
(* Routes *)

\* GuestRoute and ProtectedRoute: what a tab at route p shows.
Guard(p, acc) ==
  IF p = "login" /\ acc # NoToken THEN "app"
  ELSE IF p = "app" /\ acc = NoToken THEN "login" ELSE p

\* Every change of the store renders the guards again.
Show(t, p, acc) == tab' = [tab EXCEPT ![t].acc = acc, ![t].page = Guard(p, acc)]

\* clearAuth() and window.location.href = "/login": the page goes on running
\* (answers arrive, nobody clicks) until the browser has loaded the new
\* document.
Leave(t) ==
  tab' = [tab EXCEPT ![t] = [acc |-> NoToken, page |-> "login", leaving |-> TRUE]]

\* Mutant: navigate("/login") inside the single-page app.
LeaveInPlace(t) ==
  tab' = [tab EXCEPT ![t] = [acc |-> NoToken, page |-> "login", leaving |-> FALSE]]

\* useLogout's onSettled: clearAuth() and a full page load of /login.
LogoutSettled(t) == Leave(t)

\* The router: links, and the history buttons of the browser.
Navigate(t, p) ==
  /\ p # "login" /\ ~tab[t].leaving
  /\ Guard(p, tab[t].acc) # tab[t].page
  /\ Show(t, p, tab[t].acc)
  /\ UNCHANGED <<mishaps, st, heir, jar, call, exchange, history>>

\* "Back to login" of the change-password page: clearAuth() and navigate().
BackToLogin(t) ==
  /\ ~tab[t].leaving
  /\ tab[t].page = "change_password"
  /\ Show(t, "login", NoToken)
  /\ UNCHANGED <<mishaps, st, heir, jar, call, exchange, history>>

\* F5, or the page load that Leave asked for.  The store keeps no token
\* (partialize); calls and refreshPromise are gone, but the server may still
\* be serving a refresh.
Reload(t) ==
  /\ IF tab[t].leaving THEN UNCHANGED mishaps ELSE Mishap
  /\ tab' = [tab EXCEPT ![t] = [acc |-> NoToken, leaving |-> FALSE,
                                page |-> IF @.leaving THEN "login" ELSE Guard(@.page, NoToken)]]
  /\ call' = [c \in Call |-> IF call[c].tab = t THEN Idle ELSE call[c]]
  /\ exchange' = [c \in Call |-> IF exchange[c].tab = t /\ exchange[c].st # "idle"
                                 THEN [exchange[c] EXCEPT !.orphan = TRUE] ELSE exchange[c]]
  /\ spentBy' = [j \in Jti |-> spentBy[j] \ {t}]
  /\ UNCHANGED <<st, heir, jar, origin, loggedOut, ended>>

-----------------------------------------------------------------------------
(* API calls *)

\* Mutant: the axios instance is created without withCredentials.
SentCookieNone(c) == NoToken

\* withCredentials: the browser adds the refresh cookie to /auth requests.
SentCookie(c) == call[c].cookie

\* The submit buttons of the login and the change-password form are disabled
\* while their call is pending; the logout button is not.
SubmitDisabled(t, kind) ==
  /\ kind \in {"login", "change_password"}
  /\ \E c \in Call : call[c].st # "idle" /\ call[c].tab = t /\ call[c].kind = kind

\* Which calls the shown page can start.
Offers(t, kind) ==
  /\ ~tab[t].leaving
  /\ tab[t].page = (IF kind \in {"get", "logout"} THEN "app" ELSE kind)
  /\ ~SubmitDisabled(t, kind)

\* The request interceptor attaches the token that is in the store now.
Send(t, c, kind) ==
  /\ call[c].st = "idle" /\ exchange[c].st = "idle"
  /\ Offers(t, kind)
  /\ call' = [call EXCEPT ![c] = [Idle EXCEPT !.st = "sent", !.tab = t, !.kind = kind,
                                              !.acc = IF kind = "login" THEN NoToken ELSE tab[t].acc,
                                              !.cookie = IF kind = "logout" THEN jar ELSE NoToken]]
  /\ loggedOut' = IF kind = "change_password" THEN loggedOut \ {t} ELSE loggedOut
  /\ UNCHANGED <<mishaps, st, heir, jar, tab, exchange, origin, spentBy, ended>>

Answer(c, res, new) ==
  call' = [call EXCEPT ![c].st = "answered", ![c].res = res, ![c].new = new]

\* The call is over and left no trace beyond its page (a message, data).
Settle(c) == call' = [call EXCEPT ![c] = Idle]

\* POST /auth/login: refused; or a pair is signed, whose answer may be lost.
ServeLogin(c) ==
  /\ call[c].st = "sent" /\ call[c].kind = "login"
  /\ \/ Settle(c) /\ UNCHANGED <<st, heir, mishaps, origin>>
     \/ \E r \in NextPair : /\ L!SignIn(AccessOf(r), r, {})
                            /\ origin' = [origin EXCEPT ![r] = r]
                            /\ \/ Answer(c, "ok", r) /\ UNCHANGED mishaps
                               \/ Settle(c) /\ Mishap
  /\ UNCHANGED <<jar, tab, exchange, spentBy, loggedOut, ended>>

\* The change-password page navigates to the dashboard.
PasswordChanged(t) == Show(t, "app", tab[t].acc)

\* Any other authenticated endpoint; the password change may be refused (400).
ServeGet(c) ==
  LET t == call[c].tab IN
  /\ call[c].st = "sent" /\ call[c].kind \in {"get", "change_password"}
  /\ IF Live(call[c].acc)
     THEN /\ Settle(c)
          /\ UNCHANGED tab \/ (call[c].kind = "change_password" /\ PasswordChanged(t))
     ELSE Answer(c, "unauthorized", NoToken) /\ UNCHANGED tab
  /\ UNCHANGED <<mishaps, st, heir, jar, exchange, history>>

\* POST /auth/logout: revokes the bearer token and the cookie.  A cookie that
\* is in the denylist already makes the INSERT, and the answer, fail.
ServeLogout(c) ==
  LET cookie == SentCookie(c) IN
  /\ call[c].st = "sent" /\ call[c].kind = "logout"
  /\ IF Live(call[c].acc)
     THEN /\ L!Spend({j \in {call[c].acc, cookie} : Live(j)})
          /\ IF cookie \in L!With("spent")
             THEN Answer(c, "error", NoToken) /\ UNCHANGED mishaps
             ELSE \/ Answer(c, "ok", NoToken) /\ UNCHANGED mishaps
                  \/ Answer(c, "error", NoToken) /\ Mishap
     ELSE Answer(c, "unauthorized", NoToken) /\ UNCHANGED <<st, heir, mishaps>>
  /\ UNCHANGED <<jar, tab, exchange, history>>

\* The request is lost: axios reports a network error.  (An answer that is
\* lost is among the outcomes of the Serve actions.)
Lose(c) ==
  /\ call[c].st = "sent" /\ Mishap
  /\ IF call[c].kind = "logout" THEN Answer(c, "error", NoToken) ELSE Settle(c)
  /\ UNCHANGED <<st, heir, jar, tab, exchange, history>>

-----------------------------------------------------------------------------
(* Answers *)

\* The interceptor retries a 401 once (the 401 of a login is not one of these).
Retries(c) == call[c].res = "unauthorized" /\ ~call[c].retry

\* Mutant: every 401 starts a refresh of its own.
PendingNone(t) == {}

\* refreshPromise: the exchange this tab has under way.
Pending(t) == {c \in Call : exchange[c].st # "idle" /\ exchange[c].tab = t /\ ~exchange[c].orphan}

\* doRefresh: join the exchange that is under way, or start one.
Await(c) ==
  LET t == call[c].tab IN
  /\ call[c].st = "answered" /\ Retries(c)
  /\ \E s \in IF Pending(t) = {} THEN {c} ELSE Pending(t) :
       /\ call' = [call EXCEPT ![c].st = "waiting", ![c].retry = TRUE, ![c].via = s]
       /\ exchange' = IF exchange[s].st # "idle" THEN exchange
                      ELSE [exchange EXCEPT ![s] = [Unused EXCEPT !.st = "sent", !.tab = t, !.cookie = jar]]
  /\ UNCHANGED <<mishaps, st, heir, jar, tab, history>>

\* The call's error reaches the page; the session is untouched.
Refused(c) ==
  /\ call[c].st = "answered" /\ ~Retries(c) /\ call[c].kind # "logout" /\ call[c].res # "ok"
  /\ Settle(c)
  /\ UNCHANGED <<mishaps, st, heir, jar, tab, exchange, history>>

\* must_change_password decides where Login.handleSubmit navigates.
Landing == {"app", "change_password"}

\* useLogin's onSuccess stores the token; handleSubmit then navigates.
LoginDone(c) ==
  LET t == call[c].tab IN
  /\ call[c].st = "answered" /\ call[c].kind = "login"
  /\ jar' = call[c].new
  /\ \E p \in Landing : Show(t, p, AccessOf(call[c].new))
  /\ loggedOut' = loggedOut \ {t}
  /\ Settle(c)
  /\ UNCHANGED <<mishaps, st, heir, exchange, origin, spentBy, ended>>

\* onSettled: the tab forgets the session, whatever the server answered.
LogoutDone(c) ==
  LET t == call[c].tab IN
  /\ call[c].st = "answered" /\ ~Retries(c) /\ call[c].kind = "logout"
  /\ jar' = IF call[c].res = "ok" THEN NoToken ELSE jar
  /\ ended' = IF call[c].res = "ok" THEN ended \cup ({call[c].cookie} \ {NoToken}) ELSE ended
  /\ LogoutSettled(t)
  /\ loggedOut' = loggedOut \cup {t}
  /\ Settle(c)
  /\ UNCHANGED <<mishaps, st, heir, exchange, origin, spentBy>>

-----------------------------------------------------------------------------
(* The refresh *)

\* POST /auth/refresh, first half: the token is revoked.
SpendCookie(c) ==
  LET e == exchange[c] IN
  /\ e.st = "sent"
  /\ IF Live(e.cookie)
     THEN /\ L!Spend({e.cookie})
          /\ exchange' = [exchange EXCEPT ![c].st = "spent"]
          /\ spentBy' = [spentBy EXCEPT ![e.cookie] = IF e.orphan THEN {} ELSE {e.tab}]
     ELSE /\ exchange' = [exchange EXCEPT ![c].st = "answered", ![c].res = "refused"]
          /\ UNCHANGED <<st, heir, spentBy>>
  /\ UNCHANGED <<mishaps, jar, tab, call, origin, loggedOut, ended>>

\* Second half: a new pair is signed.
SignHeir(c) ==
  /\ exchange[c].st = "spent"
  /\ \E r \in NextPair :
       /\ L!Exchange(exchange[c].cookie, AccessOf(r), r, {})
       /\ origin' = [origin EXCEPT ![r] = origin[exchange[c].cookie]]
       /\ exchange' = [exchange EXCEPT ![c].st = "answered", ![c].res = "ok", ![c].new = r]
  /\ UNCHANGED <<mishaps, jar, tab, call, spentBy, loggedOut, ended>>

\* The request or its answer is lost, or the server dies between the halves.
LoseExchange(c) ==
  LET e == exchange[c] IN
  /\ e.st \in {"sent", "spent"} \/ e.res = "ok"
  /\ IF e.st = "spent" /\ NextPair = {} THEN UNCHANGED mishaps ELSE Mishap
  /\ exchange' = [exchange EXCEPT ![c].st = "answered", ![c].res = "lost", ![c].new = NoToken]
  /\ spentBy' = IF e.st = "sent" \/ e.cookie = NoToken THEN spentBy
                ELSE [spentBy EXCEPT ![e.cookie] = @ \ {e.tab}]
  /\ UNCHANGED <<st, heir, jar, tab, call, origin, loggedOut, ended>>

\* Mutant: setAccessToken is not called.
KeepToken(t, acc) == Show(t, tab[t].page, tab[t].acc)

\* useAuthStore.getState().setAccessToken(data.access_token)
StoreToken(t, acc) == Show(t, tab[t].page, acc)

\* Mutant: only the call that started the refresh is resumed.
WaitingStarter(c) == {d \in Call : call[d].st = "waiting" /\ d = c}

\* The calls that await exchange c.
Waiting(c) == {d \in Call : call[d].st = "waiting" /\ call[d].via = c}

\* The promise resolves: every call that awaited it is sent again, through
\* the request interceptor, with the new token and the new cookie.
Refreshed(c) ==
  LET e == exchange[c] IN
  /\ e.st = "answered" /\ ~e.orphan /\ e.res = "ok"
  /\ jar' = e.new
  /\ StoreToken(e.tab, AccessOf(e.new))
  /\ call' = [d \in Call |-> IF d \notin Waiting(c) THEN call[d]
                             ELSE [call[d] EXCEPT !.st = "sent", !.acc = tab'[e.tab].acc,
                                                  !.res = "none",
                                                  !.cookie = IF call[d].kind = "logout" THEN jar' ELSE @]]
  /\ exchange' = [exchange EXCEPT ![c] = Unused]
  /\ UNCHANGED <<mishaps, st, heir, history>>

\* The promise yields null: clearAuth(), full page load of /login, and the
\* calls that awaited it fail with their 401.
RefreshFailed(c) ==
  LET e == exchange[c] IN
  /\ e.st = "answered" /\ ~e.orphan /\ e.res # "ok"
  /\ Leave(e.tab)
  /\ loggedOut' = IF \E d \in Waiting(c) : call[d].kind = "logout"
                  THEN loggedOut \cup {e.tab} ELSE loggedOut
  /\ call' = [d \in Call |-> IF d \in Waiting(c) THEN Idle ELSE call[d]]
  /\ exchange' = [exchange EXCEPT ![c] = Unused]
  /\ UNCHANGED <<mishaps, st, heir, jar, origin, spentBy, ended>>

\* The answer of a refresh whose document is gone: nobody hears it, but the
\* browser may have taken its cookie.
OrphanAnswered(c) ==
  LET e == exchange[c] IN
  /\ e.st = "answered" /\ e.orphan
  /\ jar' \in {jar} \cup ({e.new} \ {NoToken})
  /\ exchange' = [exchange EXCEPT ![c] = Unused]
  /\ UNCHANGED <<mishaps, st, heir, tab, call, history>>

\* A token's lifetime is over.
Expire ==
  /\ Mishap
  /\ \E j \in L!With("live") : L!Die({j})
  /\ UNCHANGED <<jar, tab, call, exchange, history>>

-----------------------------------------------------------------------------

Init ==
  /\ L!Init
  /\ jar = NoToken
  /\ tab = [t \in Tab |-> [acc |-> NoToken, page |-> "login", leaving |-> FALSE]]
  /\ call = [c \in Call |-> Idle]
  /\ exchange = [c \in Call |-> Unused]
  /\ mishaps = 0
  /\ origin = [j \in Jti |-> NoToken]
  /\ spentBy = [j \in Jti |-> {}]
  /\ loggedOut = {} /\ ended = {}

User(t) ==
  \/ \E p \in Page : Navigate(t, p)
  \/ BackToLogin(t)
  \/ Reload(t)
  \/ \E c \in Call, kind \in Uses[t] : Send(t, c, kind)

\* Everything that must happen to a call once it has been sent.
CallStep(c) ==
  \/ ServeLogin(c) \/ ServeGet(c) \/ ServeLogout(c) \/ Lose(c)
  \/ Await(c) \/ Refused(c) \/ LoginDone(c) \/ LogoutDone(c)

RefreshStep(c) ==
  \/ SpendCookie(c) \/ SignHeir(c) \/ LoseExchange(c)
  \/ Refreshed(c) \/ RefreshFailed(c) \/ OrphanAnswered(c)

Next ==
  \/ \E t \in Tab : User(t)
  \/ \E c \in Call : CallStep(c) \/ RefreshStep(c)
  \/ Expire

Spec == Init /\ [][Next]_vars

-----------------------------------------------------------------------------
(* Properties *)

\* Type invariant of the session client.
TypeOK ==
  /\ st \in [Jti -> L!Status] /\ heir \in [Jti -> SUBSET Jti]
  /\ jar \in Jti \cup {NoToken}
  /\ tab \in [Tab -> [acc : Jti \cup {NoToken}, page : Page, leaving : BOOLEAN]]
  /\ call \in [Call -> CallState]
  /\ exchange \in [Call -> ExchangeState]
  /\ mishaps \in 0..MaxMishap
  /\ origin \in [Jti -> Jti \cup {NoToken}]
  /\ spentBy \in [Jti -> SUBSET Tab]
  /\ loggedOut \subseteq Tab /\ ended \subseteq Jti

\* api/index.ts:22-24, "eliminating the race condition where two simultaneous
\* requests could both attempt to rotate the refresh token": when the server
\* refuses a refresh because the cookie was exchanged before, it was not this
\* document that exchanged it (it was another tab, a logout, a document since
\* replaced, or an exchange whose answer was lost).
NoSelfRace ==
  \A c \in Call : LET e == exchange[c] IN
    e.res = "refused" /\ ~e.orphan /\ e.cookie # NoToken => e.tab \notin spentBy[e.cookie]

\* A logged-out tab stays logged out (api/auth.ts:40-43): once the document
\* is replaced, no late answer of a call or of a refresh brings the old
\* session back, until someone logs in again in that tab, or submits the
\* change-password form, which calls the server without a token.
LogoutSticks ==
  \A t \in loggedOut : ~tab[t].leaving => tab[t].acc = NoToken

\* A refused call is sent again with another token than the refused one
\* (api/index.ts:13-19, 40, 64-68), so that its single retry is not wasted.
RetryUsesNewToken ==
  [][\A c \in Call : call[c].st = "waiting" /\ call'[c].st = "sent"
       => call'[c].acc \notin {call[c].acc, NoToken}]_vars

\* A logout that the server acknowledged ends the session of the browser
\* (api/auth.ts:35-39, api/index.ts:4-10): the cookie it was sent with is
\* gone for good, and so is every refresh token of the same login, however
\* refreshes and tabs interleaved with it.
LogoutEndsBrowserSession ==
  \A j \in ended : \A k \in Jti : origin[k] = origin[j] => st[k] # "live"

\* Every call that awaits a refresh will hear of it (api/index.ts:26-31, 56-71):
\* what it awaits is a refresh under way, of its own document, whoever started
\* it, and however other calls, reloads and other tabs interleave.
WaitersAreServed ==
  \A c \in Call : call[c].st = "waiting" =>
    /\ call[c].via # None
    /\ LET e == exchange[call[c].via] IN
       e.st # "idle" /\ e.tab = call[c].tab /\ ~e.orphan

\* store/authStore.ts:7-8, "If the page is reloaded the app will silently call
\* /auth/refresh (the cookie is sent automatically) to obtain a fresh access
\* token": reloading the app while the cookie is good does not end on the login
\* page, unless a refresh is on its way.
\* Does not hold of the code (README, "Disagreements").
ReloadKeepsSession ==
  [][\A t \in Tab :
       Reload(t) /\ ~tab[t].leaving /\ tab[t].page = "app" /\ Live(jar)
         => tab'[t].page # "login" \/ Pending(t)' # {}]_vars
=============================================================================
