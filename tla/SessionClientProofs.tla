------------------------- MODULE SessionClientProofs -------------------------
(***************************************************************************)
(* Proofs about SessionClient, for any number of tabs, calls and tokens:   *)
(* its types, that every call which awaits a refresh will hear of it, that *)
(* a logged-out tab stays logged out, that no document races itself for a  *)
(* refresh, that a retry goes out with a new token, that a logout that is  *)
(* acknowledged ends the session of the browser; and that its server keeps *)
(* the TokenLedger, about which a theorem is proved here, too.             *)
(*                                                                         *)
(* The argument: a refresh under way that still has its document belongs   *)
(* to the call that started it, and a document has at most one (Shape); a  *)
(* logged-out document runs no call that could start one (Silent); a token *)
(* comes into the jar fresh, so that only the document's own pending       *)
(* exchange can have spent the one that is in it (Fresh, JarSpent); an     *)
(* access token on its way is in no tab and no request yet (Pairs); and a  *)
(* session has one active refresh token at most, the live one or the one   *)
(* that is being exchanged (Sessions).                                     *)
(***************************************************************************)
EXTENDS SessionClient, TLAPS

-----------------------------------------------------------------------------
(* The inductive invariant *)

CallOk(q) ==
  /\ q.st # "idle" => q.tab \in Tab
  /\ q.kind = "login" => q.st # "waiting"
  /\ q.kind = "login" /\ q.st = "answered" => q.res = "ok" /\ q.new \in Jti

ExchangeOk(e) ==
  /\ e.st # "idle" => e.tab \in Tab
  /\ e.res = "ok" => e.st = "answered" /\ e.new \in Jti
  /\ e.res = "refused" => e.st = "answered"
  /\ e.st = "spent" => e.cookie \in Jti

\* A refresh that has lost its document has lost its call; any other belongs
\* to the waiting call that started it.
Belongs(q, e, c) ==
  /\ q.st \in {"sent", "answered"} => e.st = "idle"
  /\ e.st # "idle" /\ e.orphan => q.st = "idle"
  /\ e.st # "idle" /\ ~e.orphan => q.st = "waiting" /\ q.via = c /\ q.tab = e.tab

OnePending ==
  \A c, d \in Call : \A t \in Tab : c \in Pending(t) /\ d \in Pending(t) => c = d

Shape ==
  /\ call \in [Call -> CallState] /\ exchange \in [Call -> ExchangeState]
  /\ \A c \in Call : CallOk(call[c]) /\ ExchangeOk(exchange[c]) /\ Belongs(call[c], exchange[c], c)
  /\ WaitersAreServed /\ OnePending

-----------------------------------------------------------------------------
(* How calls and exchanges change *)

\* A call that awaits nothing is sent, answered or settled.
LEMMA CallChange ==
  ASSUME Shape, NEW c \in Call, NEW q \in CallState, CallOk(q),
         call[c].st # "waiting", q.st # "waiting",
         q.st # "idle" => exchange[c].st = "idle",
         call' = [call EXCEPT ![c] = q], exchange' = exchange
  PROVE  Shape'
  <1>1. \A d \in Call : call'[d] = IF d = c THEN q ELSE call[d]
    BY DEF Shape
  <1>2. call' \in [Call -> CallState] /\ exchange' \in [Call -> ExchangeState]
    BY DEF Shape
  <1>3. \A d \in Call : CallOk(call'[d]) /\ ExchangeOk(exchange'[d])
    BY <1>1 DEF Shape
  <1>4. \A d \in Call : Belongs(call'[d], exchange'[d], d)
    BY <1>1 DEF Shape, Belongs, CallState
  <1>5. WaitersAreServed'
    BY <1>1 DEF Shape, WaitersAreServed
  <1>6. OnePending'
    BY DEF Shape, OnePending, Pending
  <1> QED
    BY <1>2, <1>3, <1>4, <1>5, <1>6 DEF Shape, CallOk, ExchangeOk, Belongs

\* An exchange goes on, for the same document.
LEMMA ExchangeChange ==
  ASSUME Shape, NEW c \in Call, NEW e \in ExchangeState, ExchangeOk(e),
         exchange[c].st # "idle", e.st # "idle",
         e.tab = exchange[c].tab, e.orphan = exchange[c].orphan,
         exchange' = [exchange EXCEPT ![c] = e], call' = call
  PROVE  Shape'
  <1>1. \A d \in Call : exchange'[d] = IF d = c THEN e ELSE exchange[d]
    BY DEF Shape
  <1>2. call' \in [Call -> CallState] /\ exchange' \in [Call -> ExchangeState]
    BY DEF Shape
  <1>3. \A d \in Call : CallOk(call'[d]) /\ ExchangeOk(exchange'[d])
    BY <1>1 DEF Shape
  <1>4. \A d \in Call : Belongs(call'[d], exchange'[d], d)
    BY <1>1 DEF Shape, Belongs
  <1>5. WaitersAreServed'
    BY <1>1 DEF Shape, WaitersAreServed, CallState
  <1>6. \A t : Pending(t)' = Pending(t)
    BY <1>1 DEF Pending
  <1>7. OnePending'
    BY <1>6 DEF Shape, OnePending
  <1> QED
    BY <1>2, <1>3, <1>4, <1>5, <1>7 DEF Shape, CallOk, ExchangeOk, Belongs

\* An exchange is over, and so are the waits for it.
LEMMA ExchangeOver ==
  ASSUME Shape, NEW c \in Call, exchange[c].st # "idle",
         NEW Q \in [Call -> CallState], \A d \in Call : CallOk(Q[d]) /\ Q[d].st # "waiting",
         exchange' = [exchange EXCEPT ![c] = Unused],
         call' = [d \in Call |-> IF d \in Waiting(c) THEN Q[d] ELSE call[d]]
  PROVE  Shape'
  <1>1. \A d \in Call : exchange'[d] = IF d = c THEN Unused ELSE exchange[d]
    BY DEF Shape
  <1>2. Unused \in ExchangeState /\ ExchangeOk(Unused) /\ Unused.st = "idle"
    BY DEF Unused, ExchangeState, ExchangeOk
  <1>3. call' \in [Call -> CallState] /\ exchange' \in [Call -> ExchangeState]
    BY <1>2 DEF Shape
  <1>4. \A d \in Call : CallOk(call'[d]) /\ ExchangeOk(exchange'[d])
    BY <1>1, <1>2 DEF Shape
  <1>5. ASSUME NEW d \in Call PROVE Belongs(call'[d], exchange'[d], d)
    <2>1. CASE d \in Waiting(c)
      <3>1. call[d].st = "waiting" /\ call[d].via = c
        BY <2>1 DEF Waiting
      <3>2. d = c \/ exchange[d].st = "idle"
        BY <3>1 DEF Shape, Belongs, CallState, ExchangeState
      <3> QED
        BY <1>1, <1>2, <3>2 DEF Belongs
    <2>2. CASE d \notin Waiting(c)
      BY <1>1, <1>2, <2>2 DEF Shape, Belongs
    <2> QED
      BY <2>1, <2>2
  <1>6. WaitersAreServed'
    <2> SUFFICES ASSUME NEW d \in Call, call'[d].st = "waiting"
                 PROVE  /\ call'[d].via # None
                        /\ exchange'[call'[d].via].st # "idle"
                        /\ exchange'[call'[d].via].tab = call'[d].tab
                        /\ ~exchange'[call'[d].via].orphan
      BY DEF WaitersAreServed
    <2>1. d \notin Waiting(c) /\ call'[d] = call[d]
      OBVIOUS
    <2>2. call[d].via # c /\ call[d].via # None /\ call[d].via \in Call
      BY <2>1 DEF Waiting, Shape, WaitersAreServed, CallState
    <2> QED
      BY <1>1, <2>1, <2>2 DEF Shape, WaitersAreServed
  <1>7. OnePending'
    BY <1>1, <1>2 DEF Shape, OnePending, Pending
  <1> QED
    BY <1>3, <1>4, <1>5, <1>6, <1>7 DEF Shape, CallOk, ExchangeOk, Belongs

LEMMA ShapeSame == Shape /\ UNCHANGED <<call, exchange>> => Shape'
  BY DEF Shape, CallOk, ExchangeOk, Belongs, WaitersAreServed, OnePending, Pending

LEMMA IdleOk == Idle \in CallState /\ CallOk(Idle) /\ Idle.st = "idle" /\ Idle.new = NoToken
  BY DEF Idle, CallState, CallOk, Kind

-----------------------------------------------------------------------------
(* Every step keeps the shape *)

LEMMA SendShape ==
  ASSUME TypeOK, Shape, NEW t \in Tab, NEW c \in Call, NEW kind \in Uses[t], Send(t, c, kind)
  PROVE  Shape'
  <1> DEFINE q == [Idle EXCEPT !.st = "sent", !.tab = t, !.kind = kind,
                               !.acc = IF kind = "login" THEN NoToken ELSE tab[t].acc,
                               !.cookie = IF kind = "logout" THEN jar ELSE NoToken]
  <1>1. kind \in Kind
    BY SessionAssumption DEF Kind
  <1>2. q \in CallState
    BY <1>1 DEF TypeOK, Idle, CallState
  <1>3. CallOk(q) /\ q.st = "sent"
    BY DEF Idle, CallOk
  <1> QED
    BY <1>2, <1>3, CallChange DEF Send

\* What Answer writes into a call that was sent.
LEMMA AnswerShape ==
  ASSUME Shape, NEW c \in Call, call[c].st = "sent", NEW res \in {"ok", "unauthorized", "error"},
         NEW new \in Jti \cup {NoToken}, call[c].kind = "login" => res = "ok" /\ new \in Jti,
         Answer(c, res, new), exchange' = exchange
  PROVE  Shape'
  <1> DEFINE q == [call[c] EXCEPT !.st = "answered", !.res = res, !.new = new]
  <1>1. call' = [call EXCEPT ![c] = q]
    BY DEF Answer, Shape
  <1>2. q \in CallState
    BY DEF Shape, CallState
  <1>3. CallOk(q) /\ q.st = "answered"
    BY DEF CallOk, Shape, CallState
  <1> QED
    BY <1>1, <1>2, <1>3, CallChange DEF Shape, Belongs

LEMMA SettleShape ==
  ASSUME Shape, NEW c \in Call, call[c].st # "waiting", Settle(c), exchange' = exchange
  PROVE  Shape'
  BY CallChange, IdleOk DEF Settle

LEMMA ServeShape ==
  ASSUME TypeOK, Shape, NEW c \in Call,
         ServeLogin(c) \/ ServeGet(c) \/ ServeLogout(c) \/ Lose(c)
  PROVE  Shape'
  <1>1. call[c].st = "sent" /\ exchange' = exchange
    BY DEF ServeLogin, ServeGet, ServeLogout, Lose
  <1>2. NoToken \in Jti \cup {NoToken} /\ NextPair \subseteq Jti
    BY DEF NextPair
  <1>3. CASE ServeLogin(c)
    <2>1. CASE Settle(c)
      BY <1>1, <2>1, SettleShape
    <2>2. CASE \E r \in NextPair : Answer(c, "ok", r)
      BY <1>1, <1>2, <2>2, AnswerShape
    <2> QED
      BY <1>3, <2>1, <2>2 DEF ServeLogin
  <1>4. CASE ServeGet(c) \/ ServeLogout(c)
    <2>1. CASE Settle(c)
      BY <1>1, <2>1, SettleShape
    <2>2. CASE \E res \in {"ok", "unauthorized", "error"} : Answer(c, res, NoToken)
      BY <1>1, <1>2, <1>4, <2>2, AnswerShape DEF ServeGet, ServeLogout
    <2> QED
      BY <1>4, <2>1, <2>2 DEF ServeGet, ServeLogout
  <1>5. CASE Lose(c)
    BY <1>1, <1>2, <1>5, SettleShape, AnswerShape DEF Lose
  <1> QED
    BY <1>3, <1>4, <1>5

\* An answer is processed, without a refresh.
LEMMA DoneShape ==
  ASSUME TypeOK, Shape, NEW c \in Call, Refused(c) \/ LoginDone(c) \/ LogoutDone(c)
  PROVE  Shape'
  BY SettleShape DEF Refused, LoginDone, LogoutDone

LEMMA AwaitShape ==
  ASSUME TypeOK, Shape, NEW c \in Call, Await(c)
  PROVE  Shape'
  <1> DEFINE t == call[c].tab
  <1>1. /\ call[c].st = "answered" /\ t \in Tab /\ call[c].kind # "login"
        /\ exchange[c].st = "idle"
    BY DEF Await, Retries, Shape, CallOk, Belongs
  <1>2. PICK s \in IF Pending(t) = {} THEN {c} ELSE Pending(t) :
          /\ call' = [call EXCEPT ![c].st = "waiting", ![c].retry = TRUE, ![c].via = s]
          /\ exchange' = IF exchange[s].st # "idle" THEN exchange
                         ELSE [exchange EXCEPT ![s] = [Unused EXCEPT !.st = "sent", !.tab = t,
                                                                     !.cookie = jar]]
    BY DEF Await
  <1>3. s \in Call
    BY <1>2 DEF Pending
  <1>13. s # None /\ c # None
    BY <1>3, SessionAssumption
  <1>4. \A d \in Call : d # c => call'[d] = call[d]
    BY <1>2 DEF Shape
  <1> DEFINE q == [call[c] EXCEPT !.st = "waiting", !.retry = TRUE, !.via = s]
  <1>10. call' = [call EXCEPT ![c] = q]
    BY <1>2 DEF Shape
  <1>11. call[c] \in CallState
    BY DEF Shape
  <1>12. q \in CallState /\ q.st = "waiting" /\ q.via = s /\ q.tab = t /\ q.kind = call[c].kind
    BY <1>3, <1>11 DEF CallState
  <1>5. /\ call'[c] \in CallState /\ call'[c].st = "waiting" /\ call'[c].via = s
        /\ call'[c].tab = t /\ call'[c].kind = call[c].kind
    BY <1>10, <1>12 DEF Shape
  <1>6. call' \in [Call -> CallState]
    BY <1>2, <1>4, <1>5 DEF Shape
  <1>7. \A d \in Call : CallOk(call'[d])
    BY <1>1, <1>4, <1>5 DEF Shape, CallOk
  <1>8. CASE Pending(t) = {}
    <2> DEFINE e == [Unused EXCEPT !.st = "sent", !.tab = t, !.cookie = jar]
    <2>1. s = c /\ exchange' = [exchange EXCEPT ![c] = e]
      BY <1>1, <1>2, <1>8
    <2>2. \A d \in Call : exchange'[d] = IF d = c THEN e ELSE exchange[d]
      BY <2>1 DEF Shape
    <2>3. /\ e \in ExchangeState /\ ExchangeOk(e)
          /\ e.st = "sent" /\ ~e.orphan /\ e.tab = t
      BY <1>1 DEF Unused, ExchangeState, ExchangeOk, TypeOK
    <2>4. exchange' \in [Call -> ExchangeState] /\ \A d \in Call : ExchangeOk(exchange'[d])
      BY <2>1, <2>2, <2>3 DEF Shape
    <2>5. \A d \in Call : Belongs(call'[d], exchange'[d], d)
      BY <1>4, <1>5, <2>1, <2>2, <2>3 DEF Shape, Belongs
    <2>6. WaitersAreServed'
      <3> SUFFICES ASSUME NEW d \in Call, call'[d].st = "waiting"
                   PROVE  /\ call'[d].via # None
                          /\ exchange'[call'[d].via].st # "idle"
                          /\ exchange'[call'[d].via].tab = call'[d].tab
                          /\ ~exchange'[call'[d].via].orphan
        BY DEF WaitersAreServed
      <3>1. CASE d = c
        BY <1>5, <1>13, <2>1, <2>2, <2>3, <3>1
      <3>2. CASE d # c
        <4>1. call'[d] = call[d] /\ call[d].via # None /\ exchange[call[d].via].st # "idle"
          BY <1>4, <3>2 DEF Shape, WaitersAreServed
        <4>2. call[d].via \in Call /\ call[d].via # c
          BY <1>1, <4>1 DEF Shape, CallState
        <4> QED
          BY <2>2, <4>1, <4>2 DEF Shape, WaitersAreServed
      <3> QED
        BY <3>1, <3>2
    <2>7. OnePending'
      <3>1. \A u \in Tab : Pending(u)' = Pending(u) \cup (IF u = t THEN {c} ELSE {})
        BY <1>1, <2>2, <2>3 DEF Pending
      <3> QED
        BY <1>8, <3>1 DEF Shape, OnePending
    <2> QED
      BY <1>6, <1>7, <2>4, <2>5, <2>6, <2>7 DEF Shape, CallOk, ExchangeOk, Belongs
  <1>9. CASE Pending(t) # {}
    <2>1. s \in Pending(t) /\ exchange' = exchange
      BY <1>2, <1>9 DEF Pending
    <2>2. \A d \in Call : Belongs(call'[d], exchange'[d], d)
      BY <1>1, <1>4, <1>5, <2>1 DEF Shape, Belongs
    <2>3. WaitersAreServed'
      <3>1. exchange[s].st # "idle" /\ exchange[s].tab = t /\ ~exchange[s].orphan
        BY <2>1 DEF Pending
      <3>2. ASSUME NEW d \in Call, d # c, call'[d].st = "waiting"
            PROVE  /\ call'[d].via # None /\ exchange'[call'[d].via].st # "idle"
                   /\ exchange'[call'[d].via].tab = call'[d].tab
                   /\ ~exchange'[call'[d].via].orphan
        BY <1>4, <2>1, <3>2 DEF Shape, WaitersAreServed
      <3> QED
        BY <1>5, <1>13, <2>1, <3>1, <3>2 DEF WaitersAreServed
    <2>4. OnePending'
      BY <2>1 DEF Shape, OnePending, Pending
    <2> QED
      BY <1>6, <1>7, <2>1, <2>2, <2>3, <2>4 DEF Shape, CallOk, ExchangeOk, Belongs
  <1> QED
    BY <1>8, <1>9

\* A document is replaced: its calls are gone, its refresh has no one left.
LEMMA ReloadShape ==
  ASSUME TypeOK, Shape, NEW t \in Tab, Reload(t)
  PROVE  Shape'
  <1>1. \A c \in Call : call'[c] = IF call[c].tab = t THEN Idle ELSE call[c]
    BY DEF Reload
  <1>2. \A c \in Call : exchange'[c] = IF exchange[c].tab = t /\ exchange[c].st # "idle"
                                        THEN [exchange[c] EXCEPT !.orphan = TRUE] ELSE exchange[c]
    BY DEF Reload
  <1>3. ASSUME NEW c \in Call
        PROVE  /\ exchange'[c] \in ExchangeState /\ ExchangeOk(exchange'[c])
               /\ exchange'[c].st = exchange[c].st /\ exchange'[c].tab = exchange[c].tab
               /\ exchange'[c].orphan <=> exchange[c].orphan
                                           \/ (exchange[c].tab = t /\ exchange[c].st # "idle")
    BY <1>2 DEF Shape, ExchangeOk, ExchangeState
  <1>4. exchange' \in [Call -> ExchangeState]
    BY <1>3 DEF Reload
  <1>5. call' \in [Call -> CallState] /\ \A c \in Call : CallOk(call'[c])
    BY <1>1, IdleOk DEF Reload, Shape
  <1>6. \A c \in Call : Belongs(call'[c], exchange'[c], c)
    BY <1>1, <1>3, IdleOk DEF Shape, Belongs
  <1>7. WaitersAreServed'
    <2> SUFFICES ASSUME NEW d \in Call, call'[d].st = "waiting"
                 PROVE  /\ call'[d].via # None
                        /\ exchange'[call'[d].via].st # "idle"
                        /\ exchange'[call'[d].via].tab = call'[d].tab
                        /\ ~exchange'[call'[d].via].orphan
      BY DEF WaitersAreServed
    <2>1. call'[d] = call[d] /\ call[d].tab # t
      BY <1>1, IdleOk
    <2>2. call[d].via \in Call
      BY <2>1 DEF Shape, WaitersAreServed, CallState
    <2> QED
      BY <1>3, <2>1, <2>2 DEF Shape, WaitersAreServed
  <1>8. \A u \in Tab : Pending(u)' \subseteq Pending(u)
    BY <1>3 DEF Pending
  <1>9. OnePending'
    BY <1>8 DEF Shape, OnePending
  <1> QED
    BY <1>3, <1>4, <1>5, <1>6, <1>7, <1>9 DEF Shape, CallOk, ExchangeOk, Belongs

\* The server's part of a refresh, and its loss.
LEMMA ExchangeShape ==
  ASSUME TypeOK, Shape, NEW c \in Call, SpendCookie(c) \/ SignHeir(c) \/ LoseExchange(c)
  PROVE  Shape'
  <1> DEFINE e == exchange[c]
  <1>1. call' = call /\ e \in ExchangeState /\ ExchangeOk(e)
    BY DEF SpendCookie, SignHeir, LoseExchange, Shape
  <1>2. CASE SpendCookie(c) /\ Live(e.cookie)
    <2> DEFINE f == [e EXCEPT !.st = "spent"]
    <2>1. exchange' = [exchange EXCEPT ![c] = f] /\ e.st = "sent"
      BY <1>2 DEF SpendCookie, Shape
    <2>2. f \in ExchangeState /\ ExchangeOk(f)
      BY <1>1, <1>2, <2>1 DEF ExchangeState, ExchangeOk, Live
    <2> QED
      BY <1>1, <2>1, <2>2, ExchangeChange DEF ExchangeState
  <1>3. CASE SpendCookie(c) /\ ~Live(e.cookie)
    <2> DEFINE f == [e EXCEPT !.st = "answered", !.res = "refused"]
    <2>1. exchange' = [exchange EXCEPT ![c] = f] /\ e.st = "sent"
      BY <1>3 DEF SpendCookie, Shape
    <2>2. f \in ExchangeState /\ ExchangeOk(f)
      BY <1>1, <2>1 DEF ExchangeState, ExchangeOk
    <2> QED
      BY <1>1, <2>1, <2>2, ExchangeChange DEF ExchangeState
  <1>4. CASE SignHeir(c)
    <2>1. PICK r \in NextPair : exchange' = [exchange EXCEPT ![c].st = "answered", ![c].res = "ok",
                                                             ![c].new = r]
      BY <1>4 DEF SignHeir
    <2> DEFINE f == [e EXCEPT !.st = "answered", !.res = "ok", !.new = r]
    <2>2. exchange' = [exchange EXCEPT ![c] = f] /\ e.st = "spent"
      BY <1>4, <2>1 DEF SignHeir, Shape
    <2>3. f \in ExchangeState /\ ExchangeOk(f)
      BY <1>1, <2>2 DEF ExchangeState, ExchangeOk, NextPair
    <2> QED
      BY <1>1, <2>2, <2>3, ExchangeChange DEF ExchangeState
  <1>5. CASE LoseExchange(c)
    <2> DEFINE f == [e EXCEPT !.st = "answered", !.res = "lost", !.new = NoToken]
    <2>1. exchange' = [exchange EXCEPT ![c] = f]
      BY <1>5 DEF LoseExchange, Shape
    <2>2. e.st # "idle"
      BY <1>1, <1>5 DEF LoseExchange, ExchangeOk
    <2>3. f \in ExchangeState /\ ExchangeOk(f)
      BY <1>1, <2>2 DEF ExchangeState, ExchangeOk
    <2> QED
      BY <1>1, <2>1, <2>2, <2>3, ExchangeChange DEF ExchangeState
  <1> QED
    BY <1>2, <1>3, <1>4, <1>5

TabState == [acc : Jti \cup {NoToken}, page : Page, leaving : BOOLEAN]

\* The store changes, and the guards are rendered again.
LEMMA ShowStep ==
  ASSUME tab \in [Tab -> TabState], NEW t \in Tab, NEW p \in Page,
         NEW acc \in Jti \cup {NoToken}, Show(t, p, acc)
  PROVE  /\ tab' \in [Tab -> TabState]
         /\ tab'[t].acc = acc /\ tab'[t].page = Guard(p, acc) /\ tab'[t].leaving = tab[t].leaving
         /\ \A u \in Tab : u # t => tab'[u] = tab[u]
  <1> DEFINE s == [tab[t] EXCEPT !.acc = acc, !.page = Guard(p, acc)]
  <1>1. tab' = [tab EXCEPT ![t] = s]
    BY DEF Show
  <1>2. Guard(p, acc) \in Page
    BY DEF Guard, Page
  <1>3. s \in TabState /\ s.acc = acc /\ s.page = Guard(p, acc) /\ s.leaving = tab[t].leaving
    BY <1>2 DEF TabState
  <1> QED
    BY <1>1, <1>3

\* The access token of a pair.
LEMMA AccessType == \A r \in Jti : AccessOf(r) \in Jti \cup {NoToken}
  BY SessionAssumption DEF AccessOf, Jti, NoToken

LEMMA RefreshedShape ==
  ASSUME TypeOK, Shape, NEW c \in Call, Refreshed(c)
  PROVE  Shape'
  <1> DEFINE e == exchange[c]
             q(d) == [call[d] EXCEPT !.st = "sent", !.acc = tab'[e.tab].acc, !.res = "none",
                                     !.cookie = IF call[d].kind = "logout" THEN jar' ELSE @]
             Q == [d \in Call |-> IF d \in Waiting(c) THEN q(d) ELSE Idle]
  <1>1. e.st = "answered" /\ e.tab \in Tab /\ e.new \in Jti
    BY DEF Refreshed, Shape, ExchangeOk
  <1>2. tab \in [Tab -> TabState]
    BY DEF TypeOK, TabState
  <1>3. tab'[e.tab].acc = AccessOf(e.new) /\ jar' = e.new
    <2>1. Show(e.tab, tab[e.tab].page, AccessOf(e.new)) /\ jar' = e.new
      BY DEF Refreshed, StoreToken
    <2>2. tab[e.tab].page \in Page /\ AccessOf(e.new) \in Jti \cup {NoToken}
      BY <1>1, <1>2, AccessType DEF TabState
    <2> QED
      BY <1>1, <1>2, <2>1, <2>2, ShowStep
  <1>4. tab'[e.tab].acc \in Jti \cup {NoToken} /\ jar' \in Jti
    BY <1>1, <1>3, AccessType
  <1>5. ASSUME NEW d \in Waiting(c)
        PROVE  q(d) \in CallState /\ CallOk(q(d)) /\ q(d).st = "sent"
    <2>1. call[d] \in CallState /\ CallOk(call[d]) /\ call[d].st = "waiting"
      BY DEF Waiting, Shape
    <2>2. q(d) \in CallState
      BY <1>4, <2>1 DEF CallState
    <2>3. q(d).st = "sent" /\ q(d).tab = call[d].tab /\ q(d).kind = call[d].kind
      BY <2>1 DEF CallState
    <2> QED
      BY <2>1, <2>2, <2>3 DEF CallOk
  <1>6. Q \in [Call -> CallState] /\ \A d \in Call : CallOk(Q[d]) /\ Q[d].st # "waiting"
    BY <1>5, IdleOk
  <1>7. call' = [d \in Call |-> IF d \in Waiting(c) THEN Q[d] ELSE call[d]]
    BY DEF Refreshed
  <1> HIDE DEF Q
  <1> QED
    BY <1>1, <1>6, <1>7, ExchangeOver DEF Refreshed

LEMMA EndShape ==
  ASSUME TypeOK, Shape, NEW c \in Call, RefreshFailed(c) \/ OrphanAnswered(c)
  PROVE  Shape'
  <1> DEFINE Q == [d \in Call |-> Idle]
  <1>1. Q \in [Call -> CallState] /\ \A d \in Call : CallOk(Q[d]) /\ Q[d].st # "waiting"
    BY IdleOk
  <1>2. call' = [d \in Call |-> IF d \in Waiting(c) THEN Q[d] ELSE call[d]]
    <2>1. CASE RefreshFailed(c)
      BY <2>1 DEF RefreshFailed
    <2>2. CASE OrphanAnswered(c)
      <3>1. Waiting(c) = {}
        BY <2>2 DEF OrphanAnswered, Waiting, Shape, WaitersAreServed
      <3> QED
        BY <2>2, <3>1 DEF OrphanAnswered, Shape
    <2> QED
      BY <2>1, <2>2
  <1> HIDE DEF Q
  <1> QED
    BY <1>1, <1>2, ExchangeOver DEF RefreshFailed, OrphanAnswered

LEMMA ShapeStep == TypeOK /\ Shape /\ [Next]_vars => Shape'
  <1> SUFFICES ASSUME TypeOK, Shape, [Next]_vars PROVE Shape'
    OBVIOUS
  <1>1. ASSUME NEW t \in Tab, User(t) PROVE Shape'
    BY <1>1, ShapeSame, ReloadShape, SendShape DEF User, Navigate, BackToLogin
  <1>2. ASSUME NEW c \in Call, CallStep(c) PROVE Shape'
    BY <1>2, ServeShape, AwaitShape, DoneShape DEF CallStep
  <1>3. ASSUME NEW c \in Call, RefreshStep(c) PROVE Shape'
    BY <1>3, ExchangeShape, RefreshedShape, EndShape DEF RefreshStep
  <1>4. CASE Expire \/ UNCHANGED vars
    BY <1>4, ShapeSame DEF Expire, vars
  <1> QED
    BY <1>1, <1>2, <1>3, <1>4 DEF Next

-----------------------------------------------------------------------------
(* Types *)

LedgerType == st \in [Jti -> L!Status] /\ heir \in [Jti -> SUBSET Jti]

HistoryType ==
  /\ mishaps \in 0..MaxMishap
  /\ origin \in [Jti -> Jti \cup {NoToken}]
  /\ spentBy \in [Jti -> SUBSET Tab]
  /\ loggedOut \subseteq Tab /\ ended \subseteq Jti

LEMMA TypeParts ==
  TypeOK <=> /\ LedgerType /\ HistoryType
             /\ jar \in Jti \cup {NoToken} /\ tab \in [Tab -> TabState]
             /\ call \in [Call -> CallState] /\ exchange \in [Call -> ExchangeState]
  BY DEF TypeOK, LedgerType, HistoryType, TabState

LEMMA NextTypeParts ==
  /\ LedgerType' /\ HistoryType'
  /\ jar' \in Jti \cup {NoToken} /\ tab' \in [Tab -> TabState]
  /\ call' \in [Call -> CallState] /\ exchange' \in [Call -> ExchangeState]
  => TypeOK'
  BY DEF TypeOK, LedgerType, HistoryType, TabState

LEMMA LedgerStep ==
  ASSUME LedgerType,
         \/ UNCHANGED <<st, heir>>
         \/ \E S \in SUBSET Jti : L!Spend(S) \/ L!Die(S)
         \/ \E a, r \in Jti : L!SignIn(a, r, {})
         \/ \E j, a, r \in Jti : L!Exchange(j, a, r, {})
  PROVE  LedgerType'
  BY DEF LedgerType, L!Spend, L!Die, L!SignIn, L!Exchange, L!Sign, L!Status

LEMMA MishapType == mishaps \in 0..MaxMishap /\ (Mishap \/ UNCHANGED mishaps) => mishaps' \in 0..MaxMishap
  BY SessionAssumption DEF Mishap

LEMMA PairType == \A r \in NextPair : r \in Jti /\ AccessOf(r) \in Jti
  BY DEF NextPair, AccessOf, L!With

LEMMA UserTypes ==
  ASSUME TypeOK, Shape, NEW t \in Tab, User(t)
  PROVE  TypeOK'
  <1> USE TypeParts, NextTypeParts
  <1>1. Shape'
    BY ShapeStep DEF Next
  <1>2. CASE (\E p \in Page : Navigate(t, p)) \/ BackToLogin(t)
    <2>1. PICK p \in Page, acc \in Jti \cup {NoToken} : Show(t, p, acc)
      BY <1>2 DEF Navigate, BackToLogin, TabState, Page
    <2>2. tab' \in [Tab -> TabState]
      BY <2>1, ShowStep
    <2> QED
      BY <1>2, <2>2 DEF Navigate, BackToLogin, LedgerType, HistoryType, history
  <1>3. CASE Reload(t)
    <2>1. mishaps' \in 0..MaxMishap
      BY <1>3, MishapType DEF Reload, HistoryType
    <2>2. tab' \in [Tab -> TabState]
      BY <1>3 DEF Reload, TabState, Page, Guard
    <2>3. HistoryType'
      BY <1>3, <2>1 DEF Reload, HistoryType
    <2> QED
      BY <1>1, <1>3, <2>2, <2>3 DEF Reload, LedgerType, Shape
  <1>4. CASE \E c \in Call, kind \in Uses[t] : Send(t, c, kind)
    BY <1>1, <1>4 DEF Send, LedgerType, HistoryType, Shape
  <1> QED
    BY <1>2, <1>3, <1>4 DEF User

LEMMA CallTypes ==
  ASSUME TypeOK, Shape, NEW c \in Call, CallStep(c)
  PROVE  TypeOK'
  <1> USE TypeParts, NextTypeParts
  <1>1. Shape'
    BY ShapeStep DEF Next
  <1>2. mishaps' \in 0..MaxMishap
    BY MishapType DEF CallStep, ServeLogin, ServeGet, ServeLogout, Lose, Await, Refused, LoginDone,
       LogoutDone, HistoryType
  <1>3. call[c].st # "idle" /\ call[c].tab \in Tab
    BY DEF CallStep, ServeLogin, ServeGet, ServeLogout, Lose, Await, Refused, LoginDone,
       LogoutDone, Shape, CallOk
  <1>4. CASE ServeLogin(c)
    <2>1. LedgerType'
      BY <1>4, PairType, LedgerStep DEF ServeLogin
    <2>2. HistoryType'
      BY <1>2, <1>4, PairType DEF ServeLogin, HistoryType
    <2> QED
      BY <1>1, <1>4, <2>1, <2>2 DEF ServeLogin, Shape
  <1>5. CASE ServeGet(c)
    <2>1. tab' \in [Tab -> TabState]
      <3>1. UNCHANGED tab \/ Show(call[c].tab, "app", tab[call[c].tab].acc)
        BY <1>5 DEF ServeGet, PasswordChanged
      <3>2. "app" \in Page /\ tab[call[c].tab].acc \in Jti \cup {NoToken}
        BY <1>3 DEF Page, TabState
      <3> QED
        BY <1>3, <3>1, <3>2, ShowStep
    <2> QED
      BY <1>1, <1>5, <2>1 DEF ServeGet, LedgerType, HistoryType, history, Shape
  <1>6. CASE ServeLogout(c)
    <2>1. LedgerType'
      BY <1>6, LedgerStep DEF ServeLogout, Live
    <2> QED
      BY <1>1, <1>2, <1>6, <2>1 DEF ServeLogout, HistoryType, history, Shape
  <1>7. CASE Lose(c) \/ Await(c) \/ Refused(c)
    BY <1>1, <1>2, <1>7 DEF Lose, Await, Refused, LedgerType, HistoryType, history, Shape
  <1>8. CASE LoginDone(c)
    <2>1. call[c].new \in Jti
      BY <1>8 DEF LoginDone, Shape, CallOk
    <2>2. PICK p \in Landing : Show(call[c].tab, p, AccessOf(call[c].new))
      BY <1>8 DEF LoginDone
    <2>3. tab' \in [Tab -> TabState]
      BY <1>3, <2>1, <2>2, AccessType, ShowStep DEF Landing, Page
    <2> QED
      BY <1>1, <1>3, <1>8, <2>1, <2>3 DEF LoginDone, LedgerType, HistoryType, Shape
  <1>9. CASE LogoutDone(c)
    <2>1. tab' \in [Tab -> TabState]
      BY <1>9 DEF LogoutDone, LogoutSettled, Leave, TabState, Page
    <2>2. call[c].cookie \in Jti \cup {NoToken}
      BY DEF CallState
    <2> QED
      BY <1>1, <1>3, <1>9, <2>1, <2>2 DEF LogoutDone, LedgerType, HistoryType, Shape
  <1> QED
    BY <1>4, <1>5, <1>6, <1>7, <1>8, <1>9 DEF CallStep

LEMMA RefreshTypes ==
  ASSUME TypeOK, Shape, NEW c \in Call, RefreshStep(c)
  PROVE  TypeOK'
  <1> USE TypeParts, NextTypeParts
  <1> DEFINE e == exchange[c]
  <1>1. Shape'
    BY ShapeStep DEF Next
  <1>2. mishaps' \in 0..MaxMishap
    BY MishapType DEF RefreshStep, SpendCookie, SignHeir, LoseExchange, Refreshed, RefreshFailed,
       OrphanAnswered, HistoryType
  <1>3. e \in ExchangeState /\ ExchangeOk(e)
    BY DEF Shape
  <1>4. CASE SpendCookie(c)
    <2>1. LedgerType'
      BY <1>4, LedgerStep DEF SpendCookie, Live
    <2>2. spentBy' \in [Jti -> SUBSET Tab]
      BY <1>3, <1>4 DEF SpendCookie, HistoryType, ExchangeOk
    <2> QED
      BY <1>1, <1>4, <2>1, <2>2 DEF SpendCookie, HistoryType, Shape
  <1>5. CASE SignHeir(c)
    <2>1. e.cookie \in Jti
      BY <1>3, <1>5 DEF SignHeir, ExchangeOk
    <2>2. LedgerType'
      BY <1>5, <2>1, PairType, LedgerStep DEF SignHeir
    <2>3. HistoryType'
      BY <1>5, <2>1, PairType DEF SignHeir, HistoryType
    <2> QED
      BY <1>1, <1>5, <2>2, <2>3 DEF SignHeir, Shape
  <1>6. CASE LoseExchange(c)
    <2>1. spentBy' \in [Jti -> SUBSET Tab]
      BY <1>6 DEF LoseExchange, HistoryType
    <2> QED
      BY <1>1, <1>2, <1>6, <2>1 DEF LoseExchange, LedgerType, HistoryType, Shape
  <1>7. CASE Refreshed(c)
    <2>1. e.tab \in Tab /\ e.new \in Jti
      BY <1>3, <1>7 DEF Refreshed, ExchangeOk
    <2>2. tab[e.tab].page \in Page
      BY <2>1 DEF TabState
    <2>3. tab' \in [Tab -> TabState]
      BY <1>7, <2>1, <2>2, AccessType, ShowStep DEF Refreshed, StoreToken
    <2> QED
      BY <1>1, <1>7, <2>1, <2>3 DEF Refreshed, LedgerType, HistoryType, history, Shape
  <1>8. CASE RefreshFailed(c)
    <2>1. e.tab \in Tab
      BY <1>3, <1>8 DEF RefreshFailed, ExchangeOk
    <2>2. tab' \in [Tab -> TabState]
      BY <1>8 DEF RefreshFailed, Leave, TabState, Page
    <2> QED
      BY <1>1, <1>8, <2>1, <2>2 DEF RefreshFailed, LedgerType, HistoryType, Shape
  <1>9. CASE OrphanAnswered(c)
    BY <1>1, <1>3, <1>9 DEF OrphanAnswered, LedgerType, HistoryType, history, Shape, ExchangeState
  <1> QED
    BY <1>4, <1>5, <1>6, <1>7, <1>8, <1>9 DEF RefreshStep

LEMMA TypeStep == TypeOK /\ Shape /\ [Next]_vars => TypeOK'
  <1> SUFFICES ASSUME TypeOK, Shape, [Next]_vars PROVE TypeOK'
    OBVIOUS
  <1>1. CASE Expire
    <2>1. LedgerType'
      BY <1>1, TypeParts, LedgerStep DEF Expire, L!With
    <2> QED
      BY <1>1, <2>1, TypeParts, NextTypeParts, MishapType DEF Expire, HistoryType, history
  <1>2. CASE UNCHANGED vars
    BY <1>2 DEF vars, TypeOK
  <1> QED
    BY <1>1, <1>2, UserTypes, CallTypes, RefreshTypes DEF Next

LEMMA InitShape == Init => TypeOK /\ Shape
  <1> SUFFICES ASSUME Init PROVE TypeOK /\ Shape
    OBVIOUS
  <1>1. Idle \in CallState /\ Unused \in ExchangeState
    BY DEF Idle, CallState, Kind, Unused, ExchangeState
  <1>2. TypeOK
    BY <1>1, SessionAssumption DEF Init, L!Init, TypeOK, L!Status, Page, NoToken
  <1>3. Shape
    BY <1>1 DEF Init, Shape, CallOk, ExchangeOk, Belongs, Idle, Unused, WaitersAreServed,
       OnePending, Pending
  <1> QED
    BY <1>2, <1>3

\* The session client is well typed, for any number of tabs, calls and tokens.
THEOREM TypeCorrect == Spec => []TypeOK
  <1>1. TypeOK /\ Shape /\ [Next]_vars => (TypeOK /\ Shape)'
    BY ShapeStep, TypeStep
  <1> QED
    BY <1>1, InitShape, PTL DEF Spec

\* doRefresh: a call that awaits a refresh awaits one that is under way for its
\* own document, for any number of calls and tabs.
THEOREM WaitersServed == Spec => []WaitersAreServed
  <1>1. TypeOK /\ Shape /\ [Next]_vars => (TypeOK /\ Shape)'
    BY ShapeStep, TypeStep
  <1>2. Shape => WaitersAreServed
    BY DEF Shape
  <1> QED
    BY <1>1, <1>2, InitShape, PTL DEF Spec

-----------------------------------------------------------------------------
(* A logged-out tab stays logged out *)

\* Once its document is replaced it has no token, and shows no page that could
\* start a call with one; only the calls of its login form are under way.
Silent ==
  \A t \in loggedOut : ~tab[t].leaving =>
    /\ tab[t].acc = NoToken /\ tab[t].page # "app"
    /\ \A c \in Call : call[c].st # "idle" /\ call[c].tab = t => call[c].kind = "login"

CallsKept ==
  \A c \in Call : call'[c].st # "idle" =>
    call[c].st # "idle" /\ call'[c].tab = call[c].tab /\ call'[c].kind = call[c].kind

\* A step that starts no call and leaves the tabs alone.
LEMMA SilentFrame == Silent /\ CallsKept /\ UNCHANGED <<tab, loggedOut>> => Silent'
  BY DEF Silent, CallsKept

\* A step that shows another page, or another token, in tab t.
LEMMA SilentShow ==
  ASSUME Silent, CallsKept, tab \in [Tab -> TabState], loggedOut \subseteq Tab,
         NEW t \in Tab, NEW p \in Page, NEW acc \in Jti \cup {NoToken},
         Show(t, p, acc), UNCHANGED loggedOut,
         t \in loggedOut /\ ~tab[t].leaving => acc = NoToken
  PROVE  Silent'
  <1>1. /\ tab'[t].acc = acc /\ tab'[t].page = Guard(p, acc) /\ tab'[t].leaving = tab[t].leaving
        /\ \A u \in Tab : u # t => tab'[u] = tab[u]
    BY ShowStep
  <1>2. acc = NoToken => Guard(p, acc) # "app"
    BY DEF Guard
  <1> QED
    BY <1>1, <1>2 DEF Silent, CallsKept

LEMMA AnswerKeeps == ASSUME Shape, NEW c \in Call, call[c].st = "sent", NEW res, NEW new,
                            Answer(c, res, new)
                     PROVE  CallsKept
  BY DEF Answer, CallsKept, Shape, CallState

LEMMA SettleKeeps == ASSUME Shape, NEW c \in Call, Settle(c) PROVE CallsKept
  BY IdleOk DEF Settle, CallsKept, Shape

LEMMA UserSilent ==
  ASSUME TypeOK, Shape, Silent, NEW t \in Tab, User(t)
  PROVE  Silent'
  <1>1. tab \in [Tab -> TabState] /\ loggedOut \subseteq Tab
    BY TypeParts DEF HistoryType
  <1>2. CASE \E p \in Page : Navigate(t, p)
    <2>1. PICK p \in Page : Navigate(t, p)
      BY <1>2
    <2>2. tab[t].acc \in Jti \cup {NoToken} /\ CallsKept
      BY <1>1, <2>1 DEF TabState, Navigate, CallsKept
    <2>3. t \in loggedOut /\ ~tab[t].leaving => tab[t].acc = NoToken
      BY DEF Silent
    <2>4. UNCHANGED loggedOut /\ Show(t, p, tab[t].acc)
      BY <2>1 DEF Navigate, history
    <2> QED
      BY <1>1, <2>2, <2>3, <2>4, SilentShow
  <1>3. CASE BackToLogin(t)
    <2>1. CallsKept /\ UNCHANGED loggedOut /\ Show(t, "login", NoToken) /\ "login" \in Page
      BY <1>3 DEF BackToLogin, history, CallsKept, Page
    <2> QED
      BY <1>1, <2>1, SilentShow
  <1>4. CASE Reload(t)
    <2>1. /\ tab'[t].acc = NoToken /\ tab'[t].page # "app"
          /\ \A u \in Tab : u # t => tab'[u] = tab[u]
      BY <1>1, <1>4 DEF Reload, Guard
    <2>2. \A c \in Call : call'[c] = IF call[c].tab = t THEN Idle ELSE call[c]
      BY <1>4 DEF Reload
    <2> QED
      BY <1>1, <1>4, <2>1, <2>2, IdleOk DEF Silent, Reload
  <1>5. CASE \E c \in Call, kind \in Uses[t] : Send(t, c, kind)
    <2>1. PICK c \in Call, kind \in Uses[t] : Send(t, c, kind)
      BY <1>5
    <2>2. /\ tab' = tab /\ call'[c].tab = t /\ call'[c].kind = kind
          /\ \A d \in Call : d # c => call'[d] = call[d]
      BY <2>1 DEF Send, Idle, Shape
    <2>3. kind \in Kind
      BY SessionAssumption DEF Kind
    <2>4. CASE kind = "change_password"
      BY <2>1, <2>2, <2>4 DEF Silent, Send
    <2>5. CASE kind # "change_password"
      <3>1. loggedOut' = loggedOut
        BY <2>1, <2>5 DEF Send
      <3>2. t \in loggedOut => kind = "login"
        BY <2>1, <2>3, <2>5 DEF Silent, Send, Offers, Kind
      <3> QED
        BY <2>2, <3>1, <3>2 DEF Silent
    <2> QED
      BY <2>4, <2>5
  <1> QED
    BY <1>2, <1>3, <1>4, <1>5 DEF User

LEMMA CallSilent ==
  ASSUME TypeOK, Shape, Silent, NEW c \in Call, CallStep(c)
  PROVE  Silent'
  <1> DEFINE t == call[c].tab
  <1>1. tab \in [Tab -> TabState] /\ loggedOut \subseteq Tab
    BY TypeParts DEF HistoryType
  <1>2. call[c].st # "idle" /\ t \in Tab
    BY DEF CallStep, ServeLogin, ServeGet, ServeLogout, Lose, Await, Refused, LoginDone,
       LogoutDone, Shape, CallOk
  <1>3. CASE ServeLogin(c) \/ ServeLogout(c) \/ Lose(c)
    <2>1. CallsKept
      BY <1>3, AnswerKeeps, SettleKeeps DEF ServeLogin, ServeLogout, Lose
    <2> QED
      BY <1>3, <2>1, SilentFrame DEF ServeLogin, ServeLogout, Lose, history
  <1>4. CASE ServeGet(c)
    <2>1. CallsKept
      BY <1>4, AnswerKeeps, SettleKeeps DEF ServeGet
    <2>2. CASE UNCHANGED tab
      BY <1>4, <2>1, <2>2, SilentFrame DEF ServeGet, history
    <2>3. CASE ~UNCHANGED tab
      <3>1. Show(t, "app", tab[t].acc) /\ "app" \in Page /\ UNCHANGED loggedOut
        BY <1>4, <2>3 DEF ServeGet, PasswordChanged, Page, history
      <3>2. tab[t].acc \in Jti \cup {NoToken}
        BY <1>1, <1>2 DEF TabState
      <3>3. ~(t \in loggedOut /\ ~tab[t].leaving)
        BY <1>2, <1>4 DEF Silent, ServeGet
      <3> QED
        BY <1>1, <1>2, <2>1, <3>1, <3>2, <3>3, SilentShow
    <2> QED
      BY <2>2, <2>3
  <1>5. CASE Await(c)
    <2>1. call[c].st = "answered" /\ call[c] \in CallState
      BY <1>5 DEF Await, Shape
    <2>2. PICK s : call' = [call EXCEPT ![c].st = "waiting", ![c].retry = TRUE, ![c].via = s]
      BY <1>5 DEF Await
    <2> DEFINE q == [call[c] EXCEPT !.st = "waiting", !.retry = TRUE, !.via = s]
    <2>3. call' = [call EXCEPT ![c] = q]
      BY <2>2 DEF Shape
    <2>4. q.st # "idle" /\ q.tab = call[c].tab /\ q.kind = call[c].kind
      BY <2>1 DEF CallState
    <2> HIDE DEF q
    <2>5. \A d \in Call : call'[d] = IF d = c THEN q ELSE call[d]
      BY <2>3 DEF Shape
    <2>6. CallsKept
      BY <2>1, <2>4, <2>5 DEF CallsKept
    <2> QED
      BY <1>5, <2>6, SilentFrame DEF Await, history
  <1>6. CASE Refused(c)
    BY <1>6, SettleKeeps, SilentFrame DEF Refused, history
  <1>7. CASE LoginDone(c)
    <2>1. \A u \in Tab : u # t => tab'[u] = tab[u]
      BY <1>1, <1>7 DEF LoginDone, Show
    <2> QED
      BY <1>1, <1>7, <2>1, SettleKeeps DEF LoginDone, Silent, CallsKept
  <1>8. CASE LogoutDone(c)
    <2>1. tab'[t].leaving /\ \A u \in Tab : u # t => tab'[u] = tab[u]
      BY <1>1, <1>2, <1>8 DEF LogoutDone, LogoutSettled, Leave
    <2> QED
      BY <1>1, <1>2, <1>8, <2>1, SettleKeeps DEF LogoutDone, Silent, CallsKept
  <1> QED
    BY <1>3, <1>4, <1>5, <1>6, <1>7, <1>8 DEF CallStep

LEMMA RefreshSilent ==
  ASSUME TypeOK, Shape, Silent, NEW c \in Call, RefreshStep(c)
  PROVE  Silent'
  <1> DEFINE e == exchange[c]
  <1>1. tab \in [Tab -> TabState] /\ loggedOut \subseteq Tab
    BY TypeParts DEF HistoryType
  <1>2. e \in ExchangeState /\ ExchangeOk(e) /\ Belongs(call[c], e, c) /\ CallOk(call[c])
    BY DEF Shape
  <1>3. CASE SpendCookie(c) \/ SignHeir(c) \/ LoseExchange(c) \/ OrphanAnswered(c)
    BY <1>3, SilentFrame DEF SpendCookie, SignHeir, LoseExchange, OrphanAnswered, CallsKept, history
  <1>4. CASE Refreshed(c)
    <2>1. e.tab \in Tab /\ e.new \in Jti
      BY <1>2, <1>4 DEF Refreshed, ExchangeOk
    <2> DEFINE q(d) == [call[d] EXCEPT !.st = "sent", !.acc = tab'[e.tab].acc, !.res = "none",
                                       !.cookie = IF call[d].kind = "logout" THEN jar' ELSE @]
    <2>2. ASSUME NEW d \in Waiting(c)
          PROVE  /\ call[d].st # "idle"
                 /\ q(d).tab = call[d].tab /\ q(d).kind = call[d].kind
      BY DEF Waiting, Shape, CallState
    <2>3. \A d \in Call : call'[d] = IF d \in Waiting(c) THEN q(d) ELSE call[d]
      BY <1>4 DEF Refreshed
    <2> HIDE DEF q
    <2>4. CallsKept
      BY <2>2, <2>3 DEF CallsKept
    <2>5. ~(e.tab \in loggedOut /\ ~tab[e.tab].leaving)
      BY <1>2, <1>4 DEF Refreshed, Belongs, CallOk, Silent
    <2>6. tab[e.tab].page \in Page /\ UNCHANGED loggedOut
      BY <1>1, <1>4, <2>1 DEF TabState, Refreshed, history
    <2>7. Show(e.tab, tab[e.tab].page, AccessOf(e.new)) /\ AccessOf(e.new) \in Jti \cup {NoToken}
      BY <1>4, <2>1, AccessType DEF Refreshed, StoreToken
    <2> QED
      BY <1>1, <2>1, <2>4, <2>5, <2>6, <2>7, SilentShow
  <1>5. CASE RefreshFailed(c)
    <2>1. e.tab \in Tab
      BY <1>2, <1>5 DEF RefreshFailed, ExchangeOk
    <2>2. tab'[e.tab].leaving /\ \A u \in Tab : u # e.tab => tab'[u] = tab[u]
      BY <1>1, <1>5, <2>1 DEF RefreshFailed, Leave
    <2>3. CallsKept
      BY <1>5, IdleOk DEF RefreshFailed, CallsKept
    <2> QED
      BY <1>1, <1>5, <2>2, <2>3 DEF RefreshFailed, Silent, CallsKept
  <1> QED
    BY <1>3, <1>4, <1>5 DEF RefreshStep

\* api/auth.ts:40-43: no late answer brings a session back into a tab that
\* logged out and whose document was replaced, for any number of tabs, calls
\* and refreshes.
THEOREM LogoutIsKept == Spec => []LogoutSticks
  <1> DEFINE IInv == TypeOK /\ Shape /\ Silent
  <1>1. Init => IInv
    BY InitShape DEF Init, Silent
  <1>2. ASSUME IInv, [Next]_vars PROVE Silent'
    <2>1. CASE Expire \/ UNCHANGED vars
      BY <1>2, <2>1, SilentFrame DEF Expire, vars, history, CallsKept
    <2> QED
      BY <1>2, <2>1, UserSilent, CallSilent, RefreshSilent DEF Next
  <1>3. IInv /\ [Next]_vars => IInv'
    BY <1>2, ShapeStep, TypeStep
  <1>4. IInv => LogoutSticks
    BY DEF Silent, LogoutSticks
  <1> QED
    BY <1>1, <1>3, <1>4, PTL DEF Spec

-----------------------------------------------------------------------------
(* No document races itself for a refresh *)

Signed(j) == j \in Jti /\ st[j] # "unsigned"

\* Every token in the browser, or on its way to it, was signed.
Known ==
  /\ jar # NoToken => Signed(jar)
  /\ \A c \in Call :
       /\ call[c].new # NoToken => Signed(call[c].new)
       /\ exchange[c].new # NoToken => Signed(exchange[c].new)
       /\ exchange[c].cookie # NoToken => Signed(exchange[c].cookie)
  /\ \A j \in Jti : spentBy[j] # {} => Signed(j)

\* A token nobody has sent to a refresh.
Unsent(j) == j # jar /\ spentBy[j] = {} /\ \A c \in Call : exchange[c].cookie # j

\* The token in an answer that is under way was never sent, and is in no other
\* answer.
Fresh ==
  /\ \A c \in Call :
       /\ call[c].new # NoToken => Unsent(call[c].new)
       /\ exchange[c].new # NoToken => Unsent(exchange[c].new)
  /\ \A c, d \in Call :
       /\ call[c].new # NoToken => call[c].new # exchange[d].new
       /\ call[c].new # NoToken /\ c # d => call[c].new # call[d].new
       /\ exchange[c].new # NoToken /\ c # d => exchange[c].new # exchange[d].new

\* Only an exchange that t still awaits has spent the token in the jar for t.
JarSpent ==
  jar # NoToken => \A t \in spentBy[jar] : \E c \in Pending(t) :
    exchange[c].cookie = jar /\ (exchange[c].st = "spent" \/ exchange[c].res = "ok")

\* An exchange that has not spent its token, or was refused it.
Unspent(e) == e.st = "sent" \/ e.res = "refused"

Spent ==
  \A c \in Call : LET e == exchange[c] IN
    Unspent(e) /\ ~e.orphan /\ e.cookie # NoToken => e.tab \notin spentBy[e.cookie]

LEMMA SignedStays ==
  ASSUME LedgerType,
         \/ UNCHANGED <<st, heir>>
         \/ \E S \in SUBSET Jti : L!Spend(S) \/ L!Die(S)
         \/ \E a, r \in Jti : L!SignIn(a, r, {})
         \/ \E j, a, r \in Jti : L!Exchange(j, a, r, {})
  PROVE  \A j : Signed(j) => Signed(j)'
  BY DEF LedgerType, Signed, L!Spend, L!Die, L!SignIn, L!Exchange, L!Sign

LEMMA SignedNow ==
  ASSUME LedgerType, NEW r \in NextPair,
         L!SignIn(AccessOf(r), r, {}) \/ \E j \in Jti : L!Exchange(j, AccessOf(r), r, {})
  PROVE  r \in Jti /\ ~Signed(r) /\ Signed(r)'
  <1>1. r \in Jti /\ AccessOf(r) \in Jti
    BY PairType
  <1>2. L!Sign(AccessOf(r), r, {})
    BY DEF L!SignIn, L!Exchange
  <1> QED
    BY <1>1, <1>2 DEF L!Sign, L!With, LedgerType, Signed

LEMMA RealToken == \A j \in Jti : j # NoToken
  BY SessionAssumption DEF Jti, NoToken

\* A step that brings no token to the browser.
LEMMA FreshKept ==
  ASSUME Known, Fresh, \A j : Signed(j) => Signed(j)', jar' = jar,
         \A c \in Call : /\ call'[c].new \in {call[c].new, NoToken}
                         /\ exchange'[c].new \in {exchange[c].new, NoToken}
                         /\ exchange'[c].cookie \in {exchange[c].cookie, jar, NoToken},
         \A j \in Jti : spentBy'[j] # {} => spentBy[j] # {} \/ \E c \in Call : exchange[c].cookie = j
  PROVE  Known' /\ Fresh'
  <1>1. Known'
    <2>1. \A j \in Jti : spentBy'[j] # {} => Signed(j)
      BY RealToken DEF Known
    <2> QED
      BY <2>1 DEF Known
  <1>2. \A j : Unsent(j) /\ Signed(j) /\ j # NoToken => Unsent(j)'
    BY DEF Unsent, Signed
  <1>3. Fresh'
    BY <1>2 DEF Known, Fresh
  <1> QED
    BY <1>1, <1>3

\* A token is signed, into the answer of one call or of one exchange.
LEMMA FreshSigned ==
  ASSUME Known, Fresh, \A j : Signed(j) => Signed(j)', jar' = jar, spentBy' = spentBy,
         NEW c \in Call, NEW r \in Jti, ~Signed(r), Signed(r)',
         \A d \in Call : exchange'[d].cookie = exchange[d].cookie,
         \A d \in Call : d # c => call'[d].new = call[d].new /\ exchange'[d].new = exchange[d].new,
         \/ call'[c].new = r /\ exchange'[c].new = exchange[c].new
         \/ exchange'[c].new = r /\ call'[c].new = call[c].new
  PROVE  Known' /\ Fresh'
  <1>1. Known'
    BY DEF Known
  <1>2. r # NoToken
    BY RealToken
  <1>3. Unsent(r)'
    BY <1>2 DEF Unsent, Known
  <1>4. \A j : Unsent(j) => Unsent(j)'
    BY DEF Unsent
  <1>5. \A d \in Call : call[d].new # r /\ exchange[d].new # r
    BY <1>2 DEF Known
  <1>6. Fresh'
    BY <1>2, <1>3, <1>4, <1>5 DEF Fresh
  <1> QED
    BY <1>1, <1>6

\* A token arrives in the jar, from the answer that is settled.
LEMMA FreshTaken ==
  ASSUME Known, Fresh, UNCHANGED <<st, spentBy>>, NEW c \in Call, jar' # NoToken,
         \A d \in Call : /\ call'[d].new \in {call[d].new, NoToken}
                         /\ exchange'[d].new \in {exchange[d].new, NoToken}
                         /\ exchange'[d].cookie \in {exchange[d].cookie, NoToken},
         \/ jar' = call[c].new /\ call'[c].new = NoToken
         \/ jar' = exchange[c].new /\ exchange'[c].new = NoToken
  PROVE  Known' /\ Fresh' /\ spentBy[jar'] = {}
  <1>1. Known' /\ spentBy[jar'] = {}
    BY DEF Known, Signed, Fresh, Unsent
  <1>2. \A j : Unsent(j) /\ j # jar' /\ j # NoToken => Unsent(j)'
    BY DEF Unsent
  <1>3. \A d \in Call : call'[d].new # jar' /\ exchange'[d].new # jar'
    BY DEF Fresh
  <1>4. Fresh'
    BY <1>2, <1>3 DEF Fresh
  <1> QED
    BY <1>1, <1>4

Race == Known /\ Fresh /\ JarSpent /\ Spent

\* A step that touches no exchange, and brings no token to the browser.
LEMMA RaceKept ==
  ASSUME Race, \A j : Signed(j) => Signed(j)', UNCHANGED <<jar, exchange, spentBy>>,
         \A c \in Call : call'[c].new \in {call[c].new, NoToken}
  PROVE  Race'
  <1>1. Known' /\ Fresh'
    BY FreshKept DEF Race
  <1>2. JarSpent' /\ Spent'
    BY DEF Race, JarSpent, Spent, Pending, Unspent
  <1> QED
    BY <1>1, <1>2 DEF Race

\* A token arrives in the jar.
LEMMA RaceTaken ==
  ASSUME Race, UNCHANGED <<st, spentBy>>, NEW c \in Call, jar' # NoToken,
         \A d \in Call : /\ call'[d].new \in {call[d].new, NoToken}
                         /\ exchange'[d] \in {exchange[d], Unused},
         \/ jar' = call[c].new /\ call'[c].new = NoToken
         \/ jar' = exchange[c].new /\ exchange'[c].new = NoToken
  PROVE  Race'
  <1>1. Unused.new = NoToken /\ Unused.cookie = NoToken
    BY DEF Unused
  <1>2. Known' /\ Fresh' /\ spentBy[jar'] = {}
    BY <1>1, FreshTaken DEF Race
  <1>3. JarSpent'
    BY <1>2 DEF JarSpent
  <1>4. Spent'
    BY <1>1 DEF Race, Spent, Unspent
  <1> QED
    BY <1>2, <1>3, <1>4 DEF Race

\* The jar is emptied.
LEMMA JarCleared ==
  ASSUME Race, UNCHANGED <<st, exchange, spentBy>>, jar' = NoToken,
         \A c \in Call : call'[c].new \in {call[c].new, NoToken}
  PROVE  Race'
  <1>1. Known'
    BY DEF Race, Known, Signed
  <1>2. \A j : Unsent(j) /\ j # NoToken => Unsent(j)'
    BY DEF Unsent
  <1>3. Fresh'
    BY <1>2 DEF Race, Fresh
  <1>4. JarSpent' /\ Spent'
    BY DEF Race, JarSpent, Spent, Unspent
  <1> QED
    BY <1>1, <1>3, <1>4 DEF Race

LEMMA AnswerNew ==
  ASSUME Shape, NEW c \in Call, NEW res, NEW new, Answer(c, res, new)
  PROVE  call'[c].new = new /\ \A d \in Call : d # c => call'[d] = call[d]
  BY DEF Answer, Shape, CallState

LEMMA SettleNew ==
  ASSUME Shape, NEW c \in Call, Settle(c)
  PROVE  call'[c].new = NoToken /\ \A d \in Call : d # c => call'[d] = call[d]
  BY IdleOk DEF Settle, Shape

LEMMA UserRace ==
  ASSUME TypeOK, Shape, Race, NEW t \in Tab, User(t)
  PROVE  Race'
  <1>1. CASE (\E p \in Page : Navigate(t, p)) \/ BackToLogin(t)
    BY <1>1, RaceKept DEF Navigate, BackToLogin, history, Signed
  <1>2. CASE \E c \in Call, kind \in Uses[t] : Send(t, c, kind)
    <2>1. PICK c \in Call, kind \in Uses[t] : Send(t, c, kind)
      BY <1>2
    <2>2. call'[c].new = NoToken /\ \A d \in Call : d # c => call'[d] = call[d]
      BY <2>1 DEF Send, Shape, Idle
    <2>3. \A d \in Call : call'[d].new \in {call[d].new, NoToken}
      BY <2>2
    <2> QED
      BY <2>1, <2>3, RaceKept DEF Send, Signed
  <1>3. CASE Reload(t)
    <2>1. \A c \in Call : call'[c].new \in {call[c].new, NoToken}
      BY <1>3, IdleOk DEF Reload
    <2>2. \A c \in Call : /\ exchange'[c].new = exchange[c].new
                          /\ exchange'[c].cookie = exchange[c].cookie
                          /\ exchange'[c].st = exchange[c].st /\ exchange'[c].res = exchange[c].res
                          /\ exchange'[c].tab = exchange[c].tab
                          /\ ~exchange'[c].orphan => ~exchange[c].orphan
                          /\ exchange[c].tab # t => exchange'[c] = exchange[c]
      BY <1>3 DEF Reload, Shape, ExchangeState
    <2>3. UNCHANGED <<st, jar>> /\ \A j \in Jti : spentBy'[j] = spentBy[j] \ {t}
      BY <1>3 DEF Reload
    <2>4. Known' /\ Fresh'
      BY <2>1, <2>2, <2>3, FreshKept DEF Race, Signed
    <2>5. JarSpent'
      <3> SUFFICES ASSUME jar # NoToken, NEW u \in spentBy'[jar]
                   PROVE  \E c \in Pending(u)' :
                            exchange'[c].cookie = jar /\ (exchange'[c].st = "spent" \/ exchange'[c].res = "ok")
        BY <2>3 DEF JarSpent
      <3>1. jar \in Jti /\ u # t /\ u \in spentBy[jar]
        BY <2>3 DEF TypeOK
      <3>2. PICK c \in Pending(u) :
              exchange[c].cookie = jar /\ (exchange[c].st = "spent" \/ exchange[c].res = "ok")
        BY <3>1 DEF Race, JarSpent
      <3>3. c \in Call /\ exchange'[c] = exchange[c]
        BY <2>2, <3>1, <3>2 DEF Pending
      <3> QED
        BY <3>2, <3>3 DEF Pending
    <2>6. Spent'
      <3>1. \A c \in Call : exchange[c].cookie # NoToken => exchange[c].cookie \in Jti
        BY DEF Shape, ExchangeState
      <3> QED
        BY <2>2, <2>3, <3>1 DEF Race, Spent, Unspent
    <2> QED
      BY <2>4, <2>5, <2>6 DEF Race
  <1> QED
    BY <1>1, <1>2, <1>3 DEF User

LEMMA AwaitRace ==
  ASSUME TypeOK, Shape, Race, NEW c \in Call, Await(c)
  PROVE  Race'
  <1> DEFINE t == call[c].tab
             e == [Unused EXCEPT !.st = "sent", !.tab = t, !.cookie = jar]
  <1>1. UNCHANGED <<st, jar, spentBy>> /\ exchange[c].st = "idle"
    BY DEF Await, history, Shape, Belongs
  <1>2. PICK s \in IF Pending(t) = {} THEN {c} ELSE Pending(t) :
          /\ call' = [call EXCEPT ![c].st = "waiting", ![c].retry = TRUE, ![c].via = s]
          /\ exchange' = IF exchange[s].st # "idle" THEN exchange
                         ELSE [exchange EXCEPT ![s] = [Unused EXCEPT !.st = "sent", !.tab = t,
                                                                     !.cookie = jar]]
    BY DEF Await
  <1> DEFINE q == [call[c] EXCEPT !.st = "waiting", !.retry = TRUE, !.via = s]
  <1>3. call' = [call EXCEPT ![c] = q] /\ q.new = call[c].new
    BY <1>2 DEF Shape, CallState
  <1> HIDE DEF q
  <1>4. \A d \in Call : call'[d].new = call[d].new
    BY <1>3 DEF Shape
  <1>5. CASE Pending(t) # {}
    <2>1. exchange' = exchange
      BY <1>2, <1>5 DEF Pending
    <2> QED
      BY <1>1, <1>4, <2>1, RaceKept DEF Signed
  <1>6. CASE Pending(t) = {}
    <2>1. /\ e.st = "sent" /\ e.tab = t /\ e.cookie = jar /\ e.new = NoToken
          /\ e.res = "none" /\ ~e.orphan
      BY DEF Unused
    <2>2. exchange' = [exchange EXCEPT ![c] = e]
      BY <1>1, <1>2, <1>6
    <2> HIDE DEF e
    <2>3. \A d \in Call : exchange'[d] = IF d = c THEN e ELSE exchange[d]
      BY <2>2 DEF Shape
    <2>4. Known' /\ Fresh'
      BY <1>1, <1>4, <2>1, <2>3, FreshKept DEF Race, Signed
    <2>5. JarSpent'
      BY <1>1, <2>3 DEF Race, JarSpent, Pending
    <2>6. jar # NoToken => t \notin spentBy[jar]
      BY <1>6 DEF Race, JarSpent
    <2>7. Spent'
      BY <1>1, <2>1, <2>3, <2>6 DEF Race, Spent, Unspent
    <2> QED
      BY <2>4, <2>5, <2>7 DEF Race
  <1> QED
    BY <1>5, <1>6

LEMMA CallRace ==
  ASSUME TypeOK, Shape, Race, NEW c \in Call, CallStep(c)
  PROVE  Race'
  <1>1. LedgerType /\ jar \in Jti \cup {NoToken}
    BY TypeParts
  <1>2. CASE ServeLogin(c)
    <2>1. \A j : Signed(j) => Signed(j)'
      BY <1>1, <1>2, SignedStays, PairType DEF ServeLogin
    <2>2. CASE Settle(c)
      <3>1. \A d \in Call : call'[d].new \in {call[d].new, NoToken}
        BY <2>2, SettleNew
      <3> QED
        BY <1>2, <2>1, <3>1, RaceKept DEF ServeLogin
    <2>3. CASE ~Settle(c)
      <3>1. PICK r \in NextPair : L!SignIn(AccessOf(r), r, {}) /\ Answer(c, "ok", r)
        BY <1>2, <2>3 DEF ServeLogin
      <3>2. r \in Jti /\ ~Signed(r) /\ Signed(r)'
        BY <1>1, <3>1, SignedNow
      <3>3. call'[c].new = r /\ \A d \in Call : d # c => call'[d] = call[d]
        BY <3>1, AnswerNew
      <3>4. UNCHANGED <<jar, exchange, spentBy>>
        BY <1>2 DEF ServeLogin
      <3>5. Known' /\ Fresh'
        BY <2>1, <3>2, <3>3, <3>4, FreshSigned DEF Race
      <3>6. JarSpent' /\ Spent'
        BY <3>4 DEF Race, JarSpent, Spent, Pending, Unspent
      <3> QED
        BY <3>5, <3>6 DEF Race
    <2> QED
      BY <2>2, <2>3
  <1>3. CASE ServeGet(c) \/ ServeLogout(c) \/ Lose(c) \/ Refused(c)
    <2>1. \A j : Signed(j) => Signed(j)'
      BY <1>1, <1>3, SignedStays DEF ServeGet, ServeLogout, Lose, Refused, Live, history
    <2>2. Settle(c) \/ \E res : Answer(c, res, NoToken)
      BY <1>3 DEF ServeGet, ServeLogout, Lose, Refused
    <2>3. \A d \in Call : call'[d].new \in {call[d].new, NoToken}
      BY <2>2, SettleNew, AnswerNew
    <2>4. UNCHANGED <<jar, exchange, spentBy>>
      BY <1>3 DEF ServeGet, ServeLogout, Lose, Refused, history
    <2> QED
      BY <2>1, <2>3, <2>4, RaceKept
  <1>4. CASE LoginDone(c)
    <2>1. call[c].new \in Jti /\ jar' = call[c].new /\ UNCHANGED <<st, exchange, spentBy>>
      BY <1>4 DEF LoginDone, Shape, CallOk
    <2>2. call'[c].new = NoToken /\ \A d \in Call : d # c => call'[d] = call[d]
      BY <1>4, SettleNew DEF LoginDone
    <2>3. jar' # NoToken
      BY <2>1, RealToken
    <2> QED
      BY <2>1, <2>2, <2>3, RaceTaken
  <1>5. CASE LogoutDone(c)
    <2>1. UNCHANGED <<st, exchange, spentBy>> /\ jar' \in {jar, NoToken}
      BY <1>5 DEF LogoutDone
    <2>2. \A d \in Call : call'[d].new \in {call[d].new, NoToken}
      BY <1>5, SettleNew DEF LogoutDone
    <2>3. CASE jar' = jar
      BY <2>1, <2>2, <2>3, RaceKept DEF Signed
    <2>4. CASE jar' = NoToken
      BY <2>1, <2>2, <2>4, JarCleared
    <2> QED
      BY <2>1, <2>3, <2>4
  <1> QED
    BY <1>2, <1>3, <1>4, <1>5, AwaitRace DEF CallStep

LEMMA SpendRace ==
  ASSUME TypeOK, Shape, Race, NEW c \in Call, SpendCookie(c)
  PROVE  Race'
  <1> DEFINE e == exchange[c]
  <1>1. LedgerType /\ spentBy \in [Jti -> SUBSET Tab]
    BY TypeParts DEF HistoryType
  <1>2. /\ e \in ExchangeState /\ e.st = "sent" /\ UNCHANGED <<jar, call>>
        /\ \A j : Signed(j) => Signed(j)'
    BY <1>1, SignedStays DEF SpendCookie, Shape, Live, Signed
  <1>3. PICK f : /\ exchange' = [exchange EXCEPT ![c] = f]
                 /\ f.tab = e.tab /\ f.orphan = e.orphan /\ f.cookie = e.cookie /\ f.new = e.new
                 /\ f.st # "idle"
                 /\ IF Live(e.cookie) THEN f.st = "spent" /\ f.res = e.res ELSE f.res = "refused"
    <2> DEFINE a == [e EXCEPT !.st = "spent"]
               b == [e EXCEPT !.st = "answered", !.res = "refused"]
    <2>1. exchange' = [exchange EXCEPT ![c] = IF Live(e.cookie) THEN a ELSE b]
      BY DEF SpendCookie, Shape
    <2>2. /\ a.tab = e.tab /\ a.orphan = e.orphan /\ a.cookie = e.cookie /\ a.new = e.new
          /\ a.st = "spent" /\ a.res = e.res
          /\ b.tab = e.tab /\ b.orphan = e.orphan /\ b.cookie = e.cookie /\ b.new = e.new
          /\ b.st = "answered" /\ b.res = "refused"
      BY <1>2 DEF ExchangeState
    <2> HIDE DEF a, b
    <2> QED
      BY <2>1, <2>2
  <1>4. \A d \in Call : exchange'[d] = IF d = c THEN f ELSE exchange[d]
    BY <1>3 DEF Shape
  <1>5. CASE Live(e.cookie)
    <2>1. /\ e.cookie \in Jti
          /\ spentBy' = [spentBy EXCEPT ![e.cookie] = IF e.orphan THEN {} ELSE {e.tab}]
      BY <1>5 DEF SpendCookie, Live
    <2>2. \A j \in Jti : spentBy'[j] = IF j # e.cookie THEN spentBy[j]
                                       ELSE IF e.orphan THEN {} ELSE {e.tab}
      BY <1>1, <2>1
    <2>3. Known' /\ Fresh'
      BY <1>2, <1>3, <1>4, <2>2, FreshKept DEF Race
    <2>4. JarSpent'
      <3> SUFFICES ASSUME jar # NoToken, NEW t \in spentBy'[jar]
                   PROVE  \E d \in Pending(t)' :
                            exchange'[d].cookie = jar /\ (exchange'[d].st = "spent" \/ exchange'[d].res = "ok")
        BY <1>2 DEF JarSpent
      <3>1. CASE jar = e.cookie
        BY <1>2, <1>3, <1>4, <1>5, <2>1, <2>2, <3>1 DEF Pending
      <3>2. CASE jar # e.cookie
        <4>1. PICK d \in Pending(t) :
                exchange[d].cookie = jar /\ (exchange[d].st = "spent" \/ exchange[d].res = "ok")
          BY <2>2, <3>2 DEF Race, JarSpent, TypeOK
        <4> QED
          BY <1>4, <3>2, <4>1 DEF Pending
      <3> QED
        BY <3>1, <3>2
    <2>5. ASSUME NEW d \in Call, Unspent(exchange'[d]), ~exchange'[d].orphan,
                 exchange'[d].cookie # NoToken
          PROVE  exchange'[d].tab \notin spentBy'[exchange'[d].cookie]
      <3>1. d # c
        BY <1>2, <1>3, <1>4, <1>5, <2>5 DEF Unspent, Shape, ExchangeOk
      <3>2. exchange'[d] = exchange[d] /\ exchange[d].cookie \in Jti
        BY <1>4, <2>5, <3>1 DEF Shape, ExchangeState
      <3>3. exchange[d].st # "idle" /\ exchange[d].tab \in Tab
        BY <2>5, <3>2 DEF Unspent, Shape, ExchangeOk
      <3>4. e.orphan \/ exchange[d].tab # e.tab
        BY <1>2, <2>5, <3>1, <3>2, <3>3 DEF Shape, OnePending, Pending
      <3> QED
        BY <2>2, <2>5, <3>2, <3>4 DEF Race, Spent
    <2> QED
      BY <2>3, <2>4, <2>5 DEF Race, Spent
  <1>6. CASE ~Live(e.cookie)
    <2>1. spentBy' = spentBy
      BY <1>6 DEF SpendCookie
    <2>2. Known' /\ Fresh'
      BY <1>2, <1>3, <1>4, <2>1, FreshKept DEF Race
    <2>3. JarSpent'
      <3>1. e.st # "spent" /\ e.res # "ok"
        BY <1>2 DEF Shape, ExchangeOk
      <3> QED
        BY <1>2, <1>4, <2>1, <3>1 DEF Race, JarSpent, Pending
    <2>4. Spent'
      BY <1>2, <1>3, <1>4, <2>1 DEF Race, Spent, Unspent
    <2> QED
      BY <2>2, <2>3, <2>4 DEF Race
  <1> QED
    BY <1>5, <1>6

LEMMA SignRace ==
  ASSUME TypeOK, Shape, Race, NEW c \in Call, SignHeir(c)
  PROVE  Race'
  <1> DEFINE e == exchange[c]
  <1>1. LedgerType /\ UNCHANGED <<jar, call, spentBy>>
    BY TypeParts DEF SignHeir
  <1>2. e \in ExchangeState /\ e.st = "spent" /\ e.cookie \in Jti
    BY DEF Shape, SignHeir, ExchangeOk
  <1>3. PICK r \in NextPair :
          /\ L!Exchange(e.cookie, AccessOf(r), r, {})
          /\ exchange' = [exchange EXCEPT ![c].st = "answered", ![c].res = "ok", ![c].new = r]
    BY DEF SignHeir
  <1> DEFINE f == [e EXCEPT !.st = "answered", !.res = "ok", !.new = r]
  <1>4. exchange' = [exchange EXCEPT ![c] = f]
    BY <1>3 DEF Shape
  <1>5. /\ f.tab = e.tab /\ f.orphan = e.orphan /\ f.cookie = e.cookie
        /\ f.new = r /\ f.st = "answered" /\ f.res = "ok"
    BY <1>2 DEF ExchangeState
  <1> HIDE DEF f
  <1>6. \A d \in Call : exchange'[d] = IF d = c THEN f ELSE exchange[d]
    BY <1>4 DEF Shape
  <1>7. r \in Jti /\ ~Signed(r) /\ Signed(r)' /\ \A j : Signed(j) => Signed(j)'
    BY <1>1, <1>2, <1>3, SignedNow, SignedStays, PairType
  <1>8. Known' /\ Fresh'
    BY <1>1, <1>5, <1>6, <1>7, FreshSigned DEF Race
  <1>9. JarSpent'
    BY <1>1, <1>2, <1>5, <1>6 DEF Race, JarSpent, Pending
  <1>10. Spent'
    BY <1>1, <1>5, <1>6 DEF Race, Spent, Unspent
  <1> QED
    BY <1>8, <1>9, <1>10 DEF Race

LEMMA LoseRace ==
  ASSUME TypeOK, Shape, Race, NEW c \in Call, LoseExchange(c)
  PROVE  Race'
  <1> DEFINE e == exchange[c]
             f == [e EXCEPT !.st = "answered", !.res = "lost", !.new = NoToken]
  <1>1. UNCHANGED <<st, jar, call>> /\ e \in ExchangeState
    BY DEF LoseExchange, Shape
  <1>2. exchange' = [exchange EXCEPT ![c] = f]
    BY DEF LoseExchange, Shape
  <1>3. /\ f.tab = e.tab /\ f.orphan = e.orphan /\ f.cookie = e.cookie
        /\ f.new = NoToken /\ f.st = "answered" /\ f.res = "lost"
    BY <1>1 DEF ExchangeState
  <1> HIDE DEF f
  <1>4. \A d \in Call : exchange'[d] = IF d = c THEN f ELSE exchange[d]
    BY <1>2 DEF Shape
  <1>5. /\ \A j \in Jti : spentBy'[j] \subseteq spentBy[j]
        /\ e.st # "sent" /\ e.cookie # NoToken => e.tab \notin spentBy'[e.cookie]
    BY <1>1, TypeParts DEF LoseExchange, HistoryType, ExchangeState
  <1>6. Known' /\ Fresh'
    BY <1>1, <1>3, <1>4, <1>5, FreshKept DEF Race, Signed
  <1>7. JarSpent'
    <2> SUFFICES ASSUME jar # NoToken, NEW t \in spentBy'[jar]
                 PROVE  \E d \in Pending(t)' :
                          exchange'[d].cookie = jar /\ (exchange'[d].st = "spent" \/ exchange'[d].res = "ok")
      BY <1>1 DEF JarSpent
    <2>1. t \in spentBy[jar]
      BY <1>5 DEF TypeOK
    <2>2. PICK d \in Pending(t) :
            exchange[d].cookie = jar /\ (exchange[d].st = "spent" \/ exchange[d].res = "ok")
      BY <2>1 DEF Race, JarSpent
    <2>3. d # c
      BY <1>5, <2>2 DEF Pending, Shape, ExchangeOk
    <2> QED
      BY <1>4, <2>2, <2>3 DEF Pending
  <1>8. Spent'
    <2>1. \A d \in Call : exchange[d].cookie # NoToken => exchange[d].cookie \in Jti
      BY DEF Shape, ExchangeState
    <2> QED
      BY <1>3, <1>4, <1>5, <2>1 DEF Race, Spent, Unspent
  <1> QED
    BY <1>6, <1>7, <1>8 DEF Race

LEMMA HeardRace ==
  ASSUME TypeOK, Shape, Race, NEW c \in Call,
         Refreshed(c) \/ RefreshFailed(c) \/ OrphanAnswered(c)
  PROVE  Race'
  <1> DEFINE e == exchange[c]
  <1>1. e \in ExchangeState /\ ExchangeOk(e)
    BY DEF Shape
  <1>2. UNCHANGED <<st, spentBy>> /\ exchange' = [exchange EXCEPT ![c] = Unused]
    BY DEF Refreshed, RefreshFailed, OrphanAnswered, history
  <1>3. \A d \in Call : exchange'[d] = IF d = c THEN Unused ELSE exchange[d]
    BY <1>2 DEF Shape
  <1>4. Unused.new = NoToken /\ Unused.cookie = NoToken /\ Unused.st = "idle"
    BY DEF Unused
  <1>5. \A d \in Call : call'[d].new \in {call[d].new, NoToken}
    <2>1. CASE Refreshed(c)
      <3> DEFINE q(d) == [call[d] EXCEPT !.st = "sent", !.acc = tab'[e.tab].acc, !.res = "none",
                                         !.cookie = IF call[d].kind = "logout" THEN jar' ELSE @]
      <3>1. \A d \in Call : q(d).new = call[d].new
        BY DEF Shape, CallState
      <3>2. \A d \in Call : call'[d] = IF d \notin Waiting(c) THEN call[d] ELSE q(d)
        BY <2>1 DEF Refreshed
      <3> HIDE DEF q
      <3> QED
        BY <3>1, <3>2
    <2>2. CASE RefreshFailed(c)
      BY <2>2, IdleOk DEF RefreshFailed
    <2>3. CASE OrphanAnswered(c)
      BY <2>3 DEF OrphanAnswered
    <2> QED
      BY <2>1, <2>2, <2>3
  <1>6. CASE jar' = jar /\ ~Refreshed(c)
    <2>1. \A t : c \in Pending(t) => e.st # "spent" /\ e.res # "ok"
      BY <1>1, <1>6 DEF Pending, RefreshFailed, OrphanAnswered
    <2>2. Known' /\ Fresh'
      BY <1>2, <1>3, <1>4, <1>5, <1>6, FreshKept DEF Race, Signed
    <2>3. JarSpent'
      BY <1>2, <1>3, <1>6, <2>1 DEF Race, JarSpent, Pending
    <2>4. Spent'
      BY <1>2, <1>3, <1>4 DEF Race, Spent, Unspent
    <2> QED
      BY <2>2, <2>3, <2>4 DEF Race
  <1>7. CASE Refreshed(c) \/ jar' # jar
    <2>1. jar' = e.new /\ jar' # NoToken
      <3>1. Refreshed(c) => jar' = e.new /\ e.new # NoToken
        BY <1>1, RealToken DEF Refreshed, ExchangeOk
      <3>2. OrphanAnswered(c) /\ jar' # jar => jar' = e.new /\ e.new # NoToken
        BY DEF OrphanAnswered
      <3>3. RefreshFailed(c) => jar' = jar
        BY DEF RefreshFailed
      <3> QED
        BY <1>7, <3>1, <3>2, <3>3
    <2> QED
      BY <1>2, <1>3, <1>4, <1>5, <2>1, RaceTaken
  <1> QED
    BY <1>6, <1>7

LEMMA RaceStep == TypeOK /\ Shape /\ Race /\ [Next]_vars => Race'
  <1> SUFFICES ASSUME TypeOK, Shape, Race, [Next]_vars PROVE Race'
    OBVIOUS
  <1>1. CASE Expire
    <2>1. \A j : Signed(j) => Signed(j)'
      BY <1>1, TypeParts, SignedStays DEF Expire, L!With
    <2> QED
      BY <1>1, <2>1, RaceKept DEF Expire, history
  <1>2. CASE UNCHANGED vars
    BY <1>2, RaceKept DEF vars, Signed
  <1>3. ASSUME NEW c \in Call, RefreshStep(c) PROVE Race'
    BY <1>3, SpendRace, SignRace, LoseRace, HeardRace DEF RefreshStep
  <1> QED
    BY <1>1, <1>2, <1>3, UserRace, CallRace DEF Next

\* api/index.ts:22-24: when the server refuses a refresh because its cookie was
\* exchanged before, it was not this document that exchanged it, for any number
\* of tabs, calls, refreshes and tokens.
THEOREM DocumentsDoNotRace == Spec => []NoSelfRace
  <1> DEFINE IInv == TypeOK /\ Shape /\ Race
  <1>1. Init => Race
    BY DEF Init, Race, Known, Fresh, JarSpent, Spent, Idle, Unused
  <1>2. Init => IInv
    BY <1>1, InitShape
  <1>3. IInv /\ [Next]_vars => IInv'
    BY ShapeStep, TypeStep, RaceStep
  <1>4. IInv => NoSelfRace
    BY DEF Race, Spent, Unspent, NoSelfRace
  <1> QED
    BY <1>2, <1>3, <1>4, PTL DEF Spec

-----------------------------------------------------------------------------
(* A retry is not wasted *)

\* The refresh tokens in the answers that are under way to the browser, and
\* the access tokens the browser has in its tabs and in its requests.
Coming == {call[c].new : c \in Call} \cup {exchange[c].new : c \in Call}
Held == {tab[t].acc : t \in Tab} \cup {call[c].acc : c \in Call}

\* An access token that is held was signed; one that is under way is not held
\* yet.
Pairs ==
  /\ \A a \in Held : a # NoToken => Signed(a)
  /\ \A n \in Coming : n # NoToken => Signed(AccessOf(n)) /\ AccessOf(n) \notin Held

\* A step that brings the browser no token.
LEMMA PairsKept ==
  ASSUME Pairs, \A j : Signed(j) => Signed(j)', Held' \subseteq Held \cup {NoToken},
         Coming' \subseteq Coming \cup {NoToken}
  PROVE  Pairs'
  <1>1. ~Signed(NoToken)
    BY RealToken DEF Signed
  <1> QED
    BY <1>1 DEF Pairs

\* A pair is signed, into an answer.
LEMMA PairsSigned ==
  ASSUME TypeOK, Pairs, \A j : Signed(j) => Signed(j)', NEW r \in NextPair,
         L!SignIn(AccessOf(r), r, {}) \/ \E j \in Jti : L!Exchange(j, AccessOf(r), r, {}),
         Held' \subseteq Held \cup {NoToken}, Coming' \subseteq Coming \cup {r, NoToken}
  PROVE  Pairs'
  <1>1. AccessOf(r) \in Jti /\ r \in Jti /\ LedgerType
    BY PairType, TypeParts
  <1>2. L!Sign(AccessOf(r), r, {})
    BY DEF L!SignIn, L!Exchange
  <1>3. ~Signed(AccessOf(r)) /\ Signed(AccessOf(r))'
    BY <1>1, <1>2 DEF L!Sign, L!With, LedgerType, Signed
  <1>4. ~Signed(NoToken) /\ AccessOf(r) # NoToken
    BY <1>1, RealToken DEF Signed
  <1> QED
    BY <1>3, <1>4 DEF Pairs

\* A pair arrives: its access token goes to a tab, or to a request.
LEMMA PairsTaken ==
  ASSUME Pairs, UNCHANGED st, NEW n \in Coming, n \in Jti,
         \A r \in Coming : r # NoToken => r \in Jti,
         Held' \subseteq Held \cup {AccessOf(n), NoToken},
         Coming' \subseteq Coming \cup {NoToken}, n \notin Coming'
  PROVE  Pairs'
  <1>1. n # NoToken /\ Signed(AccessOf(n))
    BY RealToken DEF Pairs
  <1>2. \A r \in Coming : r # NoToken /\ r # n => AccessOf(r) # AccessOf(n)
    BY SessionAssumption DEF AccessOf, Jti
  <1>3. ~Signed(NoToken) /\ \A j : Signed(j)' <=> Signed(j)
    BY RealToken DEF Signed
  <1> QED
    BY <1>1, <1>2, <1>3 DEF Pairs

\* What the browser has when call c is q, and nothing else of the calls changes.
LEMMA OneCall ==
  ASSUME Shape, NEW c \in Call, NEW q, call' = [call EXCEPT ![c] = q],
         UNCHANGED <<tab, exchange>>
  PROVE  /\ Held' \subseteq Held \cup {q.acc}
         /\ Coming' \subseteq Coming \cup {q.new}
  <1>1. \A d \in Call : call'[d] = IF d = c THEN q ELSE call[d]
    BY DEF Shape
  <1> QED
    BY <1>1 DEF Held, Coming

\* What it has when tab t shows another token.
LEMMA OneTab ==
  ASSUME tab \in [Tab -> TabState], NEW t \in Tab, NEW p \in Page,
         NEW acc \in Jti \cup {NoToken}, Show(t, p, acc),
         \A d \in Call : call'[d].acc \in Held \cup {acc, NoToken}
  PROVE  Held' \subseteq Held \cup {acc, NoToken}
  BY ShowStep DEF Held

\* Or leaves.
LEMMA LeftTab ==
  ASSUME tab \in [Tab -> TabState], NEW t \in Tab, Leave(t),
         \A d \in Call : call'[d].acc \in Held \cup {NoToken}
  PROVE  Held' \subseteq Held \cup {NoToken}
  <1>1. \A u \in Tab : tab'[u].acc \in {tab[u].acc, NoToken}
    BY DEF Leave
  <1> QED
    BY <1>1 DEF Held

\* The exchanges carry no more tokens than before.
LEMMA ComingKept ==
  ASSUME \A c \in Call : /\ call'[c].new \in {call[c].new, NoToken}
                         /\ exchange'[c].new \in {exchange[c].new, NoToken}
  PROVE  Coming' \subseteq Coming \cup {NoToken}
  BY DEF Coming

LEMMA IdleTokens == Idle.acc = NoToken /\ Idle.new = NoToken /\ Idle.cookie = NoToken
  BY DEF Idle

LEMMA UserPairs ==
  ASSUME TypeOK, Shape, Pairs, NEW t \in Tab, User(t)
  PROVE  Pairs'
  <1>1. tab \in [Tab -> TabState] /\ UNCHANGED st
    BY TypeParts DEF User, Navigate, BackToLogin, Reload, Send
  <1>2. \A j : Signed(j) => Signed(j)'
    BY <1>1 DEF Signed
  <1>3. CASE (\E p \in Page : Navigate(t, p)) \/ BackToLogin(t)
    <2>1. PICK p \in Page, acc \in {tab[t].acc, NoToken} : Show(t, p, acc)
      BY <1>3 DEF Navigate, BackToLogin, Page
    <2>2. acc \in Jti \cup {NoToken} /\ acc \in Held \cup {NoToken}
      BY <1>1 DEF TabState, Held
    <2>3. UNCHANGED <<call, exchange>> /\ \A d \in Call : call'[d].acc \in Held
      BY <1>3 DEF Navigate, BackToLogin, Held
    <2>4. Held' \subseteq Held \cup {NoToken}
      BY <1>1, <2>1, <2>2, <2>3, OneTab
    <2>5. Coming' = Coming
      BY <2>3 DEF Coming
    <2> QED
      BY <1>2, <2>4, <2>5, PairsKept
  <1>4. CASE Reload(t)
    <2>1. \A u \in Tab : tab'[u].acc \in {tab[u].acc, NoToken}
      BY <1>1, <1>4 DEF Reload
    <2>2. \A c \in Call : call'[c].acc \in {call[c].acc, NoToken} /\ call'[c].new \in {call[c].new, NoToken}
      BY <1>4, IdleTokens DEF Reload
    <2>3. \A c \in Call : exchange'[c].new = exchange[c].new
      BY <1>4 DEF Reload, Shape, ExchangeState
    <2>4. Held' \subseteq Held \cup {NoToken}
      BY <2>1, <2>2 DEF Held
    <2>5. Coming' \subseteq Coming \cup {NoToken}
      BY <2>2, <2>3, ComingKept
    <2> QED
      BY <1>2, <2>4, <2>5, PairsKept
  <1>5. CASE \E c \in Call, kind \in Uses[t] : Send(t, c, kind)
    <2>1. PICK c \in Call, kind \in Uses[t] : Send(t, c, kind)
      BY <1>5
    <2> DEFINE q == [Idle EXCEPT !.st = "sent", !.tab = t, !.kind = kind,
                                 !.acc = IF kind = "login" THEN NoToken ELSE tab[t].acc,
                                 !.cookie = IF kind = "logout" THEN jar ELSE NoToken]
    <2>2. call' = [call EXCEPT ![c] = q] /\ UNCHANGED <<tab, exchange>>
      BY <2>1 DEF Send
    <2>3. q.acc \in Held \cup {NoToken} /\ q.new = NoToken
      BY DEF Idle, Held
    <2> HIDE DEF q
    <2>4. Held' \subseteq Held \cup {NoToken} /\ Coming' \subseteq Coming \cup {NoToken}
      BY <2>2, <2>3, OneCall
    <2> QED
      BY <1>2, <2>4, PairsKept
  <1> QED
    BY <1>3, <1>4, <1>5 DEF User

\* An answer, or the end of a call, brings what it carries.
LEMMA AnswerHeld ==
  ASSUME Shape, NEW c \in Call, NEW res, NEW new, Answer(c, res, new) \/ (Settle(c) /\ new = NoToken),
         UNCHANGED exchange
  PROVE  /\ \A d \in Call : call'[d].acc \in {call[d].acc, NoToken}
         /\ Coming' \subseteq Coming \cup {new, NoToken}
  <1>1. \A d \in Call : call'[d].acc \in {call[d].acc, NoToken} /\ call'[d].new \in {call[d].new, new}
    BY IdleTokens DEF Answer, Settle, Shape, CallState
  <1> QED
    BY <1>1 DEF Coming

LEMMA CallPairs ==
  ASSUME TypeOK, Shape, Race, Pairs, NEW c \in Call, CallStep(c)
  PROVE  Pairs'
  <1> DEFINE t == call[c].tab
  <1>1. /\ LedgerType /\ tab \in [Tab -> TabState]
        /\ call[c] \in CallState
    BY TypeParts
  <1>2. call[c].st # "idle" /\ t \in Tab
    BY DEF CallStep, ServeLogin, ServeGet, ServeLogout, Lose, Await, Refused, LoginDone,
       LogoutDone, Shape, CallOk
  <1>3. \A d \in Call : call[d].acc \in Held
    BY DEF Held
  <1>4. CASE ServeLogin(c)
    <2>1. \A j : Signed(j) => Signed(j)'
      BY <1>1, <1>4, SignedStays, PairType DEF ServeLogin
    <2>2. UNCHANGED <<tab, exchange>>
      BY <1>4 DEF ServeLogin
    <2>3. CASE Settle(c)
      <3>1. /\ \A d \in Call : call'[d].acc \in {call[d].acc, NoToken}
            /\ Coming' \subseteq Coming \cup {NoToken}
        BY <2>2, <2>3, AnswerHeld
      <3>2. Held' \subseteq Held \cup {NoToken}
        BY <2>2, <3>1 DEF Held
      <3> QED
        BY <2>1, <3>1, <3>2, PairsKept
    <2>4. CASE ~Settle(c)
      <3>1. PICK r \in NextPair : L!SignIn(AccessOf(r), r, {}) /\ Answer(c, "ok", r)
        BY <1>4, <2>4 DEF ServeLogin
      <3>2. /\ \A d \in Call : call'[d].acc \in {call[d].acc, NoToken}
            /\ Coming' \subseteq Coming \cup {r, NoToken}
        BY <2>2, <3>1, AnswerHeld
      <3>3. Held' \subseteq Held \cup {NoToken}
        BY <2>2, <3>2 DEF Held
      <3> QED
        BY <2>1, <3>1, <3>2, <3>3, PairsSigned
    <2> QED
      BY <2>3, <2>4
  <1>5. CASE ServeGet(c) \/ ServeLogout(c) \/ Lose(c) \/ Refused(c) \/ LogoutDone(c)
    <2>1. \A j : Signed(j) => Signed(j)'
      BY <1>1, <1>5, SignedStays DEF ServeGet, ServeLogout, Lose, Refused, LogoutDone, Live, history
    <2>2. Settle(c) \/ \E res : Answer(c, res, NoToken)
      BY <1>5 DEF ServeGet, ServeLogout, Lose, Refused, LogoutDone
    <2>3. /\ \A d \in Call : call'[d].acc \in {call[d].acc, NoToken}
          /\ Coming' \subseteq Coming \cup {NoToken}
      <3>1. exchange' = exchange
        BY <1>5 DEF ServeGet, ServeLogout, Lose, Refused, LogoutDone
      <3> QED
        BY <2>2, <3>1, AnswerHeld
    <2>4. Held' \subseteq Held \cup {NoToken}
      <3>1. CASE UNCHANGED tab
        BY <2>3, <3>1 DEF Held
      <3>2. CASE LogoutDone(c)
        BY <1>1, <1>2, <1>3, <2>3, <3>2, LeftTab DEF LogoutDone, LogoutSettled
      <3>3. CASE ServeGet(c) /\ ~UNCHANGED tab
        <4>1. Show(t, "app", tab[t].acc) /\ "app" \in Page
          BY <3>3 DEF ServeGet, PasswordChanged, Page
        <4>2. tab[t].acc \in Jti \cup {NoToken} /\ tab[t].acc \in Held
          BY <1>1, <1>2 DEF TabState, Held
        <4> QED
          BY <1>1, <1>2, <1>3, <2>3, <4>1, <4>2, OneTab
      <3> QED
        BY <1>5, <3>1, <3>2, <3>3 DEF ServeLogout, Lose, Refused
    <2> QED
      BY <2>1, <2>3, <2>4, PairsKept
  <1>6. CASE Await(c)
    <2>1. PICK s \in IF Pending(t) = {} THEN {c} ELSE Pending(t) :
            /\ call' = [call EXCEPT ![c].st = "waiting", ![c].retry = TRUE, ![c].via = s]
            /\ exchange' = IF exchange[s].st # "idle" THEN exchange
                           ELSE [exchange EXCEPT ![s] = [Unused EXCEPT !.st = "sent", !.tab = t,
                                                                       !.cookie = jar]]
      BY <1>6 DEF Await
    <2> DEFINE q == [call[c] EXCEPT !.st = "waiting", !.retry = TRUE, !.via = s]
               e == [Unused EXCEPT !.st = "sent", !.tab = t, !.cookie = jar]
    <2>2. q.acc = call[c].acc /\ q.new = call[c].new /\ e.new = NoToken
      BY <1>1 DEF CallState, Unused
    <2>3. call' = [call EXCEPT ![c] = q]
      BY <2>1 DEF Shape
    <2>4. exchange' = IF exchange[s].st # "idle" THEN exchange ELSE [exchange EXCEPT ![s] = e]
      BY <2>1
    <2> HIDE DEF q, e
    <2>5. \A d \in Call : call'[d].acc = call[d].acc /\ call'[d].new = call[d].new
      BY <2>2, <2>3 DEF Shape
    <2>6. \A d \in Call : exchange'[d].new \in {exchange[d].new, NoToken}
      BY <2>2, <2>4 DEF Shape
    <2>7. UNCHANGED <<st, tab>>
      BY <1>6 DEF Await
    <2>8. Held' = Held /\ Coming' \subseteq Coming \cup {NoToken}
      BY <2>5, <2>6, <2>7 DEF Held, Coming
    <2> QED
      BY <2>7, <2>8, PairsKept DEF Signed
  <1>7. CASE LoginDone(c)
    <2>1. /\ call[c].new \in Jti /\ jar' = call[c].new /\ UNCHANGED <<st, exchange>> /\ Settle(c)
          /\ \E p \in Landing : Show(t, p, AccessOf(call[c].new))
      BY <1>7 DEF LoginDone, Shape, CallOk
    <2>2. /\ \A d \in Call : call'[d].acc \in {call[d].acc, NoToken}
          /\ Coming' \subseteq Coming \cup {NoToken}
      BY <2>1, AnswerHeld
    <2>3. Held' \subseteq Held \cup {AccessOf(call[c].new), NoToken}
      BY <1>1, <1>2, <1>3, <2>1, <2>2, AccessType, OneTab DEF Landing, Page
    <2>4. call[c].new \notin Coming'
      BY <1>7, <2>1, CallRace, RealToken DEF CallStep, Race, Fresh, Unsent, Coming
    <2>5. \A r \in Coming : r # NoToken => r \in Jti
      BY DEF Coming, Shape, CallState, ExchangeState
    <2>6. call[c].new \in Coming
      BY DEF Coming
    <2> QED
      BY <2>1, <2>2, <2>3, <2>4, <2>5, <2>6, PairsTaken
  <1> QED
    BY <1>4, <1>5, <1>6, <1>7 DEF CallStep

LEMMA RefreshPairs ==
  ASSUME TypeOK, Shape, Race, Pairs, NEW c \in Call, RefreshStep(c)
  PROVE  Pairs'
  <1> DEFINE e == exchange[c]
  <1>1. /\ LedgerType /\ tab \in [Tab -> TabState]
        /\ e \in ExchangeState /\ ExchangeOk(e)
    BY TypeParts DEF Shape
  <1>2. \A d \in Call : call[d].acc \in Held
    BY DEF Held
  <1>3. CASE SpendCookie(c) \/ LoseExchange(c) \/ OrphanAnswered(c)
    <2>1. \A j : Signed(j) => Signed(j)'
      BY <1>1, <1>3, SignedStays DEF SpendCookie, LoseExchange, OrphanAnswered, Live
    <2>2. UNCHANGED <<tab, call>>
      BY <1>3 DEF SpendCookie, LoseExchange, OrphanAnswered
    <2>3. \A d \in Call : exchange'[d].new \in {exchange[d].new, NoToken}
      BY <1>3 DEF SpendCookie, LoseExchange, OrphanAnswered, Shape, ExchangeState, Unused
    <2>4. Held' = Held /\ Coming' \subseteq Coming \cup {NoToken}
      BY <2>2, <2>3 DEF Held, Coming
    <2> QED
      BY <2>1, <2>4, PairsKept
  <1>4. CASE SignHeir(c)
    <2>1. PICK r \in NextPair :
            /\ L!Exchange(e.cookie, AccessOf(r), r, {})
            /\ exchange' = [exchange EXCEPT ![c].st = "answered", ![c].res = "ok", ![c].new = r]
      BY <1>4 DEF SignHeir
    <2>2. e.cookie \in Jti /\ UNCHANGED <<tab, call>>
      BY <1>1, <1>4 DEF SignHeir, ExchangeOk
    <2>3. \A j : Signed(j) => Signed(j)'
      BY <1>1, <2>1, <2>2, SignedStays, PairType
    <2>4. \A d \in Call : exchange'[d].new \in {exchange[d].new, r}
      BY <2>1 DEF Shape, ExchangeState
    <2>5. Held' = Held /\ Coming' \subseteq Coming \cup {r}
      BY <2>2, <2>4 DEF Held, Coming
    <2> QED
      BY <2>1, <2>2, <2>3, <2>5, PairsSigned
  <1>5. CASE RefreshFailed(c)
    <2>1. e.tab \in Tab /\ UNCHANGED st /\ Leave(e.tab)
      BY <1>1, <1>5 DEF RefreshFailed, ExchangeOk
    <2>2. \A d \in Call : call'[d].acc \in {call[d].acc, NoToken} /\ call'[d].new \in {call[d].new, NoToken}
      BY <1>5, IdleTokens DEF RefreshFailed
    <2>3. \A d \in Call : exchange'[d].new \in {exchange[d].new, NoToken}
      BY <1>5 DEF RefreshFailed, Unused, Shape
    <2>4. Held' \subseteq Held \cup {NoToken} /\ Coming' \subseteq Coming \cup {NoToken}
      BY <1>1, <1>2, <2>1, <2>2, <2>3, LeftTab, ComingKept
    <2> QED
      BY <2>1, <2>4, PairsKept DEF Signed
  <1>6. CASE Refreshed(c)
    <2>1. /\ e.tab \in Tab /\ e.new \in Jti /\ jar' = e.new /\ UNCHANGED st
          /\ Show(e.tab, tab[e.tab].page, AccessOf(e.new))
      BY <1>1, <1>6 DEF Refreshed, ExchangeOk, StoreToken
    <2>2. tab[e.tab].page \in Page /\ AccessOf(e.new) \in Jti \cup {NoToken}
      BY <1>1, <2>1, AccessType DEF TabState
    <2>3. tab'[e.tab].acc = AccessOf(e.new)
      BY <1>1, <2>1, <2>2, ShowStep
    <2> DEFINE q(d) == [call[d] EXCEPT !.st = "sent", !.acc = tab'[e.tab].acc, !.res = "none",
                                       !.cookie = IF call[d].kind = "logout" THEN jar' ELSE @]
    <2>4. \A d \in Call : q(d).acc = tab'[e.tab].acc /\ q(d).new = call[d].new
      BY DEF Shape, CallState
    <2>5. \A d \in Call : call'[d] = IF d \notin Waiting(c) THEN call[d] ELSE q(d)
      BY <1>6 DEF Refreshed
    <2> HIDE DEF q
    <2>6. \A d \in Call : call'[d].acc \in {call[d].acc, AccessOf(e.new)} /\ call'[d].new = call[d].new
      BY <2>3, <2>4, <2>5
    <2>7. \A d \in Call : exchange'[d].new \in {exchange[d].new, NoToken}
      BY <1>6 DEF Refreshed, Unused, Shape
    <2>8. \A d \in Call : call'[d].acc \in Held \cup {AccessOf(e.new), NoToken}
      BY <1>2, <2>6
    <2>9. Held' \subseteq Held \cup {AccessOf(e.new), NoToken}
      BY <1>1, <2>1, <2>2, <2>8, OneTab
    <2>10. Coming' \subseteq Coming \cup {NoToken}
      BY <2>6, <2>7, ComingKept
    <2>11. e.new \notin Coming' /\ e.new \in Coming
      BY <1>6, <2>1, HeardRace, RealToken DEF Race, Fresh, Unsent, Coming
    <2>12. \A r \in Coming : r # NoToken => r \in Jti
      BY DEF Coming, Shape, CallState, ExchangeState
    <2> QED
      BY <2>1, <2>9, <2>10, <2>11, <2>12, PairsTaken
  <1> QED
    BY <1>3, <1>4, <1>5, <1>6 DEF RefreshStep

LEMMA PairsStep == TypeOK /\ Shape /\ Race /\ Pairs /\ [Next]_vars => Pairs'
  <1> SUFFICES ASSUME TypeOK, Shape, Race, Pairs, [Next]_vars PROVE Pairs'
    OBVIOUS
  <1>1. CASE Expire
    <2>1. \A j : Signed(j) => Signed(j)'
      BY <1>1, TypeParts, SignedStays DEF Expire, L!With
    <2>2. Held' = Held /\ Coming' = Coming
      BY <1>1 DEF Expire, Held, Coming
    <2> QED
      BY <2>1, <2>2, PairsKept
  <1>2. CASE UNCHANGED vars
    BY <1>2 DEF vars, Pairs, Held, Coming, Signed
  <1> QED
    BY <1>1, <1>2, UserPairs, CallPairs, RefreshPairs DEF Next

\* A waiting call is sent again only when its refresh is answered, with the
\* access token of the pair in the answer.
LEMMA RetryToken ==
  ASSUME TypeOK, Shape, Next, NEW d \in Call, call[d].st = "waiting", call'[d].st = "sent"
  PROVE  \E c \in Call : exchange[c].new \in Jti /\ call'[d].acc = AccessOf(exchange[c].new)
  <1>1. ASSUME NEW t \in Tab, User(t) PROVE FALSE
    BY <1>1, IdleOk DEF User, Navigate, BackToLogin, Reload, Send, Shape
  <1>2. ASSUME NEW c \in Call, CallStep(c) PROVE FALSE
    <2>1. c # d /\ call[c].st # "waiting"
      BY <1>2 DEF CallStep, ServeLogin, ServeGet, ServeLogout, Lose, Await, Refused, LoginDone,
         LogoutDone
    <2>2. CASE Await(c)
      BY <2>1, <2>2 DEF Await, Shape
    <2>3. CASE ~Await(c)
      <3>1. Settle(c) \/ \E res, new : Answer(c, res, new)
        BY <1>2, <2>3 DEF CallStep, ServeLogin, ServeGet, ServeLogout, Lose, Refused, LoginDone,
           LogoutDone
      <3> QED
        BY <2>1, <3>1, AnswerNew, SettleNew
    <2> QED
      BY <2>2, <2>3
  <1>3. ASSUME NEW c \in Call, RefreshStep(c)
        PROVE  \E x \in Call : exchange[x].new \in Jti /\ call'[d].acc = AccessOf(exchange[x].new)
    <2> DEFINE e == exchange[c]
    <2>1. Refreshed(c)
      BY <1>3, IdleOk DEF RefreshStep, SpendCookie, SignHeir, LoseExchange, RefreshFailed, OrphanAnswered
    <2>2. e.tab \in Tab /\ e.new \in Jti /\ Show(e.tab, tab[e.tab].page, AccessOf(e.new))
      BY <2>1 DEF Refreshed, Shape, ExchangeOk, StoreToken
    <2>3. tab \in [Tab -> TabState] /\ tab[e.tab].page \in Page /\ AccessOf(e.new) \in Jti \cup {NoToken}
      BY <2>2, TypeParts, AccessType DEF TabState
    <2>4. tab'[e.tab].acc = AccessOf(e.new)
      BY <2>2, <2>3, ShowStep
    <2> DEFINE q == [call[d] EXCEPT !.st = "sent", !.acc = tab'[e.tab].acc, !.res = "none",
                                    !.cookie = IF call[d].kind = "logout" THEN jar' ELSE @]
    <2>5. q.acc = tab'[e.tab].acc
      BY DEF Shape, CallState
    <2>6. call'[d] = q
      BY <2>1 DEF Refreshed
    <2> QED
      BY <2>2, <2>4, <2>5, <2>6
  <1>4. ~Expire
    BY DEF Expire
  <1> QED
    BY <1>1, <1>2, <1>3, <1>4 DEF Next

\* api/index.ts:64-68: the single retry of a refused call goes out with a token,
\* and not with the refused one, for any number of tabs, calls and refreshes.
THEOREM RetriesAreFresh == Spec => RetryUsesNewToken
  <1> DEFINE IInv == TypeOK /\ Shape /\ Race /\ Pairs
  <1>1. Init => Race /\ Pairs
    BY DEF Init, Race, Known, Fresh, JarSpent, Spent, Idle, Unused, Pairs, Held, Coming
  <1>2. Init => IInv
    BY <1>1, InitShape
  <1>3. IInv /\ [Next]_vars => IInv'
    BY ShapeStep, TypeStep, RaceStep, PairsStep
  <1>4. ASSUME IInv, Next, NEW d \in Call, call[d].st = "waiting", call'[d].st = "sent"
        PROVE  call'[d].acc \notin {call[d].acc, NoToken}
    <2>1. PICK c \in Call : exchange[c].new \in Jti /\ call'[d].acc = AccessOf(exchange[c].new)
      BY <1>4, RetryToken
    <2>2. exchange[c].new \in Coming /\ call[d].acc \in Held /\ exchange[c].new # NoToken
      BY <2>1, RealToken DEF Coming, Held
    <2> QED
      BY <1>4, <2>1, <2>2, RealToken DEF Pairs, Signed
  <1>5. IInv /\ [Next]_vars => [\A c \in Call : call[c].st = "waiting" /\ call'[c].st = "sent"
                                   => call'[c].acc \notin {call[c].acc, NoToken}]_vars
    BY <1>4
  <1> QED
    BY <1>2, <1>3, <1>5, PTL DEF Spec, RetryUsesNewToken
-----------------------------------------------------------------------------
(* A logout ends the session of the browser *)

\* A session is a login and the refresh tokens that descend from it.  Its active
\* tokens are the live one, and the one whose exchange has yet to sign an heir.
Active(k) == st[k] = "live" \/ \E c \in Call : exchange[c].st = "spent" /\ exchange[c].cookie = k
ActiveOf(o) == {k \in Jti : origin[k] = o /\ Active(k)}

\* The session of token j has no active token.
Over(j) == origin[j] # NoToken /\ ActiveOf(origin[j]) = {}

Rooted(j) == j # NoToken => origin[j] # NoToken

\* Every refresh token in the browser, or on its way, belongs to a session.
Roots ==
  /\ \A j \in Jti : origin[j] # NoToken => Signed(j) /\ Signed(origin[j])
  /\ Rooted(jar)
  /\ \A c \in Call : /\ Rooted(call[c].cookie) /\ Rooted(call[c].new)
                     /\ Rooted(exchange[c].cookie) /\ Rooted(exchange[c].new)

\* A token is between the halves of one exchange at most.
OneExchange ==
  /\ \A c \in Call : exchange[c].st = "spent" => st[exchange[c].cookie] = "spent"
  /\ \A c, d \in Call : exchange[c].st = "spent" /\ exchange[d].st = "spent" /\ c # d
                        => exchange[c].cookie # exchange[d].cookie

\* A session has one active token at most, and none once one of its tokens has
\* died: a token dies while it is the active one.
OneActive ==
  /\ \A o \in Jti : \A j, k \in ActiveOf(o) : j = k
  /\ \A j \in Jti : st[j] = "dead" /\ origin[j] # NoToken => Over(j)

\* A logout that was acknowledged: its answer is on its way, or has arrived.
LoggedOut ==
  /\ \A j \in ended : Over(j)
  /\ \A c \in Call : call[c].st = "answered" /\ call[c].kind = "logout" /\ call[c].res = "ok"
                     /\ call[c].cookie # NoToken => Over(call[c].cookie)

Sessions == Roots /\ OneExchange /\ OneActive /\ LoggedOut

\* What a step does to the calls: it gives them no token that was not in the jar,
\* and acknowledges a logout only if its session is over.
CallsRooted ==
  \A c \in Call :
    /\ call'[c].cookie \in {call[c].cookie, jar, jar', NoToken}
    /\ call'[c].new \in {call[c].new, NoToken}
    /\ call'[c].st = "answered" /\ call'[c].kind = "logout" /\ call'[c].res = "ok"
       => \/ call'[c].cookie = NoToken
          \/ \E j \in Jti : call'[c].cookie = j /\ Over(j)'
          \/ /\ call[c].st = "answered" /\ call[c].kind = "logout" /\ call[c].res = "ok"
             /\ call'[c].cookie = call[c].cookie

\* A step that makes no token active: what may change is that tokens stop to be.
LEMMA SessionsKept ==
  ASSUME Sessions, TypeOK, UNCHANGED origin, CallsRooted, \A j : Signed(j) => Signed(j)',
         \A k \in Jti : Active(k)' => Active(k),
         \A k \in Jti : st'[k] = "dead" => st[k] = "dead" \/ (Active(k) /\ ~Active(k)'),
         \A c \in Call : /\ exchange'[c].cookie \in {exchange[c].cookie, jar, NoToken}
                         /\ exchange'[c].new \in {exchange[c].new, NoToken},
         Rooted(jar'), OneExchange',
         \A j \in ended' : j \in ended \/ Over(j)
  PROVE  Sessions'
  <1>1. Roots'
    BY DEF Sessions, Roots, Rooted, CallsRooted
  <1>2. \A o : ActiveOf(o)' \subseteq ActiveOf(o)
    BY DEF ActiveOf
  <1>3. \A j : Over(j) => Over(j)'
    BY <1>2 DEF Over
  <1>4. OneActive'
    <2>1. \A o \in Jti : \A j, k \in ActiveOf(o)' : j = k
      BY <1>2 DEF Sessions, OneActive
    <2>2. ASSUME NEW j \in Jti, st'[j] = "dead", origin[j] # NoToken PROVE Over(j)'
      <3>1. CASE st[j] = "dead"
        BY <1>3, <2>2, <3>1 DEF Sessions, OneActive
      <3>2. CASE Active(j) /\ ~Active(j)'
        <4>1. origin[j] \in Jti
          BY <2>2 DEF TypeOK
        <4>2. ActiveOf(origin[j]) \subseteq {j}
          BY <3>2, <4>1 DEF Sessions, OneActive, ActiveOf
        <4>3. ActiveOf(origin[j])' = {}
          BY <1>2, <3>2, <4>2 DEF ActiveOf
        <4> QED
          BY <2>2, <4>3 DEF Over
      <3> QED
        BY <2>2, <3>1, <3>2
    <2> QED
      BY <2>1, <2>2 DEF OneActive
  <1>5. LoggedOut'
    BY <1>3 DEF Sessions, LoggedOut, CallsRooted
  <1> QED
    BY <1>1, <1>4, <1>5 DEF Sessions

\* A step that leaves the server alone.
LEMMA SessionsFrame ==
  ASSUME Sessions, TypeOK, UNCHANGED <<st, origin>>, CallsRooted,
         \A c \in Call : /\ exchange'[c].cookie \in {exchange[c].cookie, jar, NoToken}
                         /\ exchange'[c].new \in {exchange[c].new, NoToken}
                         /\ exchange'[c].st = "spent" => exchange[c].st = "spent"
                                                         /\ exchange'[c].cookie = exchange[c].cookie,
         Rooted(jar'), \A j \in ended' : j \in ended \/ Over(j)
  PROVE  Sessions'
  <1>1. OneExchange'
    BY DEF Sessions, OneExchange
  <1>2. \A k \in Jti : Active(k)' => Active(k)
    BY DEF Active
  <1>3. \A j : Signed(j) => Signed(j)'
    BY DEF Signed
  <1> QED
    BY <1>1, <1>2, <1>3, SessionsKept

LEMMA UserSessions ==
  ASSUME TypeOK, Shape, Sessions, NEW t \in Tab, User(t)
  PROVE  Sessions'
  <1>1. UNCHANGED <<st, origin, jar, ended>> /\ Rooted(jar')
    BY DEF User, Navigate, BackToLogin, Reload, Send, history, Sessions, Roots, Rooted
  <1>2. CASE (\E p \in Page : Navigate(t, p)) \/ BackToLogin(t)
    <2>1. UNCHANGED <<call, exchange>>
      BY <1>2 DEF Navigate, BackToLogin
    <2> QED
      BY <1>1, <2>1, SessionsFrame DEF CallsRooted
  <1>3. CASE Reload(t)
    <2>1. \A c \in Call : call'[c] \in {call[c], Idle}
      BY <1>3 DEF Reload
    <2>2. CallsRooted
      BY <2>1, IdleTokens, IdleOk DEF CallsRooted
    <2>3. \A c \in Call : /\ exchange'[c].cookie = exchange[c].cookie /\ exchange'[c].new = exchange[c].new
                          /\ exchange'[c].st = exchange[c].st
      BY <1>3 DEF Reload, Shape, ExchangeState
    <2> QED
      BY <1>1, <2>2, <2>3, SessionsFrame
  <1>4. CASE \E c \in Call, kind \in Uses[t] : Send(t, c, kind)
    <2>1. PICK c \in Call, kind \in Uses[t] : Send(t, c, kind)
      BY <1>4
    <2> DEFINE q == [Idle EXCEPT !.st = "sent", !.tab = t, !.kind = kind,
                                 !.acc = IF kind = "login" THEN NoToken ELSE tab[t].acc,
                                 !.cookie = IF kind = "logout" THEN jar ELSE NoToken]
    <2>2. call' = [call EXCEPT ![c] = q] /\ exchange' = exchange
      BY <2>1 DEF Send
    <2>3. q.st = "sent" /\ q.cookie \in {jar, NoToken} /\ q.new = NoToken
      BY DEF Idle
    <2> HIDE DEF q
    <2>4. \A d \in Call : call'[d] = IF d = c THEN q ELSE call[d]
      BY <2>2 DEF Shape
    <2>5. CallsRooted
      BY <2>3, <2>4 DEF CallsRooted
    <2> QED
      BY <1>1, <2>2, <2>5, SessionsFrame
  <1> QED
    BY <1>2, <1>3, <1>4 DEF User

LEMMA AnswerRooted ==
  ASSUME Shape, NEW c \in Call, call[c].st = "sent", NEW res, NEW new, Answer(c, res, new),
         new = NoToken,
         call[c].kind = "logout" /\ res = "ok"
           => call[c].cookie = NoToken \/ \E j \in Jti : call[c].cookie = j /\ Over(j)'
  PROVE  CallsRooted
  <1> DEFINE q == [call[c] EXCEPT !.st = "answered", !.res = res, !.new = new]
  <1>1. call' = [call EXCEPT ![c] = q]
    BY DEF Answer, Shape
  <1>2. q.cookie = call[c].cookie /\ q.new = NoToken /\ q.kind = call[c].kind /\ q.res = res
    BY DEF Shape, CallState
  <1> HIDE DEF q
  <1>3. \A d \in Call : call'[d] = IF d = c THEN q ELSE call[d]
    BY <1>1 DEF Shape
  <1> QED
    BY <1>2, <1>3 DEF CallsRooted

LEMMA SettleRooted == ASSUME Shape, NEW c \in Call, Settle(c) PROVE CallsRooted
  <1>1. \A d \in Call : call'[d] \in {call[d], Idle}
    BY DEF Settle, Shape
  <1> QED
    BY <1>1, IdleTokens, IdleOk DEF CallsRooted

\* A pair is signed, for a session that has no other active token then.
LEMMA SessionsSigned ==
  ASSUME Sessions, TypeOK, Shape, NEW r \in NextPair, L!Sign(AccessOf(r), r, {}), NEW o \in Jti,
         origin' = [origin EXCEPT ![r] = o], Signed(o)', UNCHANGED <<jar, ended>>,
         \A k \in Jti : k # r /\ origin[k] = o => ~Active(k)',
         \A j \in Jti : Over(j) => origin[j] # o,
         \A c \in Call : /\ exchange'[c].cookie = exchange[c].cookie
                         /\ exchange'[c].new \in {exchange[c].new, r}
                         /\ exchange'[c].st = "spent" => exchange[c].st = "spent"
                         /\ call'[c].cookie \in {call[c].cookie, NoToken}
                         /\ call'[c].new \in {call[c].new, r, NoToken}
                         /\ call'[c].kind = "logout" => call'[c] = call[c]
  PROVE  Sessions'
  <1>1. /\ LedgerType /\ AccessOf(r) \in Jti /\ r \in Jti /\ origin \in [Jti -> Jti \cup {NoToken}]
        /\ \A c \in Call : exchange[c].cookie \in Jti \cup {NoToken}
        /\ \A c \in Call : call[c].cookie \in Jti \cup {NoToken}
    BY PairType, TypeParts DEF HistoryType, CallState, ExchangeState
  <1>2. /\ ~Signed(r) /\ ~Signed(AccessOf(r)) /\ origin[r] = NoToken /\ origin[AccessOf(r)] = NoToken
        /\ \A k \in Jti : st'[k] = IF k \in {AccessOf(r), r} THEN "live" ELSE st[k]
    BY <1>1 DEF L!Sign, L!With, LedgerType, Signed, Sessions, Roots
  <1>3. \A j : Signed(j) => Signed(j)'
    BY <1>2 DEF Signed
  <1>4. \A k \in Jti : origin'[k] = IF k = r THEN o ELSE origin[k]
    BY <1>1
  <1>5. o # NoToken /\ r # NoToken
    BY <1>1, RealToken
  <1>6. Roots'
    <2>1. ASSUME NEW j, Rooted(j), j = NoToken \/ j \in Jti PROVE Rooted(j)'
      BY <1>4, <1>5, <2>1 DEF Rooted
    <2>2. Rooted(r)'
      BY <1>1, <1>4, <1>5 DEF Rooted
    <2>3. \A j \in Jti : origin'[j] # NoToken => Signed(j)' /\ Signed(origin[j])'
      <3>1. Signed(r)'
        BY <1>1, <1>2 DEF Signed
      <3> QED
        BY <1>3, <1>4, <3>1 DEF Sessions, Roots
    <2>4. /\ jar = NoToken \/ jar \in Jti
          /\ \A c \in Call : /\ call[c].new = NoToken \/ call[c].new \in Jti
                             /\ exchange[c].new = NoToken \/ exchange[c].new \in Jti
      BY TypeParts DEF CallState, ExchangeState
    <2>5. Rooted(NoToken)'
      BY DEF Rooted
    <2>6. ASSUME NEW c \in Call
          PROVE  /\ Rooted(call[c].cookie)' /\ Rooted(call[c].new)'
                 /\ Rooted(exchange[c].cookie)' /\ Rooted(exchange[c].new)'
      <3>1. /\ Rooted(call[c].cookie) /\ Rooted(call[c].new)
            /\ Rooted(exchange[c].cookie) /\ Rooted(exchange[c].new)
        BY DEF Sessions, Roots
      <3>2. /\ exchange'[c].cookie = exchange[c].cookie
            /\ exchange'[c].new \in {exchange[c].new, r}
            /\ call'[c].cookie \in {call[c].cookie, NoToken}
            /\ call'[c].new \in {call[c].new, r, NoToken}
        OBVIOUS
      <3> QED
        BY <1>1, <1>4, <1>5, <2>4, <3>1, <3>2 DEF Rooted
    <2> QED
      BY <2>1, <2>3, <2>4, <2>6 DEF Sessions, Roots
  <1>7. OneExchange'
    <2>1. ASSUME NEW c \in Call, exchange'[c].st = "spent" PROVE st'[exchange'[c].cookie] = "spent"
      <3>1. exchange[c].st = "spent" /\ st[exchange[c].cookie] = "spent"
            /\ exchange'[c].cookie = exchange[c].cookie
        BY <2>1 DEF Sessions, OneExchange
      <3>2. exchange[c].cookie \in Jti
        BY <3>1 DEF Shape, ExchangeOk
      <3> QED
        BY <1>2, <3>1, <3>2 DEF Signed
    <2> QED
      BY <2>1 DEF Sessions, OneExchange
  <1>8. \A k \in Jti : k # r /\ origin[k] # NoToken /\ Active(k)' => Active(k)
    BY <1>2 DEF Active
  <1>9. \A j \in Jti : Over(j) => Over(j)'
    <2> SUFFICES ASSUME NEW j \in Jti, Over(j) PROVE Over(j)'
      OBVIOUS
    <2>1. j # r /\ origin'[j] = origin[j] /\ origin[j] # NoToken /\ origin[j] # o
      BY <1>2, <1>4 DEF Over
    <2>2. \A k \in Jti : origin'[k] = origin[j] => k # r /\ origin[k] = origin[j]
      BY <1>4, <2>1
    <2>3. ActiveOf(origin[j])' = {}
      BY <1>8, <2>1, <2>2 DEF Over, ActiveOf
    <2> QED
      BY <2>1, <2>3 DEF Over
  <1>10. OneActive'
    <2>1. ASSUME NEW x \in Jti, NEW j \in ActiveOf(x)', NEW k \in ActiveOf(x)' PROVE j = k
      <3>1. CASE x = o
        BY <1>4, <2>1, <3>1 DEF ActiveOf
      <3>2. CASE x # o
        <4>1. j # r /\ k # r /\ origin[j] = x /\ origin[k] = x
          BY <1>4, <3>2 DEF ActiveOf
        <4>2. x # NoToken
          BY RealToken
        <4> QED
          BY <1>8, <4>1, <4>2 DEF ActiveOf, Sessions, OneActive
      <3> QED
        BY <3>1, <3>2
    <2>2. \A j \in Jti : st'[j] = "dead" /\ origin'[j] # NoToken => Over(j)'
      BY <1>2, <1>4, <1>9 DEF Sessions, OneActive
    <2> QED
      BY <2>1, <2>2 DEF OneActive
  <1>11. LoggedOut'
    <2>1. ended \subseteq Jti
      BY DEF TypeOK
    <2> QED
      BY <1>1, <1>9, <2>1 DEF Sessions, LoggedOut
  <1> QED
    BY <1>6, <1>7, <1>10, <1>11 DEF Sessions

LEMMA CallSessions ==
  ASSUME TypeOK, Shape, Sessions, NEW c \in Call, CallStep(c)
  PROVE  Sessions'
  <1>1. LedgerType /\ call[c] \in CallState /\ Rooted(NoToken)
    BY TypeParts DEF Rooted
  <1>2. CASE ServeLogin(c)
    <2>1. UNCHANGED <<jar, exchange, ended>> /\ call[c].kind = "login" /\ call[c].st = "sent"
      BY <1>2 DEF ServeLogin
    <2>2. CASE UNCHANGED <<st, origin>> /\ Settle(c)
      BY <2>1, <2>2, SettleRooted, SessionsFrame DEF Sessions, Roots, Rooted
    <2>3. CASE ~(UNCHANGED <<st, origin>> /\ Settle(c))
      <3>1. PICK r \in NextPair : /\ L!SignIn(AccessOf(r), r, {})
                                  /\ origin' = [origin EXCEPT ![r] = r]
                                  /\ Answer(c, "ok", r) \/ Settle(c)
        BY <1>2, <2>3 DEF ServeLogin
      <3>2. r \in Jti /\ ~Signed(r) /\ Signed(r)' /\ L!Sign(AccessOf(r), r, {})
        BY <1>1, <3>1, SignedNow DEF L!SignIn
      <3>3. \A k \in Jti : origin[k] # r
        BY <3>2, RealToken DEF Sessions, Roots
      <3>4. \A d \in Call : /\ call'[d].cookie \in {call[d].cookie, NoToken}
                            /\ call'[d].new \in {call[d].new, r, NoToken}
                            /\ call'[d].kind = "logout" => call'[d] = call[d]
        BY <2>1, <3>1, IdleTokens DEF Answer, Settle, Shape, CallState, Idle
      <3> QED
        BY <2>1, <3>1, <3>2, <3>3, <3>4, SessionsSigned DEF Over
    <2> QED
      BY <2>2, <2>3
  <1>3. CASE ServeGet(c) \/ Lose(c)
    <2>1. UNCHANGED <<st, origin, jar, exchange, ended>>
      BY <1>3 DEF ServeGet, Lose, history
    <2>2. CallsRooted
      <3>1. Settle(c) \/ (call[c].st = "sent" /\ \E res \in {"unauthorized", "error"} : Answer(c, res, NoToken))
        BY <1>3 DEF ServeGet, Lose
      <3> QED
        BY <3>1, SettleRooted, AnswerRooted
    <2> QED
      BY <2>1, <2>2, SessionsFrame DEF Sessions, Roots
  <1>4. CASE ServeLogout(c) /\ ~Live(call[c].acc)
    <2>1. /\ UNCHANGED <<st, origin, jar, exchange, ended>>
          /\ call[c].st = "sent" /\ Answer(c, "unauthorized", NoToken)
      BY <1>4 DEF ServeLogout, history
    <2> QED
      BY <2>1, AnswerRooted, SessionsFrame DEF Sessions, Roots
  <1>5. CASE ServeLogout(c) /\ Live(call[c].acc)
    <2>9. PICK j : j = call[c].cookie
      OBVIOUS
    <2> DEFINE S == {i \in {call[c].acc, j} : Live(i)}
    <2>1. /\ UNCHANGED <<origin, jar, exchange, ended>> /\ call[c].st = "sent" /\ L!Spend(S)
          /\ \E res \in {"ok", "error"} : Answer(c, res, NoToken) /\ (res = "ok" => j \notin L!With("spent"))
      BY <1>5, <2>9 DEF ServeLogout, SentCookie, history
    <2>2. /\ \A k \in Jti : st'[k] = IF k \in S THEN "spent" ELSE st[k]
          /\ \A k \in Jti : k \in S => st[k] = "live"
      BY <2>1 DEF L!Spend, L!With
    <2>3. \A i : Signed(i) => Signed(i)'
      BY <2>2 DEF Signed
    <2>4. \A k \in Jti : Active(k)' => Active(k)
      BY <2>1, <2>2 DEF Active
    <2>5. OneExchange'
      <3>1. \A d \in Call : exchange[d].st = "spent" => exchange[d].cookie \in Jti
        BY DEF Shape, ExchangeOk
      <3> QED
        BY <2>1, <2>2, <3>1 DEF Sessions, OneExchange
    <2>6. ASSUME j # NoToken, j \notin L!With("spent") PROVE Over(j)'
      <3>1. j \in Jti /\ Rooted(j)
        BY <1>1, <2>6, <2>9 DEF CallState, Sessions, Roots
      <3>2. origin[j] \in Jti /\ Signed(j)
        BY <2>6, <3>1 DEF Rooted, TypeOK, Sessions, Roots
      <3>3. st[j] \in {"live", "dead"}
        BY <1>1, <2>6, <3>1, <3>2 DEF Signed, LedgerType, L!Status, L!With
      <3>4. ActiveOf(origin[j])' \subseteq ActiveOf(origin[j])
        BY <2>1, <2>4 DEF ActiveOf
      <3>5. CASE st[j] = "dead"
        BY <2>1, <3>1, <3>2, <3>4, <3>5, RealToken DEF Sessions, OneActive, Over
      <3>6. CASE st[j] = "live"
        <4>1. ActiveOf(origin[j]) \subseteq {j}
          BY <3>1, <3>2, <3>6 DEF Sessions, OneActive, ActiveOf, Active
        <4>2. st'[j] = "spent" /\ \A d \in Call : exchange[d].st = "spent" => exchange[d].cookie # j
          BY <2>2, <3>1, <3>6 DEF Live, Sessions, OneExchange
        <4>3. ~Active(j)'
          BY <2>1, <4>2 DEF Active
        <4>4. ActiveOf(origin[j])' = {}
          BY <3>4, <4>1, <4>3 DEF ActiveOf
        <4> QED
          BY <2>1, <3>2, <4>4, RealToken DEF Over
      <3> QED
        BY <3>3, <3>5, <3>6
    <2>7. CallsRooted
      <3>1. PICK res \in {"ok", "error"} : Answer(c, res, NoToken) /\ (res = "ok" => j \notin L!With("spent"))
        BY <2>1
      <3>2. j = NoToken \/ j \in Jti
        BY <1>1, <2>9 DEF CallState
      <3>3. res = "ok" => j = NoToken \/ \E k \in Jti : j = k /\ Over(k)'
        BY <2>6, <3>1, <3>2
      <3> QED
        BY <2>1, <2>9, <3>1, <3>3, AnswerRooted
    <2> HIDE DEF S
    <2>8. \A k \in Jti : st'[k] = "dead" => st[k] = "dead"
      BY <2>2
    <2> QED
      BY <2>1, <2>3, <2>4, <2>5, <2>7, <2>8, SessionsKept DEF Sessions, Roots
  <1>6. CASE Await(c)
    <2>1. PICK s \in IF Pending(call[c].tab) = {} THEN {c} ELSE Pending(call[c].tab) :
            /\ call' = [call EXCEPT ![c].st = "waiting", ![c].retry = TRUE, ![c].via = s]
            /\ exchange' = IF exchange[s].st # "idle" THEN exchange
                           ELSE [exchange EXCEPT ![s] = [Unused EXCEPT !.st = "sent", !.tab = call[c].tab,
                                                                       !.cookie = jar]]
      BY <1>6 DEF Await
    <2> DEFINE q == [call[c] EXCEPT !.st = "waiting", !.retry = TRUE, !.via = s]
               e == [Unused EXCEPT !.st = "sent", !.tab = call[c].tab, !.cookie = jar]
    <2>2. /\ q.st = "waiting" /\ q.cookie = call[c].cookie /\ q.new = call[c].new
          /\ e.st = "sent" /\ e.cookie = jar /\ e.new = NoToken
      BY <1>1 DEF CallState, Unused
    <2>3. call' = [call EXCEPT ![c] = q]
      BY <2>1 DEF Shape
    <2>4. exchange' = IF exchange[s].st # "idle" THEN exchange ELSE [exchange EXCEPT ![s] = e]
      BY <2>1
    <2> HIDE DEF q, e
    <2>5. \A d \in Call : call'[d] = IF d = c THEN q ELSE call[d]
      BY <2>3 DEF Shape
    <2>6. CallsRooted
      BY <2>2, <2>5 DEF CallsRooted
    <2>7. \A d \in Call : exchange'[d] \in {exchange[d], e}
      BY <2>4 DEF Shape
    <2>8. UNCHANGED <<st, origin, jar, ended>>
      BY <1>6 DEF Await, history
    <2> QED
      BY <2>2, <2>6, <2>7, <2>8, SessionsFrame DEF Sessions, Roots
  <1>7. CASE Refused(c) \/ LoginDone(c) \/ LogoutDone(c)
    <2>1. Settle(c) /\ UNCHANGED <<st, origin, exchange>>
      BY <1>7 DEF Refused, LoginDone, LogoutDone, history
    <2>2. Rooted(jar')
      BY <1>1, <1>7 DEF Refused, LoginDone, LogoutDone, Sessions, Roots, Rooted
    <2>3. \A j \in ended' : j \in ended \/ Over(j)
      BY <1>7 DEF Refused, LoginDone, LogoutDone, history, Sessions, LoggedOut
    <2> QED
      BY <2>1, <2>2, <2>3, SettleRooted, SessionsFrame
  <1> QED
    BY <1>2, <1>3, <1>4, <1>5, <1>6, <1>7 DEF CallStep

LEMMA RefreshSessions ==
  ASSUME TypeOK, Shape, Sessions, NEW c \in Call, RefreshStep(c)
  PROVE  Sessions'
  <1> DEFINE e == exchange[c]
  <1>1. /\ LedgerType /\ e \in ExchangeState /\ ExchangeOk(e) /\ Rooted(NoToken)
        /\ Rooted(e.new) /\ Rooted(jar)
    BY TypeParts DEF Shape, Sessions, Roots, Rooted
  <1>2. CASE SpendCookie(c) /\ Live(e.cookie)
    <2> DEFINE f == [e EXCEPT !.st = "spent"]
    <2>1. /\ UNCHANGED <<jar, call, origin, ended>> /\ L!Spend({e.cookie}) /\ e.cookie \in Jti
          /\ e.st = "sent" /\ st[e.cookie] = "live" /\ exchange' = [exchange EXCEPT ![c] = f]
      BY <1>2 DEF SpendCookie, Live, Shape
    <2>2. f.st = "spent" /\ f.cookie = e.cookie /\ f.new = e.new
      BY <1>1 DEF ExchangeState
    <2> HIDE DEF f
    <2>3. \A d \in Call : exchange'[d] = IF d = c THEN f ELSE exchange[d]
      BY <2>1 DEF Shape
    <2>4. \A k \in Jti : st'[k] = IF k = e.cookie THEN "spent" ELSE st[k]
      BY <2>1 DEF L!Spend
    <2>5. \A i : Signed(i) => Signed(i)'
      BY <2>4 DEF Signed
    <2>6. \A k \in Jti : Active(k)' => Active(k)
      BY <2>1, <2>2, <2>3, <2>4 DEF Active
    <2>7. \A d \in Call : exchange[d].st = "spent" => exchange[d].cookie \in Jti
                                                     /\ exchange[d].cookie # e.cookie
      BY <2>1 DEF Shape, ExchangeOk, Sessions, OneExchange
    <2>8. OneExchange'
      BY <2>1, <2>2, <2>3, <2>4, <2>7 DEF Sessions, OneExchange
    <2>9. CallsRooted
      BY <2>1 DEF CallsRooted
    <2> QED
      BY <1>1, <2>1, <2>2, <2>3, <2>4, <2>5, <2>6, <2>8, <2>9, SessionsKept
  <1>3. CASE SpendCookie(c) /\ ~Live(e.cookie)
    <2> DEFINE f == [e EXCEPT !.st = "answered", !.res = "refused"]
    <2>1. /\ UNCHANGED <<st, jar, call, origin, ended>> /\ exchange' = [exchange EXCEPT ![c] = f]
      BY <1>3 DEF SpendCookie, Shape
    <2>2. f.st = "answered" /\ f.cookie = e.cookie /\ f.new = e.new
      BY <1>1 DEF ExchangeState
    <2> HIDE DEF f
    <2>3. \A d \in Call : exchange'[d] = IF d = c THEN f ELSE exchange[d]
      BY <2>1 DEF Shape
    <2>4. CallsRooted
      BY <2>1 DEF CallsRooted
    <2> QED
      BY <1>1, <2>1, <2>2, <2>3, <2>4, SessionsFrame
  <1>4. CASE SignHeir(c)
    <2>1. /\ UNCHANGED <<jar, call, ended>> /\ e.st = "spent" /\ e.cookie \in Jti
          /\ st[e.cookie] = "spent" /\ Rooted(e.cookie)
      BY <1>1, <1>4 DEF SignHeir, ExchangeOk, Sessions, OneExchange, Roots
    <2>16. PICK o : o = origin[e.cookie]
      OBVIOUS
    <2>2. o \in Jti /\ Signed(o)
      BY <2>1, <2>16, RealToken DEF Rooted, TypeOK, Sessions, Roots
    <2>3. PICK r \in NextPair :
            /\ L!Exchange(e.cookie, AccessOf(r), r, {})
            /\ origin' = [origin EXCEPT ![r] = o]
            /\ exchange' = [exchange EXCEPT ![c].st = "answered", ![c].res = "ok", ![c].new = r]
      BY <1>4, <2>16 DEF SignHeir
    <2> DEFINE f == [e EXCEPT !.st = "answered", !.res = "ok", !.new = r]
    <2>4. exchange' = [exchange EXCEPT ![c] = f]
      BY <2>3 DEF Shape
    <2>5. f.st = "answered" /\ f.cookie = e.cookie /\ f.new = r
      BY <1>1 DEF ExchangeState
    <2> HIDE DEF f
    <2>6. \A d \in Call : exchange'[d] = IF d = c THEN f ELSE exchange[d]
      BY <2>4 DEF Shape
    <2>7. L!Sign(AccessOf(r), r, {}) /\ r \in Jti /\ AccessOf(r) \in Jti
      BY <2>3, PairType DEF L!Exchange
    <2>8. \A k \in Jti : st'[k] = IF k \in {AccessOf(r), r} THEN "live" ELSE st[k]
      BY <2>7 DEF L!Sign
    <2>9. \A i : Signed(i) => Signed(i)'
      BY <2>8 DEF Signed
    <2>10. origin[AccessOf(r)] = NoToken /\ st[AccessOf(r)] = "unsigned" /\ st[r] = "unsigned"
      BY <2>7 DEF L!Sign, L!With, Sessions, Roots, Signed
    <2>11. ActiveOf(o) \subseteq {e.cookie} /\ e.cookie \in ActiveOf(o)
      BY <2>1, <2>2, <2>16 DEF Sessions, OneActive, ActiveOf, Active
    <2>12. ASSUME NEW k \in Jti, k # r, origin[k] = o PROVE ~Active(k)'
      <3>1. \A d \in Call : d # c /\ exchange[d].st = "spent" => exchange[d].cookie # e.cookie
        BY <2>1 DEF Sessions, OneExchange
      <3>2. k # AccessOf(r) /\ st'[k] = st[k]
        BY <2>2, <2>8, <2>10, <2>12, RealToken
      <3>3. CASE k = e.cookie
        BY <2>1, <2>5, <2>6, <3>1, <3>2, <3>3 DEF Active
      <3>4. CASE k # e.cookie
        <4>1. ~Active(k)
          BY <2>11, <2>12, <3>4 DEF ActiveOf
        <4> QED
          BY <2>5, <2>6, <3>2, <4>1 DEF Active
      <3> QED
        BY <3>3, <3>4
    <2>13. \A j \in Jti : Over(j) => origin[j] # o
      BY <2>11 DEF Over
    <2>14. \A d \in Call : /\ exchange'[d].cookie = exchange[d].cookie
                           /\ exchange'[d].new \in {exchange[d].new, r}
                           /\ exchange'[d].st = "spent" => exchange[d].st = "spent"
      BY <2>5, <2>6
    <2>15. Signed(o)'
      BY <2>2, <2>9
    <2> QED
      BY <2>1, <2>2, <2>3, <2>7, <2>12, <2>13, <2>14, <2>15, SessionsSigned
  <1>5. CASE LoseExchange(c)
    <2> DEFINE f == [e EXCEPT !.st = "answered", !.res = "lost", !.new = NoToken]
    <2>1. /\ UNCHANGED <<st, jar, call, origin, ended>> /\ exchange' = [exchange EXCEPT ![c] = f]
      BY <1>5 DEF LoseExchange, Shape
    <2>2. f.st = "answered" /\ f.cookie = e.cookie /\ f.new = NoToken
      BY <1>1 DEF ExchangeState
    <2> HIDE DEF f
    <2>3. \A d \in Call : exchange'[d] = IF d = c THEN f ELSE exchange[d]
      BY <2>1 DEF Shape
    <2>4. CallsRooted
      BY <2>1 DEF CallsRooted
    <2> QED
      BY <1>1, <2>1, <2>2, <2>3, <2>4, SessionsFrame
  <1>6. CASE Refreshed(c) \/ RefreshFailed(c) \/ OrphanAnswered(c)
    <2>1. UNCHANGED <<st, origin, ended>> /\ exchange' = [exchange EXCEPT ![c] = Unused]
      BY <1>6 DEF Refreshed, RefreshFailed, OrphanAnswered, history
    <2>2. \A d \in Call : exchange'[d] \in {exchange[d], Unused}
      BY <2>1 DEF Shape
    <2>3. Unused.cookie = NoToken /\ Unused.new = NoToken /\ Unused.st = "idle"
      BY DEF Unused
    <2>4. Rooted(jar')
      BY <1>1, <1>6, <2>1 DEF Refreshed, RefreshFailed, OrphanAnswered, Rooted
    <2>5. CallsRooted
      <3>1. CASE Refreshed(c)
        <4> DEFINE q(d) == [call[d] EXCEPT !.st = "sent", !.acc = tab'[e.tab].acc, !.res = "none",
                                           !.cookie = IF call[d].kind = "logout" THEN jar' ELSE @]
        <4>1. \A d \in Call : /\ q(d).st = "sent" /\ q(d).cookie \in {call[d].cookie, jar'}
                              /\ q(d).new = call[d].new
          BY DEF Shape, CallState
        <4>2. \A d \in Call : call'[d] = IF d \notin Waiting(c) THEN call[d] ELSE q(d)
          BY <3>1 DEF Refreshed
        <4> HIDE DEF q
        <4> QED
          BY <4>1, <4>2 DEF CallsRooted
      <3>2. CASE ~Refreshed(c)
        <4>1. \A d \in Call : call'[d] \in {call[d], Idle}
          BY <1>6, <3>2 DEF RefreshFailed, OrphanAnswered
        <4> QED
          BY <4>1, IdleTokens, IdleOk DEF CallsRooted
      <3> QED
        BY <3>1, <3>2
    <2> QED
      BY <2>1, <2>2, <2>3, <2>4, <2>5, SessionsFrame
  <1> QED
    BY <1>2, <1>3, <1>4, <1>5, <1>6 DEF RefreshStep

LEMMA ExpireSessions ==
  ASSUME TypeOK, Shape, Sessions, Expire
  PROVE  Sessions'
  <1>1. UNCHANGED <<jar, call, exchange, origin, ended>>
    BY DEF Expire, history
  <1>2. PICK j \in L!With("live") : L!Die({j})
    BY DEF Expire
  <1>3. /\ j \in Jti /\ st[j] = "live"
        /\ \A k \in Jti : st'[k] = IF k = j THEN "dead" ELSE st[k]
    BY <1>2 DEF L!Die, L!With
  <1>4. \A d \in Call : exchange[d].st = "spent" => exchange[d].cookie \in Jti /\ exchange[d].cookie # j
    BY <1>3 DEF Shape, ExchangeOk, Sessions, OneExchange
  <1>5. OneExchange'
    BY <1>1, <1>3, <1>4 DEF Sessions, OneExchange
  <1>6. Active(j) /\ ~Active(j)' /\ \A k \in Jti : Active(k)' => Active(k)
    BY <1>1, <1>3, <1>4 DEF Active
  <1>7. \A i : Signed(i) => Signed(i)'
    BY <1>3 DEF Signed
  <1>8. CallsRooted
    BY <1>1 DEF CallsRooted
  <1> QED
    BY <1>1, <1>3, <1>5, <1>6, <1>7, <1>8, SessionsKept DEF Sessions, Roots

\* api/auth.ts:35-39: no refresh token of a session is live once a logout that
\* was sent with one of them is acknowledged, for any number of tabs, refreshes
\* and sessions.
THEOREM LogoutEndsIt == Spec => []LogoutEndsBrowserSession
  <1> DEFINE IInv == TypeOK /\ Shape /\ Sessions
  <1>1. Init => Sessions
    BY DEF Init, L!Init, Sessions, Roots, Rooted, OneExchange, OneActive, LoggedOut, ActiveOf,
       Active, Idle, Unused
  <1>2. Init => IInv
    BY <1>1, InitShape
  <1>3. Sessions /\ UNCHANGED vars => Sessions'
    BY DEF vars, Sessions, Roots, Rooted, Signed, OneExchange, OneActive, LoggedOut, Over,
       ActiveOf, Active
  <1>4. IInv /\ [Next]_vars => Sessions'
    BY <1>3, UserSessions, CallSessions, RefreshSessions, ExpireSessions DEF Next
  <1>5. IInv /\ [Next]_vars => IInv'
    BY <1>4, ShapeStep, TypeStep
  <1>6. IInv => LogoutEndsBrowserSession
    BY DEF Sessions, LoggedOut, Over, ActiveOf, Active, LogoutEndsBrowserSession
  <1> QED
    BY <1>2, <1>5, <1>6, PTL DEF Spec
-----------------------------------------------------------------------------
(* What the ledger itself guarantees, by induction over its own steps *)

\* A pair of unsigned tokens is signed, and nothing else changes its status.
LEMMA SignStep ==
  ASSUME LedgerType, NEW a \in L!With("unsigned"), NEW r \in L!With("unsigned"),
         NEW dead \in SUBSET {a, r}, L!Sign(a, r, dead)
  PROVE  /\ st' \in [Jti -> L!Status]
         /\ \A j \in Jti : st[j] # "unsigned" => st'[j] = st[j]
         /\ \A j \in Jti : st[j] = "unsigned" => st'[j] \in {"unsigned", "live", "dead"}
  BY DEF L!Sign, L!With, L!Status, LedgerType

\* TokenLedger: a token that has not died has at most one heir, and none while
\* it is live, for any set of tokens.
THEOREM OneHeirEach == L!Spec => []L!OneHeir
  <1> DEFINE Legal == LedgerType /\ L!OneHeir
  <1>1. L!Init => Legal
    BY DEF L!Init, LedgerType, L!OneHeir, L!Status
  <1>2. ASSUME Legal, [L!Next]_(L!ledger) PROVE Legal'
    <2>1. ASSUME NEW a \in L!With("unsigned"), NEW r \in L!With("unsigned"),
                 NEW dead \in SUBSET {a, r}, L!SignIn(a, r, dead)
          PROVE  Legal'
      BY <1>2, <2>1, SignStep DEF L!SignIn, LedgerType, L!OneHeir, L!Status
    <2>2. ASSUME NEW S \in SUBSET L!With("live"), L!Spend(S)
          PROVE  Legal'
      BY <1>2, <2>2 DEF L!Spend, L!With, LedgerType, L!OneHeir, L!Status
    <2>3. ASSUME NEW j \in L!With("spent") \cup L!With("dead"),
                 NEW a \in L!With("unsigned"), NEW r \in L!With("unsigned"),
                 NEW dead \in SUBSET {a, r}, L!Exchange(j, a, r, dead)
          PROVE  Legal'
      <3>1. /\ st' \in [Jti -> L!Status]
            /\ \A k \in Jti : st[k] # "unsigned" => st'[k] = st[k]
            /\ \A k \in Jti : st[k] = "unsigned" => st'[k] \in {"unsigned", "live", "dead"}
        BY <1>2, <2>3, SignStep DEF L!Exchange
      <3>2. j \in Jti /\ r \in Jti /\ st[j] \in {"spent", "dead"}
        BY DEF L!With
      <3>3. LedgerType'
        BY <1>2, <2>3, <3>1, <3>2 DEF L!Exchange, LedgerType
      <3>4. ASSUME NEW k \in Jti, k # j
            PROVE  heir'[k] = heir[k]
        BY <1>2, <2>3, <3>4 DEF L!Exchange, LedgerType
      <3>5. st'[j] = st[j] /\ heir'[j] = heir[j] \cup {r}
        BY <1>2, <2>3, <3>1, <3>2 DEF L!Exchange, LedgerType
      <3>6. st[j] = "spent" => heir[j] = {}
        BY <2>3 DEF L!Exchange
      <3> QED
        BY <1>2, <3>1, <3>2, <3>3, <3>4, <3>5, <3>6 DEF L!OneHeir, LedgerType, L!Status
    <2>4. ASSUME NEW S \in SUBSET (L!With("live") \cup L!With("spent")), L!Die(S)
          PROVE  Legal'
      BY <1>2, <2>4 DEF L!Die, L!With, LedgerType, L!OneHeir, L!Status
    <2>5. CASE UNCHANGED L!ledger
      BY <1>2, <2>5 DEF L!ledger, LedgerType, L!OneHeir
    <2> QED
      BY <1>2, <2>1, <2>2, <2>3, <2>4, <2>5 DEF L!Next
  <1> QED
    BY <1>1, <1>2, PTL DEF L!Spec
-----------------------------------------------------------------------------
(* The client is used with a server that keeps the ledger *)

LEMMA LedgerMoves ==
  ASSUME LedgerType, Shape, Next
  PROVE  \/ UNCHANGED <<st, heir>>
         \/ \E S \in SUBSET Jti : L!Spend(S) \/ L!Die(S)
         \/ \E a, r \in Jti : L!SignIn(a, r, {})
         \/ \E j, a, r \in Jti : L!Exchange(j, a, r, {})
  <1> DEFINE Kept == UNCHANGED <<st, heir>>
             Moved == \/ Kept
                      \/ \E S \in SUBSET Jti : L!Spend(S) \/ L!Die(S)
                      \/ \E a, r \in Jti : L!SignIn(a, r, {})
                      \/ \E j, a, r \in Jti : L!Exchange(j, a, r, {})
  <1>1. ASSUME NEW t \in Tab, User(t) PROVE Kept
    BY <1>1 DEF User, Navigate, BackToLogin, Reload, Send
  <1>2. ASSUME NEW c \in Call, ServeGet(c) \/ Lose(c) \/ Await(c) \/ Refused(c) \/ LoginDone(c) \/ LogoutDone(c)
        PROVE  Kept
    BY <1>2 DEF ServeGet, Lose, Await, Refused, LoginDone, LogoutDone
  <1>3. ASSUME NEW c \in Call, LoseExchange(c) \/ Refreshed(c) \/ RefreshFailed(c) \/ OrphanAnswered(c)
        PROVE  Kept
    BY <1>3 DEF LoseExchange, Refreshed, RefreshFailed, OrphanAnswered
  <1>4. ASSUME NEW c \in Call, ServeLogin(c) PROVE Moved
    BY <1>4, PairType DEF ServeLogin
  <1>5. ASSUME NEW c \in Call, ServeLogout(c) PROVE Moved
    BY <1>5 DEF ServeLogout, Live
  <1>6. ASSUME NEW c \in Call, SpendCookie(c) PROVE Moved
    BY <1>6 DEF SpendCookie, Live
  <1>7. ASSUME NEW c \in Call, SignHeir(c) PROVE Moved
    BY <1>7, PairType DEF SignHeir, Shape, ExchangeOk
  <1>8. ASSUME Expire PROVE Moved
    BY <1>8 DEF Expire, L!With
  <1> HIDE DEF Kept
  <1>9. Moved
    BY <1>1, <1>2, <1>3, <1>4, <1>5, <1>6, <1>7, <1>8 DEF Next, CallStep, RefreshStep
  <1> QED
    BY <1>9 DEF Kept

\* The endpoints of SessionClient do to the tokens what TokenLedger allows, and
\* AuthTokens implements: login signs in, a logout and the first half of a
\* refresh spend, the second half exchanges, a lifetime that is over dies.
THEOREM ServesTheLedger == Spec => L!Spec
  <1>1. Init => L!Init
    BY DEF Init
  <1>2. ASSUME TypeOK, Shape, [Next]_vars PROVE [L!Next]_(L!ledger)
    <2>1. LedgerType
      BY <1>2, TypeParts
    <2>2. CASE UNCHANGED <<st, heir>>
      BY <2>2 DEF L!ledger
    <2>3. ASSUME NEW S \in SUBSET Jti, L!Spend(S) \/ L!Die(S)
          PROVE  [L!Next]_(L!ledger)
      BY <2>3 DEF L!Next, L!Spend, L!Die, L!ledger
    <2>4. ASSUME NEW a \in Jti, NEW r \in Jti, L!SignIn(a, r, {}) PROVE [L!Next]_(L!ledger)
      <3>1. a \in L!With("unsigned") /\ r \in L!With("unsigned") /\ {} \in SUBSET {a, r}
        BY <2>4 DEF L!SignIn, L!Sign
      <3> QED
        BY <2>4, <3>1 DEF L!Next
    <2>5. ASSUME NEW j \in Jti, NEW a \in Jti, NEW r \in Jti, L!Exchange(j, a, r, {})
          PROVE  [L!Next]_(L!ledger)
      <3>1. a \in L!With("unsigned") /\ r \in L!With("unsigned") /\ {} \in SUBSET {a, r}
        BY <2>5 DEF L!Exchange, L!Sign
      <3>2. j \in L!With("spent") \cup L!With("dead")
        BY <2>5 DEF L!Exchange, L!With
      <3> QED
        BY <2>5, <3>1, <3>2 DEF L!Next
    <2> QED
      BY <1>2, <2>1, <2>2, <2>3, <2>4, <2>5, LedgerMoves DEF vars
  <1>3. TypeOK /\ Shape /\ [Next]_vars => (TypeOK /\ Shape)'
    BY ShapeStep, TypeStep
  <1> QED
    BY <1>1, <1>2, <1>3, InitShape, PTL DEF Spec, L!Spec

\* So it is in the browser, too: however tabs, reloads, retries and logouts
\* interleave, no refresh token is exchanged twice in its lifetime.
COROLLARY BrowserHasOneHeir == Spec => []L!OneHeir
  BY ServesTheLedger, OneHeirEach, PTL
=============================================================================
