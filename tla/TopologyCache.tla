--------------------------- MODULE TopologyCache ---------------------------
(***************************************************************************)
(* The in-process graph cache behind GET /topology/path                    *)
(* (app/services/topology.py) and the link endpoints that invalidate it    *)
(* (app/api/v1/endpoints/links.py).                                        *)
(*                                                                         *)
(* network_links is in the database; the graph, its dirty flag and an      *)
(* asyncio.Lock are module globals, one set per worker process.  A rebuild *)
(* holds the lock across the await of its query, but mark_dirty does not   *)
(* take the lock.                                                          *)
(***************************************************************************)
EXTENDS Integers, Sequences, FiniteSets

CONSTANTS Worker,     \* backend processes
          Device, Link,
          Cabling,    \* the device pairs a link may join: <<source, target>>
          Query,      \* the paths that clients ask for: <<from, to>>
          Client,     \* concurrent requests
          None,
          Faults,     \* what may go wrong: "crash", "database"
          MaxTables   \* bound: how many states network_links goes through

Cable == [ends : Cabling, status : {"active", "inactive"}]   \* "planned" counts as active
Table == [Link -> Cable \cup {None}]

ASSUME TopologyAssumption ==
  /\ IsFiniteSet(Device) /\ Cabling \subseteq Device \X Device /\ Query \subseteq Device \X Device
  /\ None \notin Cable /\ None \notin Worker /\ None \notin Link /\ None \notin Query
  /\ MaxTables \in Nat \ {0}
  /\ Faults \subseteq {"crash", "database"}

VARIABLES
  history,  \* every state of network_links so far; the last one is the table
  cache,    \* _graph and _dirty of each worker
  lock,     \* _lock of each worker: the requests at it, the holder first
  req,      \* requests in flight
  told,     \* history: per worker, the last table when a link write was marked
  served    \* history: per worker, the table behind its last path answer

vars == <<history, cache, lock, req, told, served>>

Version == Len(history)
Links   == history[Version]

-----------------------------------------------------------------------------
(* The graph: at most one link is kept for each pair of joined devices. *)

Edge == {{d[1], d[2]} : d \in {p \in Device \X Device : p[1] # p[2]}}

Between(t, e) ==
  {l \in Link : t[l] # None /\ t[l].status # "inactive" /\ {t[l].ends[1], t[l].ends[2]} = e}

Joined(t) == {e \in Edge : Between(t, e) # {}}

\* The graphs that the rows of t may give: they come in no particular order.
GraphsOf(t) == {g \in [Joined(t) -> Link] : \A e \in Joined(t) : g[e] \in Between(t, e)}

EmptyGraph == [e \in {} |-> None]
Graph == UNION {[E -> Link] : E \in SUBSET Edge}

\* The simple paths of graph g; a device reaches itself, in the graph or not.
Paths(g, q) ==
  {p \in UNION {[1..n -> Device] : n \in 1..Cardinality(Device)} :
     /\ p[1] = q[1] /\ p[Len(p)] = q[2]
     /\ \A i \in 1..Len(p)-1 : {p[i], p[i+1]} \in DOMAIN g}

Hops(g, p) == [i \in 1..Len(p)-1 |-> g[{p[i], p[i+1]}]]

Unreachable == [path |-> <<>>, links |-> <<>>]

ShortestPaths(g, q) == {p \in Paths(g, q) : \A o \in Paths(g, q) : Len(p) <= Len(o)}

Answers(g, q) ==
  IF ShortestPaths(g, q) = {} THEN {Unreachable}
  ELSE {[path |-> p, links |-> Hops(g, p)] : p \in ShortestPaths(g, q)}

-----------------------------------------------------------------------------
(* Requests.  quiet is history: told[at].quiet when a path request came. *)

Pc == {"idle", "loaded", "committed", "waiting", "querying", "answered"}

ReqState == [pc : Pc, op : {"none", "create", "update", "delete", "path"},
             at : Worker \cup {None}, link : Link \cup {None}, query : Query \cup {None},
             quiet : Nat, saw : Nat,
             answer : [path : Seq(Device), links : Seq(Link)]]

NoReq == [pc |-> "idle", op |-> "none", at |-> None, link |-> None, query |-> None,
          quiet |-> 0, saw |-> 0, answer |-> Unreachable]

FreshCache == [graph |-> EmptyGraph, dirty |-> TRUE, at |-> 0]

Init ==
  /\ history = <<[l \in Link |-> None]>>
  /\ cache = [w \in Worker |-> FreshCache]
  /\ lock = [w \in Worker |-> <<>>]
  /\ req = [c \in Client |-> NoReq]
  /\ told = [w \in Worker |-> [any |-> 0, quiet |-> 0]]
  /\ served = [w \in Worker |-> 0]

Free(c) == req[c].pc \in {"idle", "answered"}

Rebuilding(w) == \E c \in Client : req[c].pc = "querying" /\ req[c].at = w

-----------------------------------------------------------------------------
(* Link endpoints *)

Write(t) ==
  /\ Version < MaxTables
  /\ history' = Append(history, t)

\* uuid4 ids are never reused.
NewLinks == {l \in Link : \A n \in 1..Version : history[n][l] = None}

\* POST /links: the commit.
CreateLink(c, w, cable) ==
  LET l == CHOOSE k \in NewLinks : TRUE IN
  /\ Free(c)
  /\ NewLinks # {}
  /\ Write([Links EXCEPT ![l] = cable])
  /\ req' = [req EXCEPT ![c] =
               [NoReq EXCEPT !.pc = "committed", !.op = "create", !.at = w, !.link = l]]
  /\ UNCHANGED <<cache, lock, told, served>>

\* PUT and DELETE /links/{id}: the link is looked up (404 if there is none).
LoadLink(c, w, op, l) ==
  /\ Free(c)
  /\ Links[l] # None
  /\ req' = [req EXCEPT ![c] = [NoReq EXCEPT !.pc = "loaded", !.op = op, !.at = w, !.link = l]]
  /\ UNCHANGED <<history, cache, lock, told, served>>

\* PUT: the commit; it fails if the link has been deleted meanwhile.
UpdateLink(c, status) ==
  LET l == req[c].link IN
  /\ req[c].pc = "loaded" /\ req[c].op = "update"
  /\ \/ /\ Links[l] # None
        /\ Write([Links EXCEPT ![l].status = status])
        /\ req' = [req EXCEPT ![c].pc = "committed"]
     \/ /\ Links[l] = None
        /\ req' = [req EXCEPT ![c] = NoReq]
        /\ UNCHANGED history
  /\ UNCHANGED <<cache, lock, told, served>>

\* DELETE: the commit; a link that is already gone is no error.
DeleteLink(c) ==
  LET l == req[c].link IN
  /\ req[c].pc = "loaded" /\ req[c].op = "delete"
  /\ \/ Links[l] # None /\ Write([Links EXCEPT ![l] = None])
     \/ Links[l] = None /\ UNCHANGED history
  /\ req' = [req EXCEPT ![c].pc = "committed"]
  /\ UNCHANGED <<cache, lock, told, served>>

\* crud create and update end with a refresh, which raises if the row is gone.
Refreshed(c) == req[c].op = "delete" \/ Links[req[c].link] # None

\* mark_dirty(), then the response.
MarkDirty(c) ==
  LET w == req[c].at IN
  /\ req[c].pc = "committed" /\ Refreshed(c)
  /\ cache' = [cache EXCEPT ![w].dirty = TRUE]
  /\ told' = [told EXCEPT ![w].any = Version,
                          ![w].quiet = IF Rebuilding(w) THEN @ ELSE Version]
  /\ req' = [req EXCEPT ![c] = NoReq]
  /\ UNCHANGED <<history, lock, served>>

\* The refresh fails after the commit: 500, and the flag is not set.
RefreshFails(c) ==
  /\ req[c].pc = "committed"
  /\ ~Refreshed(c) \/ ("database" \in Faults /\ req[c].op # "delete")
  /\ req' = [req EXCEPT ![c] = NoReq]
  /\ UNCHANGED <<history, cache, lock, told, served>>

-----------------------------------------------------------------------------
(* GET /topology/path *)

GetPath(c, w, q) ==
  /\ Free(c)
  /\ lock' = [lock EXCEPT ![w] = Append(@, c)]
  /\ req' = [req EXCEPT ![c] =
               [NoReq EXCEPT !.pc = "waiting", !.op = "path", !.at = w, !.query = q,
                             !.quiet = told[w].quiet]]
  /\ UNCHANGED <<history, cache, told, served>>

\* Mutant: no lock.
HasTurn(c) == TRUE

\* The asyncio.Lock is handed on in the order of arrival.
HasLock(c) == lock[req[c].at] # <<>> /\ Head(lock[req[c].at]) = c

Release(w) == lock' = [lock EXCEPT ![w] = Tail(@)]

\* No await after the lock is released: the path is found in the same step.
\* g is the graph by then, v the table it was built from.
Reply(c, g, v) ==
  /\ \E a \in Answers(g, req[c].query) :
       req' = [req EXCEPT ![c] = [@ EXCEPT !.pc = "answered", !.saw = v, !.answer = a]]
  /\ served' = [served EXCEPT ![req[c].at] = v]

\* Mutant: the graph in use is answered from, whatever the flag says.
AnswerFromStale(c) ==
  LET w == req[c].at IN
  /\ req[c].pc = "waiting" /\ HasLock(c) /\ cache[w].at > 0
  /\ Release(w)
  /\ Reply(c, cache[w].graph, cache[w].at)
  /\ UNCHANGED <<history, cache, told>>

AnswerFromCache(c) ==
  LET w == req[c].at IN
  /\ req[c].pc = "waiting" /\ HasLock(c) /\ ~cache[w].dirty
  /\ Release(w)
  /\ Reply(c, cache[w].graph, cache[w].at)
  /\ UNCHANGED <<history, cache, told>>

\* Mutant: the flag is cleared before the query.
QueryLinksClean(c) ==
  /\ req[c].pc = "waiting" /\ HasLock(c) /\ cache[req[c].at].dirty
  /\ req' = [req EXCEPT ![c].pc = "querying", ![c].saw = Version]
  /\ cache' = [cache EXCEPT ![req[c].at].dirty = FALSE]
  /\ UNCHANGED <<history, lock, told, served>>

\* _rebuild: the database runs the query ...
QueryLinks(c) ==
  /\ req[c].pc = "waiting" /\ HasLock(c) /\ cache[req[c].at].dirty
  /\ req' = [req EXCEPT ![c].pc = "querying", ![c].saw = Version]
  /\ UNCHANGED <<history, cache, lock, told, served>>

\* Mutant: the edges are added to the graph in use.
RebuildInPlace(c) ==
  LET w == req[c].at  v == req[c].saw  old == cache[w].graph IN
  /\ req[c].pc = "querying"
  /\ \E new \in GraphsOf(history[v]) :
       LET g == [e \in DOMAIN old \cup DOMAIN new |->
                   IF e \in DOMAIN new THEN new[e] ELSE old[e]]
       IN /\ cache' = [cache EXCEPT ![w] = [graph |-> g, dirty |-> FALSE, at |-> v]]
          /\ Reply(c, g, v)
  /\ Release(w)
  /\ UNCHANGED <<history, told>>

\* ... and its rows, history[saw], come back after an await.
Rebuild(c) ==
  LET w == req[c].at  v == req[c].saw IN
  /\ req[c].pc = "querying"
  /\ \E g \in GraphsOf(history[v]) :
       /\ cache' = [cache EXCEPT ![w] = [graph |-> g, dirty |-> FALSE, at |-> v]]
       /\ Reply(c, g, v)
  /\ Release(w)
  /\ UNCHANGED <<history, told>>

\* Mutant: the lock is not released.
QueryFailsHolding(c) ==
  /\ "database" \in Faults
  /\ req[c].pc = "querying"
  /\ req' = [req EXCEPT ![c] = NoReq]
  /\ UNCHANGED <<history, cache, lock, told, served>>

\* The query fails: 500; async with releases the lock, the flag stays set.
QueryFails(c) ==
  LET w == req[c].at IN
  /\ "database" \in Faults
  /\ req[c].pc = "querying"
  /\ req' = [req EXCEPT ![c] = NoReq]
  /\ Release(w)
  /\ UNCHANGED <<history, cache, told, served>>

-----------------------------------------------------------------------------

\* The globals and the requests of the process are gone.
Crash(w) ==
  /\ "crash" \in Faults
  /\ cache' = [cache EXCEPT ![w] = FreshCache]
  /\ lock' = [lock EXCEPT ![w] = <<>>]
  /\ req' = [c \in Client |-> IF req[c].at = w THEN NoReq ELSE req[c]]
  /\ UNCHANGED <<history, told, served>>

Step(c) ==
  \/ \E s \in {"active", "inactive"} : UpdateLink(c, s)
  \/ DeleteLink(c) \/ MarkDirty(c) \/ RefreshFails(c)
  \/ AnswerFromCache(c) \/ QueryLinks(c) \/ Rebuild(c) \/ QueryFails(c)

Request(c) ==
  \E w \in Worker :
    \/ \E cable \in Cable : CreateLink(c, w, cable)
    \/ \E op \in {"update", "delete"}, l \in Link : LoadLink(c, w, op, l)
    \/ \E q \in Query : GetPath(c, w, q)

Next ==
  \/ \E c \in Client : Step(c) \/ Request(c)
  \/ \E w \in Worker : Crash(w)

Spec == Init /\ [][Next]_vars

-----------------------------------------------------------------------------
(* Properties *)

\* Globals and requests keep their types: a graph joins different devices by links.
TypeOK ==
  /\ history \in Seq(Table) /\ history # <<>>
  /\ cache \in [Worker -> [graph : Graph, dirty : BOOLEAN, at : Nat]]
  /\ lock \in [Worker -> Seq(Client)]
  /\ req \in [Client -> ReqState]
  /\ told \in [Worker -> [any : Nat, quiet : Nat]]
  /\ served \in [Worker -> Nat]

Answered == {r \in Client : req[r].pc = "answered"}

\* topology.py:107 "Return the shortest hop path between two devices": an answer
\* is one of a single state of network_links.  Each hop is a link of that state
\* that is not inactive and joins the two devices, no fewer hops would do in that
\* state, and "unreachable" says that no chain of such links existed in it.
PathsAreReal ==
  \A r \in Answered :
    req[r].saw \in 1..Version /\
    LET t == history[req[r].saw]
        ans == req[r].answer
        Chains == {p \in UNION {[1..n -> Device] : n \in 1..Cardinality(Device)} :
                     /\ p[1] = req[r].query[1] /\ p[Len(p)] = req[r].query[2]
                     /\ \A i \in 1..Len(p)-1 : Between(t, {p[i], p[i+1]}) # {}}
    IN /\ ans.path \in Chains \/ (ans.path = <<>> /\ Chains = {})
       /\ \A p \in Chains : Len(ans.path) <= Len(p)
       /\ \A i \in 1..Len(ans.path)-1 :
            ans.links[i] \in Between(t, {ans.path[i], ans.path[i+1]})

\* topology.py:41 "Signal that the graph must be rebuilt on the next request": a
\* graph that is not dirty has every link write that its worker has marked.
\* Does not hold of the code (README, "Disagreements").
MarkForcesRebuild == \A w \in Worker : ~cache[w].dirty => cache[w].at >= told[w].any

\* What holds: a path request that reaches a worker is answered from every link
\* write that the worker has marked while no rebuild was at work in it, or from a
\* later one, whatever rebuilds, failures and crashes followed.
QuietMarkIsSeen == \A r \in Answered : req[r].saw >= req[r].quiet

\* topology.py:113 the lock: the path answers of a worker never go back to an
\* older state of network_links, not even over a restart.
AnswersNeverGoBack == [][\A w \in Worker : served'[w] >= served[w]]_vars

\* The lock is never left behind: its holder is a path request of the worker that
\* is still running, so those behind it get their turn.
HolderIsAtWork ==
  \A w \in Worker : lock[w] # <<>> =>
    LET r == req[Head(lock[w])] IN r.at = w /\ r.pc \in {"waiting", "querying"}

-----------------------------------------------------------------------------
(* The service that the cache provides *)

\* A path request by what its client can tell of it.
AskOf(r) ==
  LET asks     == r.pc \in {"waiting", "querying", "answered"}
      answered == r.pc = "answered"
  IN [state  |-> IF answered THEN "answered" ELSE IF asks THEN "asked" ELSE "none",
      at     |-> IF asks THEN r.at ELSE None,
      query  |-> IF asks THEN r.query ELSE None,
      saw    |-> IF answered THEN r.saw ELSE 0,
      answer |-> IF answered THEN r.answer ELSE Unreachable]

P == INSTANCE PathService WITH
       noted <- [w \in Worker |-> told[w].quiet],
       ask   <- [c \in Client |-> AskOf(req[c])]

\* topology.py:3-11 and 41: seen from outside, cache, lock and rebuilds do not
\* exist.  A path answer is right for one state of the links, at least as new as
\* the worker's last answer and, even for a request that was there before, as
\* every write that the worker marked outside a rebuild.
ImplementsPathService == P!Spec
=============================================================================
