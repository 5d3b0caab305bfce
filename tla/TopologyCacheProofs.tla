------------------------ MODULE TopologyCacheProofs ------------------------
(***************************************************************************)
(* Proofs about TopologyCache for any number of workers, requests, devices *)
(* and links and any bound on the writes: type correctness, that the lock  *)
(* is never left behind, that the path answers of a worker never go back,  *)
(* that a write marked outside a rebuild is seen, that every path answer   *)
(* is a shortest path of the links the worker had loaded, and that all of  *)
(* it together is a PathService.                                           *)
(*                                                                         *)
(* All rest on the lock: the request that waits for the query of a rebuild *)
(* is the head of the queue, so there is one for each worker, and nobody   *)
(* answers from the cache while it waits.                                  *)
(***************************************************************************)
EXTENDS TopologyCache, FiniteSetTheorems, WellFoundedInduction, TLAPS

-----------------------------------------------------------------------------
(* The inductive invariant *)

\* A request knows what it needs at each of its steps.
ReqInv ==
  \A r \in Client :
    /\ req[r].pc # "idle" => req[r].at \in Worker
    /\ req[r].pc \in {"loaded", "committed"} => req[r].link \in Link
    /\ req[r].pc \in {"waiting", "querying"} => req[r].query \in Query
    /\ req[r].pc = "querying" => HasLock(r)

\* The queue of a lock: running path requests of its worker, none of them twice.
QueueInv ==
  \A w \in Worker :
    /\ \A i \in 1..Len(lock[w]) :
         req[lock[w][i]].at = w /\ req[lock[w][i]].pc \in {"waiting", "querying"}
    /\ \A i, j \in 1..Len(lock[w]) : i # j => lock[w][i] # lock[w][j]

\* Versions: those served and those marked outside a rebuild are not ahead of a
\* clean cache, nor of the query of a rebuild.
CacheInv ==
  \A w \in Worker :
    /\ served[w] <= Version /\ told[w].quiet <= Version
    /\ ~cache[w].dirty => served[w] <= cache[w].at /\ told[w].quiet <= cache[w].at
    /\ cache[w].at <= Version

SeenInv ==
  \A r \in Client : LET w == req[r].at IN
    /\ req[r].pc = "waiting" => req[r].quiet <= told[w].quiet
    /\ req[r].pc = "querying" => /\ req[r].saw \in 1..Version
                                 /\ req[r].quiet <= told[w].quiet
                                 /\ served[w] <= req[r].saw /\ told[w].quiet <= req[r].saw

LockInv == ReqInv /\ QueueInv

IInv == TypeOK /\ LockInv /\ CacheInv /\ SeenInv /\ QuietMarkIsSeen

-----------------------------------------------------------------------------
(* The operators of the model *)

LEMMA Constants ==
  /\ NoReq \in ReqState /\ NoReq.pc = "idle"
  /\ FreshCache \in [graph : Graph, dirty : BOOLEAN, at : Nat]
  /\ FreshCache.dirty /\ FreshCache.at = 0
  <1>1. NoReq \in ReqState /\ NoReq.pc = "idle"
    BY DEF NoReq, ReqState, Pc, Unreachable
  <1>2. EmptyGraph \in [{} -> Link]
    BY DEF EmptyGraph
  <1>3. EmptyGraph \in Graph
    BY <1>2 DEF Graph
  <1> QED
    BY <1>1, <1>3 DEF FreshCache

LEMMA CurrentTable ==
  ASSUME TypeOK
  PROVE  /\ Version \in Nat \ {0} /\ Links \in Table
         /\ \A n \in 1..Version : history[n] \in Table
  BY DEF TypeOK, Version, Links

\* A rebuild installs a graph.
LEMMA GraphTyped ==
  ASSUME NEW t \in Table
  PROVE  GraphsOf(t) \subseteq Graph
  <1>1. Joined(t) \in SUBSET Edge
    BY DEF Joined
  <1> QED
    BY <1>1 DEF GraphsOf, Graph

\* What a path request answers from a graph is typed.
LEMMA AnswerTyped ==
  ASSUME NEW g \in Graph, NEW q
  PROVE  Answers(g, q) \subseteq [path : Seq(Device), links : Seq(Link)]
  <1>1. Unreachable \in [path : Seq(Device), links : Seq(Link)]
    BY DEF Unreachable
  <1>2. ASSUME NEW p \in Paths(g, q)
        PROVE  [path |-> p, links |-> Hops(g, p)] \in [path : Seq(Device), links : Seq(Link)]
    <2>1. PICK n \in 1..Cardinality(Device) : p \in [1..n -> Device]
      BY DEF Paths
    <2>2. p \in Seq(Device) /\ Len(p) = n /\ n \in Nat \ {0}
      BY <2>1
    <2>3. \A e \in DOMAIN g : g[e] \in Link
      BY DEF Graph
    <2>4. \A i \in 1..Len(p)-1 : {p[i], p[i+1]} \in DOMAIN g
      BY DEF Paths
    <2>5. Hops(g, p) \in [1..n-1 -> Link]
      BY <2>2, <2>3, <2>4 DEF Hops
    <2>6. Hops(g, p) \in Seq(Link)
      BY <2>2, <2>5
    <2> QED
      BY <2>2, <2>6
  <1> QED
    BY <1>1, <1>2 DEF Answers, ShortestPaths

-----------------------------------------------------------------------------
(* Initial states *)

LEMMA InitInv == Init => IInv
  <1> SUFFICES ASSUME Init PROVE IInv
    OBVIOUS
  <1>1. TypeOK
    <2>1. [l \in Link |-> None] \in Table
      BY DEF Table
    <2> QED
      BY <2>1, Constants DEF Init, TypeOK
  <1>2. LockInv
    BY Constants DEF Init, LockInv, ReqInv, QueueInv
  <1>3. CacheInv /\ SeenInv /\ QuietMarkIsSeen
    BY Constants, CurrentTable, <1>1 DEF Init, CacheInv, SeenInv, QuietMarkIsSeen, Answered
  <1> QED
    BY <1>1, <1>2, <1>3 DEF IInv

-----------------------------------------------------------------------------
(* Requests to the link endpoints stay out of the lock *)

LEMMA OutsideLock ==
  ASSUME IInv, NEW c \in Client, NEW q \in ReqState, req' = [req EXCEPT ![c] = q],
         req[c].pc \notin {"waiting", "querying"}, q.pc \in {"idle", "loaded", "committed"},
         q.pc # "idle" => q.at \in Worker /\ q.link \in Link, UNCHANGED lock
  PROVE  LockInv'
  <1>1. \A r \in Client : req'[r] = IF r = c THEN q ELSE req[r]
    BY DEF IInv, TypeOK
  <1>2. ReqInv'
    BY <1>1 DEF IInv, LockInv, ReqInv, HasLock
  <1>3. ASSUME NEW w \in Worker, NEW i \in 1..Len(lock[w])
        PROVE  lock[w][i] \in Client /\ lock[w][i] # c
    BY DEF IInv, TypeOK, LockInv, QueueInv
  <1>4. QueueInv'
    BY <1>1, <1>3 DEF IInv, LockInv, QueueInv
  <1> QED
    BY <1>2, <1>4 DEF LockInv

LEMMA TableStep ==
  ASSUME IInv, history' = history \/ \E t \in Table : history' = Append(history, t)
  PROVE  /\ history' \in Seq(Table) /\ history' # <<>>
         /\ Version' \in Nat /\ Version \in Nat /\ Version <= Version'
  <1>1. CASE history' = history
    BY <1>1, CurrentTable DEF IInv, TypeOK, Version
  <1>2. CASE \E t \in Table : history' = Append(history, t)
    <2>1. PICK t \in Table : history' = Append(history, t)
      BY <1>2
    <2>2. history \in Seq(Table)
      BY DEF IInv, TypeOK
    <2>3. /\ Append(history, t) \in Seq(Table) /\ Len(history) \in Nat
          /\ Len(Append(history, t)) = Len(history) + 1
      BY <2>2
    <2>4. Append(history, t) # <<>>
      BY <2>2, <2>3
    <2> QED
      BY <2>1, <2>3, <2>4 DEF Version
  <1> QED
    BY <1>1, <1>2

\* A step of a link endpoint that does not mark the graph.
LEMMA EndpointStep ==
  ASSUME IInv, NEW c \in Client, NEW q \in ReqState, req' = [req EXCEPT ![c] = q],
         req[c].pc \notin {"waiting", "querying"}, q.pc \in {"idle", "loaded", "committed"},
         q.pc # "idle" => q.at \in Worker /\ q.link \in Link,
         history' = history \/ \E t \in Table : history' = Append(history, t),
         UNCHANGED <<cache, lock, told, served>>
  PROVE  IInv'
  <1>1. \A r \in Client : req'[r] = IF r = c THEN q ELSE req[r]
    BY DEF IInv, TypeOK
  <1>2. TypeOK'
    BY TableStep DEF IInv, TypeOK
  <1>3. LockInv'
    BY OutsideLock
  <1>4. CacheInv'
    BY TableStep DEF IInv, TypeOK, CacheInv
  <1>5. SeenInv' /\ QuietMarkIsSeen'
    BY <1>1, TableStep DEF IInv, TypeOK, SeenInv, QuietMarkIsSeen, Answered
  <1> QED
    BY <1>2, <1>3, <1>4, <1>5 DEF IInv

LEMMA CreateLinkStep ==
  ASSUME IInv, NEW c \in Client, NEW w \in Worker, NEW cable \in Cable, CreateLink(c, w, cable)
  PROVE  IInv'
  <1> DEFINE l == CHOOSE k \in NewLinks : TRUE
             q == [NoReq EXCEPT !.pc = "committed", !.op = "create", !.at = w, !.link = l]
  <1>1. l \in Link
    BY DEF CreateLink, NewLinks
  <1>2. q \in ReqState /\ q.pc = "committed" /\ q.at = w /\ q.link = l
    BY <1>1, Constants DEF ReqState, Pc
  <1>3. [Links EXCEPT ![l] = cable] \in Table
    BY CurrentTable DEF IInv, Table
  <1>4. /\ history' = Append(history, [Links EXCEPT ![l] = cable])
        /\ req' = [req EXCEPT ![c] = q] /\ UNCHANGED <<cache, lock, told, served>>
        /\ req[c].pc \notin {"waiting", "querying"}
    BY DEF CreateLink, Write, Free
  <1> HIDE DEF q, l
  <1> QED
    BY <1>1, <1>2, <1>3, <1>4, EndpointStep

LEMMA LoadLinkStep ==
  ASSUME IInv, NEW c \in Client, NEW w \in Worker, NEW op \in {"update", "delete"},
         NEW l \in Link, LoadLink(c, w, op, l)
  PROVE  IInv'
  <1> DEFINE q == [NoReq EXCEPT !.pc = "loaded", !.op = op, !.at = w, !.link = l]
  <1>1. q \in ReqState /\ q.pc = "loaded" /\ q.at = w /\ q.link = l
    BY Constants DEF ReqState, Pc
  <1>2. /\ req' = [req EXCEPT ![c] = q] /\ UNCHANGED <<history, cache, lock, told, served>>
        /\ req[c].pc \notin {"waiting", "querying"}
    BY DEF LoadLink, Free
  <1> HIDE DEF q
  <1> QED
    BY <1>1, <1>2, EndpointStep

\* The request of a link endpoint after its commit.
LEMMA CommittedReq ==
  ASSUME IInv, NEW c \in Client, req[c].pc = "loaded"
  PROVE  LET q == [req[c] EXCEPT !.pc = "committed"] IN
         /\ q \in ReqState /\ q.pc = "committed" /\ q.at \in Worker /\ q.link \in Link
         /\ req[c].link \in Link
  <1>1. req[c] \in ReqState /\ req[c].at \in Worker /\ req[c].link \in Link
    BY DEF IInv, TypeOK, LockInv, ReqInv
  <1> QED
    BY <1>1 DEF ReqState, Pc

LEMMA UpdateLinkStep ==
  ASSUME IInv, NEW c \in Client, NEW status \in {"active", "inactive"}, UpdateLink(c, status)
  PROVE  IInv'
  <1> DEFINE l == req[c].link
             q == [req[c] EXCEPT !.pc = "committed"]
             t == [Links EXCEPT ![l].status = status]
  <1>1. req[c].pc = "loaded" /\ UNCHANGED <<cache, lock, told, served>>
    BY DEF UpdateLink
  <1>2. CASE Links[l] # None /\ Write(t) /\ req' = [req EXCEPT ![c].pc = "committed"]
    <2>1. Links[l] \in Cable /\ Links \in Table /\ l \in Link
      BY <1>1, <1>2, CommittedReq, CurrentTable DEF IInv, Table
    <2>2. [Links[l] EXCEPT !.status = status] \in Cable
      BY <2>1 DEF Cable
    <2>3. t \in Table
      BY <2>1, <2>2 DEF Table
    <2>4. req' = [req EXCEPT ![c] = q] /\ history' = Append(history, t)
      BY <1>2 DEF Write
    <2>5. q \in ReqState /\ q.pc = "committed" /\ q.at \in Worker /\ q.link \in Link
      BY <1>1, CommittedReq
    <2> HIDE DEF q, t
    <2> QED
      BY <1>1, <2>3, <2>4, <2>5, EndpointStep
  <1>3. CASE Links[l] = None /\ req' = [req EXCEPT ![c] = NoReq] /\ UNCHANGED history
    BY <1>1, <1>3, Constants, EndpointStep
  <1> QED
    BY <1>2, <1>3 DEF UpdateLink

LEMMA DeleteLinkStep ==
  ASSUME IInv, NEW c \in Client, DeleteLink(c)
  PROVE  IInv'
  <1> DEFINE q == [req[c] EXCEPT !.pc = "committed"]
             t == [Links EXCEPT ![req[c].link] = None]
  <1>1. /\ req[c].pc = "loaded" /\ UNCHANGED <<cache, lock, told, served>>
        /\ req' = [req EXCEPT ![c] = q]
        /\ history' = history \/ history' = Append(history, t)
    BY DEF DeleteLink, Write
  <1>2. t \in Table
    BY CurrentTable DEF IInv, Table
  <1>3. q \in ReqState /\ q.pc = "committed" /\ q.at \in Worker /\ q.link \in Link
    BY <1>1, CommittedReq
  <1> HIDE DEF q, t
  <1> QED
    BY <1>1, <1>2, <1>3, EndpointStep

LEMMA RefreshFailsStep ==
  ASSUME IInv, NEW c \in Client, RefreshFails(c)
  PROVE  IInv'
  BY Constants, EndpointStep DEF RefreshFails

\* A mark outside a rebuild leaves the cache dirty, and nobody holds older rows.
LEMMA MarkDirtyStep ==
  ASSUME IInv, NEW c \in Client, MarkDirty(c)
  PROVE  IInv'
  <1> DEFINE w == req[c].at
  <1>1. /\ req[c].pc = "committed" /\ req' = [req EXCEPT ![c] = NoReq]
        /\ UNCHANGED <<history, lock, served>>
        /\ cache' = [cache EXCEPT ![w].dirty = TRUE]
        /\ told' = [told EXCEPT ![w].any = Version,
                                ![w].quiet = IF Rebuilding(w) THEN @ ELSE Version]
    BY DEF MarkDirty
  <1>2. w \in Worker
    BY <1>1 DEF IInv, LockInv, ReqInv
  <1>3. Version \in Nat /\ Version' = Version
    BY <1>1, CurrentTable DEF IInv, Version
  <1>4. /\ told' \in [Worker -> [any : Nat, quiet : Nat]]
        /\ told'[w].quiet = IF Rebuilding(w) THEN told[w].quiet ELSE Version
        /\ \A v \in Worker : v # w => told'[v] = told[v]
    BY <1>1, <1>2, <1>3 DEF IInv, TypeOK
  <1>5. /\ cache' \in [Worker -> [graph : Graph, dirty : BOOLEAN, at : Nat]]
        /\ cache'[w].dirty /\ cache'[w].at = cache[w].at
        /\ \A v \in Worker : v # w => cache'[v] = cache[v]
    BY <1>1, <1>2 DEF IInv, TypeOK
  <1>6. \A v \in Worker : told[v].quiet \in Nat /\ told[v].quiet <= told'[v].quiet
                          /\ told'[v].quiet <= Version
    <2> SUFFICES ASSUME NEW v \in Worker
                 PROVE  /\ told[v].quiet \in Nat /\ told[v].quiet <= told'[v].quiet
                        /\ told'[v].quiet <= Version
      OBVIOUS
    <2>1. told[v].quiet \in Nat /\ told[v].quiet <= Version
      BY DEF IInv, TypeOK, CacheInv
    <2> QED
      BY <1>3, <1>4, <2>1
  <1>7. \A r \in Client : req'[r] = IF r = c THEN NoReq ELSE req[r]
    BY <1>1 DEF IInv, TypeOK
  <1>8. TypeOK'
    BY <1>1, <1>4, <1>5, Constants DEF IInv, TypeOK
  <1>9. LockInv'
    BY <1>1, Constants, OutsideLock
  <1>10. CacheInv'
    <2> SUFFICES ASSUME NEW v \in Worker
                 PROVE  /\ served[v] <= Version /\ told'[v].quiet <= Version
                        /\ ~cache'[v].dirty => served[v] <= cache'[v].at
                                               /\ told'[v].quiet <= cache'[v].at
                        /\ cache'[v].at <= Version
      BY <1>1, <1>3 DEF CacheInv
    <2>1. /\ served[v] <= Version /\ cache[v].at <= Version
          /\ ~cache[v].dirty => served[v] <= cache[v].at /\ told[v].quiet <= cache[v].at
      BY DEF IInv, CacheInv
    <2>2. CASE v = w
      BY <1>5, <1>6, <2>1, <2>2
    <2>3. CASE v # w
      BY <1>4, <1>5, <1>6, <2>1, <2>3
    <2> QED
      BY <2>2, <2>3
  <1>11. SeenInv'
    <2> SUFFICES ASSUME NEW r \in Client, r # c, req[r].pc \in {"waiting", "querying"}
                 PROVE  /\ req[r].quiet <= told'[req[r].at].quiet
                        /\ req[r].pc = "querying" =>
                             /\ req[r].saw \in 1..Version /\ served[req[r].at] <= req[r].saw
                             /\ told'[req[r].at].quiet <= req[r].saw
      <3>1. NoReq.pc \notin {"waiting", "querying"}
        BY Constants
      <3> QED
        BY <1>1, <1>3, <1>7, <3>1 DEF SeenInv
    <2>1. req[r].at \in Worker /\ req[r].quiet \in Nat /\ req[r].saw \in Nat
      BY DEF IInv, TypeOK, ReqState, LockInv, ReqInv
    <2>2. req[r].quiet <= told[req[r].at].quiet
      BY DEF IInv, SeenInv
    <2>3. ASSUME req[r].pc = "querying"
          PROVE  told'[req[r].at].quiet = told[req[r].at].quiet
      BY <1>4, <2>1, <2>3 DEF Rebuilding
    <2>4. /\ told[req[r].at].quiet \in Nat /\ told'[req[r].at].quiet \in Nat
          /\ told[req[r].at].quiet <= told'[req[r].at].quiet
      BY <1>4, <1>6, <2>1
    <2>5. req[r].pc = "querying" =>
            /\ req[r].saw \in 1..Version /\ served[req[r].at] <= req[r].saw
            /\ told[req[r].at].quiet <= req[r].saw
      BY DEF IInv, SeenInv
    <2> QED
      BY <2>1, <2>2, <2>3, <2>4, <2>5
  <1>12. QuietMarkIsSeen'
    BY <1>7, Constants DEF IInv, QuietMarkIsSeen, Answered
  <1> QED
    BY <1>8, <1>9, <1>10, <1>11, <1>12 DEF IInv

-----------------------------------------------------------------------------
(* Path requests *)

\* The query of a rebuild is the only one of its worker.
LEMMA OneRebuild ==
  ASSUME IInv, NEW r \in Client, NEW o \in Client, req[r].pc = "querying",
         HasLock(o), req[o].at = req[r].at
  PROVE  r = o
  BY DEF IInv, LockInv, ReqInv, HasLock

\* A request joins the queue.
LEMMA GetPathStep ==
  ASSUME IInv, NEW c \in Client, NEW w \in Worker, NEW x \in Query, GetPath(c, w, x)
  PROVE  IInv'
  <1> DEFINE q == [NoReq EXCEPT !.pc = "waiting", !.op = "path", !.at = w, !.query = x,
                                !.quiet = told[w].quiet]
  <1>1. /\ req[c].pc \notin {"waiting", "querying"} /\ req' = [req EXCEPT ![c] = q]
        /\ lock' = [lock EXCEPT ![w] = Append(lock[w], c)]
        /\ UNCHANGED <<history, cache, told, served>>
    BY DEF GetPath, Free
  <1>2. told[w].any \in Nat /\ told[w].quiet \in Nat
    BY DEF IInv, TypeOK
  <1>3. /\ q \in ReqState /\ q.pc = "waiting" /\ q.at = w /\ q.query = x
        /\ q.quiet = told[w].quiet
    BY <1>2, Constants DEF ReqState, Pc
  <1> HIDE DEF q
  <1>4. \A r \in Client : req'[r] = IF r = c THEN q ELSE req[r]
    BY <1>1 DEF IInv, TypeOK
  <1>5. /\ lock[w] \in Seq(Client) /\ lock'[w] = Append(lock[w], c)
        /\ \A v \in Worker : v # w => lock'[v] = lock[v]
        /\ lock' \in [Worker -> Seq(Client)]
    BY <1>1 DEF IInv, TypeOK
  <1>6. /\ Len(lock[w]) \in Nat /\ Len(lock'[w]) = Len(lock[w]) + 1
        /\ lock'[w][Len(lock[w]) + 1] = c /\ lock'[w] # <<>>
        /\ \A i \in 1..Len(lock[w]) : lock'[w][i] = lock[w][i]
    BY <1>5
  <1>7. \A v \in Worker : \A i \in 1..Len(lock[v]) : lock[v][i] \in Client /\ lock[v][i] # c
    BY <1>1 DEF IInv, TypeOK, LockInv, QueueInv
  <1>8. TypeOK'
    BY <1>1, <1>3, <1>5 DEF IInv, TypeOK
  <1>9. QueueInv'
    <2> SUFFICES ASSUME NEW v \in Worker
                 PROVE  /\ \A i \in 1..Len(lock'[v]) :
                             req'[lock'[v][i]].at = v /\ req'[lock'[v][i]].pc \in {"waiting", "querying"}
                        /\ \A i, j \in 1..Len(lock'[v]) : i # j => lock'[v][i] # lock'[v][j]
      BY DEF QueueInv
    <2>1. CASE v # w
      BY <1>4, <1>5, <1>7, <2>1 DEF IInv, LockInv, QueueInv
    <2>2. CASE v = w
      <3>1. \A i \in 1..Len(lock'[w]) : i \in 1..Len(lock[w]) \/ i = Len(lock[w]) + 1
        BY <1>6
      <3>2. \A i \in 1..Len(lock[w]) : /\ req'[lock'[w][i]] = req[lock[w][i]] /\ lock'[w][i] # c
        BY <1>4, <1>6, <1>7
      <3>3. /\ \A i \in 1..Len(lock[w]) :
                 req[lock[w][i]].at = w /\ req[lock[w][i]].pc \in {"waiting", "querying"}
            /\ \A i, j \in 1..Len(lock[w]) : i # j => lock[w][i] # lock[w][j]
        BY DEF IInv, LockInv, QueueInv
      <3>4. req'[c].at = w /\ req'[c].pc = "waiting"
        BY <1>3, <1>4
      <3>5. \A i \in 1..Len(lock'[w]) :
              req'[lock'[w][i]].at = w /\ req'[lock'[w][i]].pc \in {"waiting", "querying"}
        BY <1>6, <3>1, <3>2, <3>3, <3>4
      <3>6. ASSUME NEW i \in 1..Len(lock'[w]), NEW j \in 1..Len(lock'[w]), i # j
            PROVE  lock'[w][i] # lock'[w][j]
        BY <1>6, <3>1, <3>2, <3>3, <3>6
      <3> QED
        BY <2>2, <3>5, <3>6
    <2> QED
      BY <2>1, <2>2
  <1>10. ReqInv'
    <2>1. ASSUME NEW r \in Client, r # c, req[r].pc = "querying" PROVE HasLock(r)'
      <3>1. HasLock(r) /\ req[r].at \in Worker
        BY <2>1 DEF IInv, LockInv, ReqInv
      <3>2. CASE req[r].at = w
        <4>1. lock[w] # <<>> /\ Head(lock[w]) = r
          BY <3>1, <3>2 DEF HasLock
        <4>2. Head(lock'[w]) = r
          BY <1>5, <1>6, <4>1
        <4> QED
          BY <1>4, <1>6, <2>1, <3>2, <4>2 DEF HasLock
      <3>3. CASE req[r].at # w
        BY <1>4, <1>5, <2>1, <3>1, <3>3 DEF HasLock
      <3> QED
        BY <3>2, <3>3
    <2> QED
      BY <1>3, <1>4, <2>1 DEF IInv, LockInv, ReqInv
  <1>11. CacheInv'
    BY <1>1 DEF IInv, CacheInv, Version
  <1>12. SeenInv' /\ QuietMarkIsSeen'
    BY <1>1, <1>2, <1>3, <1>4 DEF IInv, SeenInv, QuietMarkIsSeen, Answered, Version
  <1> QED
    BY <1>8, <1>9, <1>10, <1>11, <1>12 DEF IInv, LockInv

\* The holder starts a rebuild: the rows are as new as they can be.
LEMMA QueryLinksStep ==
  ASSUME IInv, NEW c \in Client, QueryLinks(c)
  PROVE  IInv'
  <1> DEFINE q == [req[c] EXCEPT !.pc = "querying", !.saw = Version]
  <1>1. /\ req[c].pc = "waiting" /\ HasLock(c) /\ req' = [req EXCEPT ![c] = q]
        /\ UNCHANGED <<history, cache, lock, told, served>>
    BY DEF QueryLinks, IInv, TypeOK
  <1>2. req[c] \in ReqState /\ Version \in Nat \ {0} /\ req[c].at \in Worker
    BY <1>1, CurrentTable DEF IInv, TypeOK, LockInv, ReqInv
  <1>3. /\ q \in ReqState /\ q.pc = "querying" /\ q.at = req[c].at /\ q.query = req[c].query
        /\ q.quiet = req[c].quiet /\ q.saw = Version
    BY <1>2 DEF ReqState, Pc
  <1> HIDE DEF q
  <1>4. \A r \in Client : req'[r] = IF r = c THEN q ELSE req[r]
    BY <1>1 DEF IInv, TypeOK
  <1>5. TypeOK'
    BY <1>1, <1>3 DEF IInv, TypeOK
  <1>6. ReqInv'
    BY <1>1, <1>3, <1>4 DEF IInv, LockInv, ReqInv, HasLock
  <1>7. \A v \in Worker : \A i \in 1..Len(lock[v]) : lock[v][i] \in Client
    BY DEF IInv, TypeOK
  <1>8. QueueInv'
    BY <1>1, <1>3, <1>4, <1>7 DEF IInv, LockInv, QueueInv
  <1>9. CacheInv'
    BY <1>1 DEF IInv, CacheInv, Version
  <1>10. served[req[c].at] <= Version /\ told[req[c].at].quiet <= Version
    BY <1>2 DEF IInv, CacheInv
  <1>11. SeenInv' /\ QuietMarkIsSeen'
    BY <1>1, <1>2, <1>3, <1>4, <1>10 DEF IInv, SeenInv, QuietMarkIsSeen, Answered, Version
  <1> QED
    BY <1>5, <1>6, <1>8, <1>9, <1>11 DEF IInv, LockInv

\* The holder leaves the queue; nobody else of its worker waits for a query.
LEMMA LeaveLock ==
  ASSUME IInv, NEW c \in Client, NEW q \in ReqState, req' = [req EXCEPT ![c] = q],
         HasLock(c), req[c].pc \in {"waiting", "querying"}, q.pc \in {"idle", "answered"},
         q.pc # "idle" => q.at \in Worker, lock' = [lock EXCEPT ![req[c].at] = Tail(@)]
  PROVE  LockInv' /\ lock' \in [Worker -> Seq(Client)]
  <1> DEFINE w == req[c].at
  <1>1. \A r \in Client : req'[r] = IF r = c THEN q ELSE req[r]
    BY DEF IInv, TypeOK
  <1>2. w \in Worker
    BY DEF IInv, LockInv, ReqInv
  <1>3. lock[w] \in Seq(Client) /\ lock[w] # <<>> /\ lock[w][1] = c
    BY <1>2 DEF IInv, TypeOK, HasLock
  <1>4. /\ lock' \in [Worker -> Seq(Client)] /\ lock'[w] = Tail(lock[w])
        /\ \A v \in Worker : v # w => lock'[v] = lock[v]
    BY <1>2, <1>3 DEF IInv, TypeOK
  <1>5. /\ Len(lock[w]) \in Nat \ {0} /\ Len(lock'[w]) = Len(lock[w]) - 1
        /\ \A i \in 1..Len(lock'[w]) : lock'[w][i] = lock[w][i+1] /\ i+1 \in 1..Len(lock[w])
    BY <1>3, <1>4
  <1>6. \A v \in Worker : \A i \in 1..Len(lock[v]) :
          lock[v][i] \in Client /\ (v # w => lock[v][i] # c)
    BY DEF IInv, TypeOK, LockInv, QueueInv
  <1>7. /\ \A i \in 1..Len(lock[w]) :
             req[lock[w][i]].at = w /\ req[lock[w][i]].pc \in {"waiting", "querying"}
        /\ \A i, j \in 1..Len(lock[w]) : i # j => lock[w][i] # lock[w][j]
    BY <1>2 DEF IInv, LockInv, QueueInv
  <1>8. \A i \in 1..Len(lock'[w]) : lock'[w][i] # c
    BY <1>3, <1>5, <1>7
  <1>9. QueueInv'
    <2> DEFINE Good(v) ==
          /\ \A i \in 1..Len(lock'[v]) :
               req'[lock'[v][i]].at = v /\ req'[lock'[v][i]].pc \in {"waiting", "querying"}
          /\ \A i, j \in 1..Len(lock'[v]) : i # j => lock'[v][i] # lock'[v][j]
    <2>1. ASSUME NEW v \in Worker, v # w PROVE Good(v)
      BY <1>1, <1>4, <1>6, <2>1 DEF IInv, LockInv, QueueInv
    <2>2. Good(w)
      <3>1. \A i \in 1..Len(lock'[w]) :
              req'[lock'[w][i]].at = w /\ req'[lock'[w][i]].pc \in {"waiting", "querying"}
        <4> SUFFICES ASSUME NEW i \in 1..Len(lock'[w])
                     PROVE  LET r == lock'[w][i] IN
                            req'[r].at = w /\ req'[r].pc \in {"waiting", "querying"}
          OBVIOUS
        <4>1. PICK k \in 1..Len(lock[w]) : lock'[w][i] = lock[w][k]
          BY <1>5
        <4>2. lock[w][k] \in Client /\ lock[w][k] # c
          BY <1>2, <1>6, <1>8, <4>1
        <4>3. req'[lock[w][k]] = req[lock[w][k]]
          BY <1>1, <4>2
        <4> QED
          BY <1>7, <4>1, <4>3
      <3>2. \A i, j \in 1..Len(lock'[w]) : i # j => lock'[w][i] # lock'[w][j]
        <4> SUFFICES ASSUME NEW i \in 1..Len(lock'[w]), NEW j \in 1..Len(lock'[w]), i # j
                     PROVE  lock'[w][i] # lock'[w][j]
          OBVIOUS
        <4>1. i+1 \in 1..Len(lock[w]) /\ j+1 \in 1..Len(lock[w]) /\ i+1 # j+1
          BY <1>5
        <4> QED
          BY <1>5, <1>7, <4>1
      <3> QED
        BY <3>1, <3>2
    <2> HIDE DEF Good, w
    <2>3. \A v \in Worker : Good(v)
      <3> SUFFICES ASSUME NEW v \in Worker PROVE Good(v)
        OBVIOUS
      <3>1. CASE v = w
        BY <2>2, <3>1
      <3> QED
        BY <2>1, <3>1
    <2> QED
      BY <2>3 DEF QueueInv, Good
  <1>10. ReqInv'
    <2>1. ASSUME NEW r \in Client, r # c, req[r].pc = "querying" PROVE HasLock(r)'
      <3>1. HasLock(r) /\ req[r].at \in Worker
        BY <2>1 DEF IInv, LockInv, ReqInv
      <3>2. req[r].at # w
        BY <2>1, OneRebuild
      <3> QED
        BY <1>1, <1>4, <2>1, <3>1, <3>2 DEF HasLock
    <2> QED
      BY <1>1, <2>1 DEF IInv, LockInv, ReqInv
  <1> QED
    BY <1>4, <1>9, <1>10 DEF LockInv

\* The answer of the holder from table v, as old as what was served at most.
LEMMA ReplyStep ==
  ASSUME IInv, NEW c \in Client, NEW g \in Graph, NEW v \in Nat, Reply(c, g, v), Release(req[c].at),
         HasLock(c), req[c].pc \in {"waiting", "querying"},
         v <= Version, served[req[c].at] <= v, req[c].quiet <= v,
         UNCHANGED <<history, told>>,
         cache' \in [Worker -> [graph : Graph, dirty : BOOLEAN, at : Nat]],
         \A w \in Worker : w # req[c].at => cache'[w] = cache[w],
         cache'[req[c].at].at = v, told[req[c].at].quiet <= v
  PROVE  IInv' /\ \A w \in Worker : served'[w] >= served[w]
  <1> DEFINE w == req[c].at
  <1>1. PICK a \in Answers(g, req[c].query) :
          req' = [req EXCEPT ![c] = [req[c] EXCEPT !.pc = "answered", !.saw = v, !.answer = a]]
    BY DEF Reply, IInv, TypeOK
  <1>2. req[c] \in ReqState /\ w \in Worker
    BY DEF IInv, TypeOK, LockInv, ReqInv
  <1>3. a \in [path : Seq(Device), links : Seq(Link)]
    BY AnswerTyped
  <1> DEFINE q == [req[c] EXCEPT !.pc = "answered", !.saw = v, !.answer = a]
  <1>4. /\ q \in ReqState /\ q.pc = "answered" /\ q.saw = v /\ q.at = w /\ q.quiet = req[c].quiet
    BY <1>2, <1>3 DEF ReqState, Pc
  <1>5. req' = [req EXCEPT ![c] = q]
    BY <1>1
  <1> HIDE DEF q
  <1>6. LockInv' /\ lock' \in [Worker -> Seq(Client)]
    BY <1>2, <1>4, <1>5, LeaveLock DEF Release
  <1>7. \A r \in Client : req'[r] = IF r = c THEN q ELSE req[r]
    BY <1>5 DEF IInv, TypeOK
  <1>8. /\ served' \in [Worker -> Nat] /\ served'[w] = v
        /\ \A x \in Worker : x # w => served'[x] = served[x]
    BY <1>2 DEF Reply, IInv, TypeOK
  <1>9. TypeOK'
    BY <1>4, <1>5, <1>6, <1>8 DEF IInv, TypeOK
  <1>10. CacheInv'
    BY <1>2, <1>8 DEF IInv, CacheInv, Version
  <1>11. \A r \in Client : r # c /\ req[r].pc = "querying" => req[r].at # w
    BY OneRebuild
  <1>12. \A r \in Client : r # c /\ req[r].pc = "querying" => req[r].at \in Worker
    BY DEF IInv, LockInv, ReqInv
  <1>13. SeenInv'
    BY <1>4, <1>7, <1>8, <1>11, <1>12 DEF IInv, SeenInv, Version
  <1>14. QuietMarkIsSeen'
    <2>1. req[c].quiet \in Nat
      BY <1>2 DEF ReqState
    <2>2. q.saw >= q.quiet
      BY <1>4, <2>1
    <2> QED
      BY <1>7, <2>2 DEF IInv, QuietMarkIsSeen, Answered
  <1>15. \A x \in Worker : served'[x] >= served[x]
    <2> SUFFICES ASSUME NEW x \in Worker PROVE served'[x] >= served[x]
      OBVIOUS
    <2>1. served[x] \in Nat
      BY DEF IInv, TypeOK
    <2>2. CASE x = w
      BY <1>8, <2>1, <2>2
    <2>3. CASE x # w
      BY <1>8, <2>1, <2>3
    <2> QED
      BY <2>2, <2>3
  <1> QED
    BY <1>6, <1>9, <1>10, <1>13, <1>14, <1>15 DEF IInv

LEMMA AnswerFromCacheStep ==
  ASSUME IInv, NEW c \in Client, AnswerFromCache(c)
  PROVE  IInv' /\ \A w \in Worker : served'[w] >= served[w]
  <1> DEFINE w == req[c].at
  <1>1. /\ req[c].pc = "waiting" /\ HasLock(c) /\ ~cache[w].dirty /\ Release(w)
        /\ Reply(c, cache[w].graph, cache[w].at) /\ UNCHANGED <<history, cache, told>>
    BY DEF AnswerFromCache
  <1>2. /\ w \in Worker /\ cache[w].graph \in Graph /\ cache[w].at \in Nat
        /\ served[w] \in Nat /\ told[w].quiet \in Nat /\ req[c].quiet \in Nat
    BY <1>1 DEF IInv, TypeOK, LockInv, ReqInv, ReqState
  <1>3. /\ cache[w].at <= Version /\ served[w] <= cache[w].at /\ told[w].quiet <= cache[w].at
    BY <1>1, <1>2 DEF IInv, CacheInv
  <1>4. req[c].quiet <= cache[w].at
    BY <1>1, <1>2, <1>3 DEF IInv, SeenInv
  <1>5. cache' \in [Worker -> [graph : Graph, dirty : BOOLEAN, at : Nat]]
    BY <1>1 DEF IInv, TypeOK
  <1>6. cache'[w].at = cache[w].at /\ \A x \in Worker : x # w => cache'[x] = cache[x]
    BY <1>1
  <1> QED
    BY <1>1, <1>2, <1>3, <1>4, <1>5, <1>6, ReplyStep

LEMMA RebuildStep ==
  ASSUME IInv, NEW c \in Client, Rebuild(c)
  PROVE  IInv' /\ \A w \in Worker : served'[w] >= served[w]
  <1> DEFINE w == req[c].at
             v == req[c].saw
  <1>1. PICK g \in GraphsOf(history[v]) :
          /\ cache' = [cache EXCEPT ![w] = [graph |-> g, dirty |-> FALSE, at |-> v]]
          /\ Reply(c, g, v)
    BY DEF Rebuild
  <1>2. req[c].pc = "querying" /\ Release(w) /\ UNCHANGED <<history, told>> /\ HasLock(c)
    BY DEF Rebuild, IInv, LockInv, ReqInv
  <1>3. /\ w \in Worker /\ v \in Nat /\ v \in 1..Version /\ Version \in Nat
        /\ served[w] <= v /\ told[w].quiet <= v /\ req[c].quiet <= told[w].quiet
    BY <1>2, CurrentTable DEF IInv, LockInv, ReqInv, SeenInv
  <1>4. g \in Graph
    BY <1>3, CurrentTable, GraphTyped DEF IInv
  <1>5. v <= Version /\ req[c].quiet <= v
    BY <1>3 DEF IInv, TypeOK, ReqState
  <1>6. cache' \in [Worker -> [graph : Graph, dirty : BOOLEAN, at : Nat]]
    BY <1>1, <1>3, <1>4 DEF IInv, TypeOK
  <1>7. cache'[w].at = v /\ \A x \in Worker : x # w => cache'[x] = cache[x]
    BY <1>1, <1>3 DEF IInv, TypeOK
  <1> HIDE DEF v
  <1> QED
    BY <1>1, <1>2, <1>3, <1>4, <1>5, <1>6, <1>7, ReplyStep

LEMMA QueryFailsStep ==
  ASSUME IInv, NEW c \in Client, QueryFails(c)
  PROVE  IInv'
  <1>1. /\ req[c].pc = "querying" /\ req' = [req EXCEPT ![c] = NoReq] /\ HasLock(c)
        /\ lock' = [lock EXCEPT ![req[c].at] = Tail(@)]
        /\ UNCHANGED <<history, cache, told, served>>
    BY DEF QueryFails, Release, IInv, LockInv, ReqInv
  <1>2. LockInv' /\ lock' \in [Worker -> Seq(Client)]
    BY <1>1, Constants, LeaveLock
  <1>3. \A r \in Client : req'[r] = IF r = c THEN NoReq ELSE req[r]
    BY <1>1 DEF IInv, TypeOK
  <1>4. TypeOK' /\ CacheInv'
    BY <1>1, <1>2, Constants DEF IInv, TypeOK, CacheInv, Version
  <1>5. SeenInv' /\ QuietMarkIsSeen'
    BY <1>1, <1>3, Constants DEF IInv, SeenInv, QuietMarkIsSeen, Answered, Version
  <1> QED
    BY <1>2, <1>4, <1>5 DEF IInv

\* A restart of a worker: its requests are gone, its cache is dirty.
LEMMA CrashStep ==
  ASSUME IInv, NEW w \in Worker, Crash(w)
  PROVE  IInv'
  <1>1. /\ cache' = [cache EXCEPT ![w] = FreshCache] /\ lock' = [lock EXCEPT ![w] = <<>>]
        /\ req' = [c \in Client |-> IF req[c].at = w THEN NoReq ELSE req[c]]
        /\ UNCHANGED <<history, told, served>>
    BY DEF Crash
  <1>2. TypeOK'
    BY <1>1, Constants DEF IInv, TypeOK
  <1>3. ReqInv'
    <2> SUFFICES ASSUME NEW r \in Client, req'[r].pc # "idle"
                 PROVE  /\ req'[r] = req[r] /\ req[r].at \in Worker
                        /\ req[r].pc = "querying" => HasLock(r)'
      BY DEF IInv, LockInv, ReqInv
    <2>1. req'[r] = req[r] /\ req[r].at # w
      BY <1>1, Constants
    <2>2. req[r].at \in Worker
      BY <2>1 DEF IInv, LockInv, ReqInv
    <2>3. lock'[req[r].at] = lock[req[r].at]
      BY <1>1, <2>1, <2>2 DEF IInv, TypeOK
    <2>4. req[r].pc = "querying" => HasLock(r)
      BY DEF IInv, LockInv, ReqInv
    <2> QED
      BY <2>1, <2>2, <2>3, <2>4 DEF HasLock
  <1>4. QueueInv'
    <2> SUFFICES ASSUME NEW v \in Worker
                 PROVE  /\ \A i \in 1..Len(lock'[v]) :
                             req'[lock'[v][i]].at = v /\ req'[lock'[v][i]].pc \in {"waiting", "querying"}
                        /\ \A i, j \in 1..Len(lock'[v]) : i # j => lock'[v][i] # lock'[v][j]
      BY DEF QueueInv
    <2>1. CASE v = w
      <3>1. lock'[v] = <<>>
        BY <1>1, <2>1 DEF IInv, TypeOK
      <3> QED
        BY <3>1
    <2>2. CASE v # w
      <3>1. lock'[v] = lock[v]
        BY <1>1, <2>2 DEF IInv, TypeOK
      <3>2. \A i \in 1..Len(lock[v]) : lock[v][i] \in Client /\ req[lock[v][i]].at = v
        BY DEF IInv, TypeOK, LockInv, QueueInv
      <3>3. \A i \in 1..Len(lock[v]) : req'[lock[v][i]] = req[lock[v][i]]
        BY <1>1, <2>2, <3>2
      <3> QED
        BY <3>1, <3>3 DEF IInv, LockInv, QueueInv
    <2> QED
      BY <2>1, <2>2
  <1>5. CacheInv'
    <2> SUFFICES ASSUME NEW v \in Worker
                 PROVE  /\ ~cache'[v].dirty => served[v] <= cache'[v].at /\ told[v].quiet <= cache'[v].at
                        /\ cache'[v].at <= Version
      BY <1>1 DEF IInv, CacheInv, Version
    <2>1. CASE v = w
      BY <1>1, <2>1, Constants, CurrentTable DEF IInv, TypeOK
    <2>2. CASE v # w
      BY <1>1, <2>2 DEF IInv, TypeOK, CacheInv
    <2> QED
      BY <2>1, <2>2
  <1>6. SeenInv' /\ QuietMarkIsSeen'
    BY <1>1, Constants DEF IInv, SeenInv, QuietMarkIsSeen, Answered, Version
  <1> QED
    BY <1>2, <1>3, <1>4, <1>5, <1>6 DEF IInv, LockInv

-----------------------------------------------------------------------------
(* The theorems *)

LEMMA NextInv == IInv /\ [Next]_vars => IInv' /\ \A w \in Worker : served'[w] >= served[w]
  <1> SUFFICES ASSUME IInv, [Next]_vars
               PROVE  IInv' /\ \A w \in Worker : served'[w] >= served[w]
    OBVIOUS
  <1>0. \A w \in Worker : served[w] >= served[w]
    BY DEF IInv, TypeOK
  <1>1. CASE UNCHANGED vars
    <2>1. IInv'
      BY <1>1 DEF vars, IInv, TypeOK, LockInv, ReqInv, QueueInv, HasLock, CacheInv, SeenInv,
                  QuietMarkIsSeen, Answered, Version
    <2> QED
      BY <1>0, <1>1, <2>1 DEF vars
  <1>2. ASSUME NEW c \in Client, Step(c)
        PROVE  IInv' /\ \A w \in Worker : served'[w] >= served[w]
    <2>1. CASE \E s \in {"active", "inactive"} : UpdateLink(c, s)
      BY <1>0, <2>1, UpdateLinkStep DEF UpdateLink
    <2>2. CASE DeleteLink(c)
      BY <1>0, <2>2, DeleteLinkStep DEF DeleteLink
    <2>3. CASE MarkDirty(c)
      BY <1>0, <2>3, MarkDirtyStep DEF MarkDirty
    <2>4. CASE RefreshFails(c)
      BY <1>0, <2>4, RefreshFailsStep DEF RefreshFails
    <2>5. CASE AnswerFromCache(c)
      BY <2>5, AnswerFromCacheStep
    <2>6. CASE QueryLinks(c)
      BY <1>0, <2>6, QueryLinksStep DEF QueryLinks
    <2>7. CASE Rebuild(c)
      BY <2>7, RebuildStep
    <2>8. CASE QueryFails(c)
      BY <1>0, <2>8, QueryFailsStep DEF QueryFails
    <2> QED
      BY <1>2, <2>1, <2>2, <2>3, <2>4, <2>5, <2>6, <2>7, <2>8 DEF Step
  <1>3. ASSUME NEW c \in Client, Request(c)
        PROVE  IInv' /\ \A w \in Worker : served'[w] >= served[w]
    <2>1. PICK w \in Worker :
            \/ \E cable \in Cable : CreateLink(c, w, cable)
            \/ \E op \in {"update", "delete"}, l \in Link : LoadLink(c, w, op, l)
            \/ \E q \in Query : GetPath(c, w, q)
      BY <1>3 DEF Request
    <2>2. CASE \E cable \in Cable : CreateLink(c, w, cable)
      BY <1>0, <2>2, CreateLinkStep DEF CreateLink
    <2>3. CASE \E op \in {"update", "delete"}, l \in Link : LoadLink(c, w, op, l)
      BY <1>0, <2>3, LoadLinkStep DEF LoadLink
    <2>4. CASE \E q \in Query : GetPath(c, w, q)
      BY <1>0, <2>4, GetPathStep DEF GetPath
    <2> QED
      BY <2>1, <2>2, <2>3, <2>4
  <1>4. ASSUME NEW w \in Worker, Crash(w)
        PROVE  IInv' /\ \A v \in Worker : served'[v] >= served[v]
    BY <1>0, <1>4, CrashStep DEF Crash
  <1> QED
    BY <1>1, <1>2, <1>3, <1>4 DEF Next

LEMMA Invariance == Spec => []IInv
  <1>1. IInv /\ [Next]_vars => IInv'
    BY NextInv
  <1> QED
    BY InitInv, <1>1, PTL DEF Spec

\* The globals of every worker and the requests keep their types, for any number
\* of workers, devices, links and requests.
THEOREM TypeCorrect == Spec => []TypeOK
  <1>1. IInv => TypeOK
    BY DEF IInv
  <1> QED
    BY Invariance, <1>1, PTL

\* topology.py:113-115: whatever fails, the lock is held by a request that is
\* still at work.
THEOREM LockIsNeverLeft == Spec => []HolderIsAtWork
  <1>1. IInv => HolderIsAtWork
    <2> SUFFICES ASSUME IInv, NEW w \in Worker, lock[w] # <<>>
                 PROVE  LET r == req[Head(lock[w])] IN
                        r.at = w /\ r.pc \in {"waiting", "querying"}
      BY DEF HolderIsAtWork
    <2>1. Head(lock[w]) = lock[w][1] /\ 1 \in 1..Len(lock[w])
      BY DEF IInv, TypeOK
    <2> QED
      BY <2>1 DEF IInv, LockInv, QueueInv
  <1> QED
    BY Invariance, <1>1, PTL

\* A write that a worker marks while it is not rebuilding its graph is behind
\* every path answer of the worker from then on.
THEOREM QuietMarksAreSeen == Spec => []QuietMarkIsSeen
  <1>1. IInv => QuietMarkIsSeen
    BY DEF IInv
  <1> QED
    BY Invariance, <1>1, PTL

\* The lock orders the rebuilds: no answer of a worker is older than one before.
THEOREM AnswersAreMonotone == Spec => AnswersNeverGoBack
  <1>1. IInv /\ [Next]_vars => [\A w \in Worker : served'[w] >= served[w]]_vars
    BY NextInv
  <1> QED
    BY Invariance, <1>1, PTL DEF Spec, AnswersNeverGoBack
-----------------------------------------------------------------------------
(* The answers are shortest paths of one state of the table *)

\* The chains of links of t, which may leave a device for itself.
Chains(t, q) ==
  {p \in UNION {[1..n -> Device] : n \in 1..Cardinality(Device)} :
     /\ p[1] = q[1] /\ p[Len(p)] = q[2]
     /\ \A i \in 1..Len(p)-1 : Between(t, {p[i], p[i+1]}) # {}}

\* What the property asks of an answer from table t.
Real(t, q, ans) ==
  /\ ans.path \in Chains(t, q) \/ (ans.path = <<>> /\ Chains(t, q) = {})
  /\ \A p \in Chains(t, q) : Len(ans.path) <= Len(p)
  /\ \A i \in 1..Len(ans.path)-1 : ans.links[i] \in Between(t, {ans.path[i], ans.path[i+1]})

LEMMA LeastNat ==
  ASSUME NEW S \in SUBSET Nat, S # {}
  PROVE  \E m \in S : \A n \in S : m <= n
  <1> DEFINE R == OpToRel(<, Nat)
  <1>1. IsWellFoundedOn(R, Nat)
    BY NatLessThanWellFounded
  <1>2. \A m, n \in Nat : <<m, n>> \in R <=> m < n
    BY DEF OpToRel
  <1> HIDE DEF R
  <1>3. PICK m \in S : \A n \in S : <<n, m>> \notin R
    BY <1>1, WFMin
  <1>4. \A n \in S : n \in Nat /\ m \in Nat /\ ~(n < m)
    BY <1>2, <1>3
  <1> QED
    BY <1>4

LEMMA ChainLen ==
  ASSUME NEW t, NEW q, NEW p \in Chains(t, q)
  PROVE  /\ Cardinality(Device) \in Nat /\ Len(p) \in 1..Cardinality(Device)
         /\ p \in [1..Len(p) -> Device]
  <1>1. Cardinality(Device) \in Nat
    BY TopologyAssumption, FS_CardinalityType
  <1>2. PICK n \in 1..Cardinality(Device) : p \in [1..n -> Device]
    BY DEF Chains
  <1>3. p \in Seq(Device) /\ Len(p) = n
    BY <1>1, <1>2
  <1> QED
    BY <1>1, <1>2, <1>3

\* A chain without its i-th step, which stays where it is, is a shorter chain.
LEMMA ShorterChain ==
  ASSUME NEW t, NEW q, NEW p \in Chains(t, q), NEW i \in 1..Len(p)-1, p[i] = p[i+1]
  PROVE  \E o \in Chains(t, q) : Len(o) < Len(p)
  <1> DEFINE n == Len(p)
             o == [j \in 1..n-1 |-> IF j <= i THEN p[j] ELSE p[j+1]]
  <1>1. /\ Cardinality(Device) \in Nat /\ n \in 1..Cardinality(Device) /\ n \in Nat
        /\ p \in [1..n -> Device] /\ i \in 1..n-1 /\ n - 1 \in 1..Cardinality(Device)
    BY ChainLen
  <1>2. p[1] = q[1] /\ p[n] = q[2] /\ \A j \in 1..n-1 : Between(t, {p[j], p[j+1]}) # {}
    BY DEF Chains
  <1>3. o \in [1..n-1 -> Device]
    BY <1>1
  <1>4. Len(o) = n - 1
    <2>1. o \in Seq(Device) /\ DOMAIN o = 1..n-1
      BY <1>1, <1>3
    <2> QED
      BY <1>1, <2>1
  <1>5. o[1] = q[1] /\ o[n-1] = q[2]
    BY <1>1, <1>2
  <1>6. ASSUME NEW j \in 1..n-2 PROVE Between(t, {o[j], o[j+1]}) # {}
    <2>1. j \in 1..n-1 /\ j+1 \in 1..n-1
      BY <1>1
    <2>2. CASE j < i
      <3>1. o[j] = p[j] /\ o[j+1] = p[j+1]
        BY <1>1, <2>1, <2>2
      <3>2. Between(t, {p[j], p[j+1]}) # {}
        BY <1>2, <2>1
      <3> QED
        BY <3>1, <3>2
    <2>3. CASE j >= i
      <3>1. o[j] = p[j+1] /\ o[j+1] = p[j+2]
        BY <1>1, <2>1, <2>3
      <3>2. (j+1)+1 = j+2
        BY <2>1
      <3> QED
        BY <1>2, <2>1, <3>1, <3>2
    <2>4. j < i \/ j >= i
      BY <1>1
    <2> HIDE DEF o
    <2> QED
      BY <2>2, <2>3, <2>4
  <1> HIDE DEF o
  <1>7. o \in Chains(t, q)
    <2>1. Len(o)-1 = n-2
      BY <1>1, <1>4
    <2>2. \A j \in 1..Len(o)-1 : Between(t, {o[j], o[j+1]}) # {}
      BY <1>6, <2>1
    <2>3. o \in UNION {[1..m -> Device] : m \in 1..Cardinality(Device)}
      BY <1>1, <1>3
    <2> QED
      BY <1>4, <1>5, <2>2, <2>3 DEF Chains
  <1> QED
    BY <1>1, <1>4, <1>7

\* If there is a chain, one of the shortest is a path of the graph.
LEMMA ShortestChain ==
  ASSUME NEW t, NEW q, NEW g \in GraphsOf(t), Chains(t, q) # {}
  PROVE  \E p \in Chains(t, q) : p \in Paths(g, q) /\ \A o \in Chains(t, q) : Len(p) <= Len(o)
  <1> DEFINE S == {Len(p) : p \in Chains(t, q)}
  <1>1. S \in SUBSET Nat /\ S # {}
    <2>1. ASSUME NEW p \in Chains(t, q) PROVE Len(p) \in Nat
      BY ChainLen
    <2> QED
      BY <2>1
  <1>2. PICK m \in S : \A n \in S : m <= n
    BY <1>1, LeastNat
  <1>3. PICK p \in Chains(t, q) : Len(p) = m
    BY <1>2
  <1>4. \A o \in Chains(t, q) : Len(p) <= Len(o)
    BY <1>2, <1>3
  <1>5. Len(p) \in Nat /\ p \in [1..Len(p) -> Device]
    BY ChainLen
  <1>6. ASSUME NEW i \in 1..Len(p)-1 PROVE {p[i], p[i+1]} \in DOMAIN g
    <2>1. p[i] # p[i+1]
      <3>1. SUFFICES ASSUME p[i] = p[i+1] PROVE FALSE
        OBVIOUS
      <3>2. PICK o \in Chains(t, q) : Len(o) < Len(p)
        BY <3>1, ShorterChain
      <3>3. Len(p) <= Len(o) /\ Len(o) \in Nat
        BY <1>4, ChainLen
      <3> QED
        BY <1>5, <3>2, <3>3
    <2>2. p[i] \in Device /\ p[i+1] \in Device
      BY <1>5
    <2>3. {p[i], p[i+1]} \in Edge
      <3>1. <<p[i], p[i+1]>> \in {d \in Device \X Device : d[1] # d[2]}
        BY <2>1, <2>2
      <3> QED
        BY <3>1 DEF Edge
    <2>4. Between(t, {p[i], p[i+1]}) # {}
      BY DEF Chains
    <2> QED
      BY <2>3, <2>4 DEF Joined, GraphsOf
  <1>7. p \in Paths(g, q)
    BY <1>6 DEF Chains, Paths
  <1> QED
    BY <1>4, <1>7

LEMMA PathsAreChains ==
  ASSUME NEW t, NEW q, NEW g \in GraphsOf(t)
  PROVE  Paths(g, q) \subseteq Chains(t, q)
  BY DEF Paths, Chains, GraphsOf, Joined

\* What is answered from a graph of table t is real in t.
LEMMA AnswerIsReal ==
  ASSUME NEW t, NEW q, NEW g \in GraphsOf(t), NEW ans \in Answers(g, q)
  PROVE  Real(t, q, ans)
  <1>1. CASE ShortestPaths(g, q) = {}
    <2>1. Chains(t, q) = {}
      <3>1. SUFFICES ASSUME Chains(t, q) # {} PROVE FALSE
        OBVIOUS
      <3>2. PICK p \in Chains(t, q) : p \in Paths(g, q) /\ \A o \in Chains(t, q) : Len(p) <= Len(o)
        BY <3>1, ShortestChain
      <3> QED
        BY <1>1, <3>2, PathsAreChains DEF ShortestPaths
    <2>2. ans.path = <<>> /\ Len(<<>>) = 0
      BY <1>1 DEF Answers, Unreachable
    <2>3. 1..Len(ans.path)-1 = {}
      BY <2>2
    <2> QED
      BY <2>1, <2>2, <2>3 DEF Real
  <1>2. CASE ShortestPaths(g, q) # {}
    <2>1. PICK p \in ShortestPaths(g, q) : ans = [path |-> p, links |-> Hops(g, p)]
      BY <1>2 DEF Answers
    <2>2. p \in Paths(g, q) /\ p \in Chains(t, q) /\ \A o \in Paths(g, q) : Len(p) <= Len(o)
      BY PathsAreChains DEF ShortestPaths
    <2>3. PICK s \in Chains(t, q) : s \in Paths(g, q) /\ \A o \in Chains(t, q) : Len(s) <= Len(o)
      BY <2>2, ShortestChain
    <2>4. ASSUME NEW o \in Chains(t, q) PROVE Len(p) <= Len(o)
      <3>1. Len(p) <= Len(s) /\ Len(s) <= Len(o)
        BY <2>2, <2>3
      <3>2. Len(p) \in Nat /\ Len(s) \in Nat /\ Len(o) \in Nat
        BY <2>2, ChainLen
      <3> QED
        BY <3>1, <3>2
    <2>5. ASSUME NEW i \in 1..Len(p)-1 PROVE Hops(g, p)[i] \in Between(t, {p[i], p[i+1]})
      <3>1. {p[i], p[i+1]} \in DOMAIN g /\ Hops(g, p)[i] = g[{p[i], p[i+1]}]
        BY <2>2 DEF Paths, Hops
      <3> QED
        BY <3>1 DEF GraphsOf
    <2>6. ans.path = p /\ ans.links = Hops(g, p)
      BY <2>1
    <2> QED
      BY <2>2, <2>4, <2>5, <2>6 DEF Real
  <1> QED
    BY <1>1, <1>2

\* A clean cache is a graph of a table, and the answers given are real.
GraphInv ==
  \A w \in Worker : ~cache[w].dirty =>
    cache[w].at \in 1..Version /\ cache[w].graph \in GraphsOf(history[cache[w].at])

AnswerInv ==
  \A r \in Answered : req[r].saw \in 1..Version /\ Real(history[req[r].saw], req[r].query, req[r].answer)

PathInv == GraphInv /\ AnswerInv

\* What was in the table is not forgotten.
LEMMA HistoryGrows ==
  ASSUME IInv, [Next]_vars
  PROVE  /\ Version' \in Nat /\ Version <= Version'
         /\ \A n \in 1..Version : n \in 1..Version' /\ history'[n] = history[n]
  <1>1. history \in Seq(Table) /\ Version \in Nat
    BY DEF IInv, TypeOK, Version
  <1>2. UNCHANGED history \/ \E t : Write(t)
    BY DEF Next, Step, Request, CreateLink, LoadLink, UpdateLink, DeleteLink, MarkDirty,
       RefreshFails, GetPath, AnswerFromCache, QueryLinks, Rebuild, QueryFails, Crash, vars
  <1>3. CASE UNCHANGED history
    BY <1>1, <1>3 DEF Version
  <1>4. CASE \E t : Write(t)
    <2>1. PICK t : history' = Append(history, t)
      BY <1>4 DEF Write
    <2> QED
      BY <1>1, <2>1 DEF Version
  <1> QED
    BY <1>2, <1>3, <1>4

\* A step that answers nobody and builds no graph.
LEMMA NoAnswer ==
  ASSUME IInv, PathInv, [Next]_vars,
         \A r \in Client : req'[r] = req[r] \/ req'[r].pc # "answered",
         \A w \in Worker : cache'[w] = cache[w] \/ cache'[w].dirty
  PROVE  PathInv'
  <1>1. GraphInv'
    BY HistoryGrows DEF PathInv, GraphInv
  <1>2. ASSUME NEW r \in Answered'
        PROVE  req'[r].saw \in 1..Version' /\ Real(history'[req'[r].saw], req'[r].query, req'[r].answer)
    <2>1. req'[r] = req[r] /\ r \in Answered
      BY <1>2 DEF Answered
    <2> QED
      BY <2>1, HistoryGrows DEF PathInv, AnswerInv
  <1> QED
    BY <1>1, <1>2 DEF PathInv, AnswerInv

\* The answer to c, from a graph of table v.
LEMMA AnswerGiven ==
  ASSUME IInv, PathInv, NEW c \in Client, NEW v \in 1..Version, NEW g \in GraphsOf(history[v]),
         Reply(c, g, v), UNCHANGED history,
         \A w \in Worker : cache'[w] = cache[w] \/ (cache'[w].at = v /\ cache'[w].graph = g)
  PROVE  PathInv'
  <1>1. PICK a \in Answers(g, req[c].query) :
          req' = [req EXCEPT ![c] = [req[c] EXCEPT !.pc = "answered", !.saw = v, !.answer = a]]
    BY DEF Reply, IInv, TypeOK
  <1>2. req[c] \in ReqState /\ req \in [Client -> ReqState]
    BY DEF IInv, TypeOK
  <1>3. /\ req'[c].saw = v /\ req'[c].answer = a /\ req'[c].query = req[c].query
        /\ \A r \in Client : r # c => req'[r] = req[r]
    BY <1>1, <1>2 DEF ReqState
  <1>4. Real(history[v], req[c].query, a)
    BY <1>1, AnswerIsReal
  <1>5. Version' = Version
    BY DEF Version
  <1>6. GraphInv'
    BY <1>5 DEF PathInv, GraphInv
  <1>7. ASSUME NEW r \in Answered'
        PROVE  req'[r].saw \in 1..Version' /\ Real(history'[req'[r].saw], req'[r].query, req'[r].answer)
    <2>1. CASE r = c
      BY <1>3, <1>4, <1>5, <2>1
    <2>2. CASE r # c
      <3>1. r \in Answered /\ req'[r] = req[r]
        BY <1>3, <1>7, <2>2 DEF Answered
      <3> QED
        BY <1>5, <3>1 DEF PathInv, AnswerInv
    <2> QED
      BY <2>1, <2>2
  <1> QED
    BY <1>6, <1>7 DEF PathInv, AnswerInv

LEMMA PathNext ==
  ASSUME IInv, PathInv, [Next]_vars
  PROVE  PathInv'
  <1>0. /\ req \in [Client -> ReqState] /\ cache \in [Worker -> [graph : Graph, dirty : BOOLEAN, at : Nat]]
        /\ NoReq.pc = "idle" /\ FreshCache.dirty
    BY Constants DEF IInv, TypeOK
  <1>1. ASSUME NEW c \in Client, NEW q, q.pc # "answered", req' = [req EXCEPT ![c] = q],
               \A w \in Worker : cache'[w] = cache[w] \/ cache'[w].dirty
        PROVE  PathInv'
    BY <1>0, <1>1, NoAnswer
  <1>2. ASSUME NEW c \in Client, AnswerFromCache(c) PROVE PathInv'
    <2> DEFINE w == req[c].at
    <2>1. /\ req[c].pc = "waiting" /\ ~cache[w].dirty /\ Reply(c, cache[w].graph, cache[w].at)
          /\ UNCHANGED <<history, cache>> /\ w \in Worker
      BY <1>2 DEF AnswerFromCache, IInv, LockInv, ReqInv
    <2>2. cache[w].at \in 1..Version /\ cache[w].graph \in GraphsOf(history[cache[w].at])
      BY <2>1 DEF PathInv, GraphInv
    <2> QED
      BY <2>1, <2>2, AnswerGiven
  <1>3. ASSUME NEW c \in Client, Rebuild(c) PROVE PathInv'
    <2> DEFINE w == req[c].at
               v == req[c].saw
    <2>1. PICK g \in GraphsOf(history[v]) :
            /\ cache' = [cache EXCEPT ![w] = [graph |-> g, dirty |-> FALSE, at |-> v]]
            /\ Reply(c, g, v)
      BY <1>3 DEF Rebuild
    <2>2. v \in 1..Version /\ UNCHANGED history
      BY <1>3 DEF Rebuild, IInv, SeenInv
    <2>3. \A x \in Worker : cache'[x] = cache[x] \/ (cache'[x].at = v /\ cache'[x].graph = g)
      BY <1>0, <2>1
    <2> QED
      BY <2>1, <2>2, <2>3, AnswerGiven
  <1>5. ASSUME NEW c \in Client, NEW w \in Worker, NEW cable \in Cable, CreateLink(c, w, cable)
        PROVE  PathInv'
    <2>1. \A r \in Client : req'[r] = req[r] \/ req'[r].pc # "answered"
      BY <1>0, <1>5 DEF CreateLink, NoReq
    <2> QED
      BY <1>5, <2>1, NoAnswer DEF CreateLink
  <1>6. ASSUME NEW c \in Client, NEW w \in Worker, NEW op, NEW l, LoadLink(c, w, op, l)
        PROVE  PathInv'
    <2>1. \A r \in Client : req'[r] = req[r] \/ req'[r].pc # "answered"
      BY <1>0, <1>6 DEF LoadLink, NoReq
    <2> QED
      BY <1>6, <2>1, NoAnswer DEF LoadLink
  <1>7. ASSUME NEW c \in Client, NEW w \in Worker, NEW x, GetPath(c, w, x)
        PROVE  PathInv'
    <2>1. \A r \in Client : req'[r] = req[r] \/ req'[r].pc # "answered"
      BY <1>0, <1>7 DEF GetPath, NoReq
    <2> QED
      BY <1>7, <2>1, NoAnswer DEF GetPath
  <1>8. ASSUME NEW c \in Client, (\E s : UpdateLink(c, s)) \/ DeleteLink(c) \/ QueryLinks(c)
        PROVE  PathInv'
    <2>1. /\ [req[c] EXCEPT !.pc = "committed"].pc = "committed"
          /\ [req[c] EXCEPT !.pc = "querying", !.saw = Version].pc = "querying"
      <3>1. req[c] \in ReqState
        BY <1>0
      <3> QED
        BY <3>1 DEF ReqState
    <2>2. \/ req' = [req EXCEPT ![c] = [req[c] EXCEPT !.pc = "committed"]]
          \/ req' = [req EXCEPT ![c] = [req[c] EXCEPT !.pc = "querying", !.saw = Version]]
          \/ req' = [req EXCEPT ![c] = NoReq]
      BY <1>8 DEF UpdateLink, DeleteLink, QueryLinks
    <2>3. \A r \in Client : req'[r] = req[r] \/ req'[r].pc # "answered"
      BY <1>0, <2>1, <2>2
    <2> QED
      BY <1>8, <2>3, NoAnswer DEF UpdateLink, DeleteLink, QueryLinks
  <1>9. ASSUME NEW c \in Client, MarkDirty(c) \/ RefreshFails(c) \/ QueryFails(c)
        PROVE  PathInv'
    <2>1. req' = [req EXCEPT ![c] = NoReq]
      BY <1>9 DEF MarkDirty, RefreshFails, QueryFails
    <2>2. \A w \in Worker : cache'[w] = cache[w] \/ cache'[w].dirty
      BY <1>0, <1>9 DEF MarkDirty, RefreshFails, QueryFails
    <2> QED
      BY <1>0, <1>1, <2>1, <2>2
  <1>10. ASSUME NEW w \in Worker, Crash(w) PROVE PathInv'
    <2>1. \A r \in Client : req'[r] = req[r] \/ req'[r].pc # "answered"
      BY <1>0, <1>10 DEF Crash
    <2>2. \A x \in Worker : cache'[x] = cache[x] \/ cache'[x].dirty
      BY <1>0, <1>10 DEF Crash
    <2> QED
      BY <2>1, <2>2, NoAnswer
  <1>11. CASE UNCHANGED vars
    BY <1>11, NoAnswer DEF vars
  <1> QED
    BY <1>2, <1>3, <1>5, <1>6, <1>7, <1>8, <1>9, <1>10, <1>11 DEF Next, Step, Request

LEMMA PathInit == Init => PathInv
  BY Constants DEF Init, PathInv, GraphInv, AnswerInv, Answered

\* Every answer of GET /topology/path is a shortest path of one state of the table,
\* for any table, however rebuilds, writes, failures and crashes interleave.
THEOREM PathsReal == Spec => []PathsAreReal
  <1>1. AnswerInv => PathsAreReal
    BY DEF AnswerInv, PathsAreReal, Real, Chains
  <1>2. IInv /\ PathInv /\ [Next]_vars => PathInv'
    BY PathNext
  <1>3. PathInv => AnswerInv
    BY DEF PathInv
  <1> QED
    BY <1>1, <1>2, <1>3, PathInit, Invariance, PTL DEF Spec
-----------------------------------------------------------------------------
(* The cache implements the path service *)

\* The service has its own copy of the library's operator.
LEMMA SameCardinality == P!Cardinality(Device) = Cardinality(Device)
  BY DEF P!Cardinality, Cardinality

\* Whatever link of each pair the graph has kept, its answers are right.
LEMMA AnswerIsRight ==
  ASSUME NEW t, NEW q, NEW g \in GraphsOf(t), NEW a \in Answers(g, q)
  PROVE  a \in P!Right(t, q)
  <1>1. P!Routes(t, q) = Chains(t, q)
    <2>1. \A d, e : P!Joining(t, d, e) = Between(t, {d, e})
      BY DEF P!Joining, Between
    <2>2. ASSUME NEW p
          PROVE  (\A i \in 1..Len(p)-1 : P!Joining(t, p[i], p[i+1]) # {})
                   <=> (\A i \in 1..Len(p)-1 : Between(t, {p[i], p[i+1]}) # {})
      BY <2>1
    <2> DEFINE Walks == UNION {[1..n -> Device] : n \in 1..Cardinality(Device)}
    <2> HIDE DEF Walks
    <2>3. ASSUME NEW p PROVE p \in P!Routes(t, q) <=> p \in Chains(t, q)
      <3>1. p \in P!Routes(t, q) <=>
              /\ p \in Walks /\ p[1] = q[1] /\ p[Len(p)] = q[2]
              /\ \A i \in 1..Len(p)-1 : P!Joining(t, p[i], p[i+1]) # {}
        BY SameCardinality, Zenon DEF P!Routes, Walks
      <3>2. p \in Chains(t, q) <=>
              /\ p \in Walks /\ p[1] = q[1] /\ p[Len(p)] = q[2]
              /\ \A i \in 1..Len(p)-1 : Between(t, {p[i], p[i+1]}) # {}
        BY Zenon DEF Chains, Walks
      <3> QED
        BY <2>2, <3>1, <3>2
    <2> QED
      BY <2>3, Zenon DEF P!Routes, Chains
  <1>2. Real(t, q, a)
    BY AnswerIsReal
  <1>3. CASE ShortestPaths(g, q) = {}
    <2>1. a = P!NoRoute /\ a.path = <<>>
      BY <1>3 DEF Answers, Unreachable, P!NoRoute
    <2>2. a.path \notin Chains(t, q)
      BY <2>1, ChainLen
    <2> QED
      BY <1>1, <1>2, <2>1, <2>2 DEF P!Right, Real
  <1>4. CASE ShortestPaths(g, q) # {}
    <2>1. PICK p \in ShortestPaths(g, q) : a = [path |-> p, links |-> Hops(g, p)]
      BY <1>4 DEF Answers
    <2>2. p \in Chains(t, q) /\ \A i \in 1..Len(p)-1 : {p[i], p[i+1]} \in DOMAIN g
      BY PathsAreChains DEF ShortestPaths, Paths
    <2>3. a.path = p /\ a.links = Hops(g, p)
      BY <2>1
    <2>4. \A o \in Chains(t, q) : Len(p) <= Len(o)
      BY <1>2, <2>3 DEF Real
    <2>5. \A i \in 1..Len(p)-1 : Hops(g, p)[i] \in P!Joining(t, p[i], p[i+1])
      BY <1>2, <2>3 DEF Real, P!Joining, Between
    <2>6. Hops(g, p) \in [1..Len(p)-1 -> Link]
      BY <2>2 DEF Hops, GraphsOf, Between
    <2> QED
      BY <1>1, <2>1, <2>2, <2>4, <2>5, <2>6 DEF P!Right
  <1> QED
    BY <1>3, <1>4

\* Who has not asked for a path, or has read the answer, asks for none.
LEMMA NotAsking ==
  ASSUME NEW r, r.pc \notin {"waiting", "querying", "answered"}
  PROVE  AskOf(r) = P!NoAsk
  BY DEF AskOf, P!NoAsk, P!AskIs, P!NoRoute, Unreachable

\* A step of the service, or none.
Serves == [P!Next]_(P!service)

LEMMA LeaveServes ==
  ASSUME IInv, NEW C \in SUBSET Client, UNCHANGED <<history, told, served>>,
         req' \in [Client -> ReqState],
         \A c \in Client : AskOf(req'[c]) = IF c \in C THEN P!NoAsk ELSE AskOf(req[c])
  PROVE  Serves
  BY DEF Serves, P!Next, P!Leave

\* A request that asks for no path now.
LEMMA DropServes ==
  ASSUME IInv, NEW c \in Client, NEW q, q.pc \notin {"waiting", "querying", "answered"},
         req' = [req EXCEPT ![c] = q], UNCHANGED <<history, told, served>>
  PROVE  Serves
  <1>1. \A r \in Client : req'[r] = IF r = c THEN q ELSE req[r]
    BY DEF IInv, TypeOK
  <1>2. \A r \in Client : AskOf(req'[r]) = IF r \in {c} THEN P!NoAsk ELSE AskOf(req[r])
    BY <1>1, NotAsking
  <1> QED
    BY <1>2 DEF Serves, P!Next, P!Leave

LEMMA WriteServes ==
  ASSUME IInv, NEW c \in Client, NEW l \in Link, NEW x \in Cable \cup {None},
         \/ x \in Cable /\ \A n \in 1..Version : history[n][l] = None
         \/ Links[l] # None,
         history' = Append(history, [Links EXCEPT ![l] = x]),
         NEW q, q.pc \notin {"waiting", "querying", "answered"},
         req' = [req EXCEPT ![c] = q], UNCHANGED <<told, served>>
  PROVE  Serves
  <1>1. \A r \in Client : req'[r] = IF r = c THEN q ELSE req[r]
    BY DEF IInv, TypeOK
  <1>2. [r \in Client |-> AskOf(req'[r])]
          = [[r \in Client |-> AskOf(req[r])] EXCEPT ![c] = P!NoAsk]
    <2>1. \A r \in Client : AskOf(req'[r]) = IF r = c THEN P!NoAsk ELSE AskOf(req[r])
      BY <1>1, NotAsking
    <2>2. [r \in Client |-> AskOf(req'[r])]
            = [r \in Client |-> IF r = c THEN P!NoAsk ELSE AskOf(req[r])]
      BY <2>1, Zenon
    <2>3. [r \in Client |-> IF r = c THEN P!NoAsk ELSE AskOf(req[r])]
            = [[r \in Client |-> AskOf(req[r])] EXCEPT ![c] = P!NoAsk]
      BY Zenon
    <2> QED
      BY <2>2, <2>3, Zenon
  <1>3. P!Write(c, l, x)
    BY <1>2 DEF P!Write, P!Now, Version, Links
  <1> QED
    BY <1>3 DEF Serves, P!Next

\* A mark outside a rebuild is noted; one during a rebuild is not.
LEMMA MarkServes ==
  ASSUME IInv, NEW c \in Client, MarkDirty(c)
  PROVE  Serves
  <1> DEFINE w == req[c].at
             quiet == IF Rebuilding(w) THEN told[w].quiet ELSE Version
  <1>1. /\ req[c].pc = "committed" /\ w \in Worker /\ UNCHANGED <<history, served>>
        /\ req' = [req EXCEPT ![c] = NoReq]
        /\ told' = [told EXCEPT ![w].any = Version, ![w].quiet = quiet]
    BY DEF MarkDirty, IInv, LockInv, ReqInv
  <1>2. /\ told \in [Worker -> [any : Nat, quiet : Nat]] /\ req \in [Client -> ReqState]
        /\ NoReq.pc = "idle"
    BY Constants DEF IInv, TypeOK
  <1> HIDE DEF quiet
  <1>3. \A v \in Worker : told'[v].quiet = IF v = w THEN quiet ELSE told[v].quiet
    BY <1>1, <1>2
  <1>4. \A r \in Client : AskOf(req'[r]) = AskOf(req[r])
    BY <1>1, <1>2, NotAsking
  <1>5. CASE Rebuilding(w)
    <2>1. \A v \in Worker : told'[v].quiet = told[v].quiet
      BY <1>3, <1>5 DEF quiet
    <2> QED
      BY <1>1, <1>4, <2>1 DEF Serves, P!service
  <1>6. CASE ~Rebuilding(w)
    <2>1. [v \in Worker |-> told'[v].quiet]
            = [v \in Worker |-> IF v = w THEN Version ELSE told[v].quiet]
      BY <1>3, <1>6 DEF quiet
    <2>2. [v \in Worker |-> IF v = w THEN Version ELSE told[v].quiet]
            = [[v \in Worker |-> told[v].quiet] EXCEPT ![w] = Version]
      BY Zenon
    <2>3. [r \in Client |-> AskOf(req'[r])] = [r \in Client |-> AskOf(req[r])]
      BY <1>4, Zenon
    <2>4. PICK v \in Worker : v = w
      BY <1>1
    <2>5. [u \in Worker |-> told'[u].quiet]
            = [[u \in Worker |-> told[u].quiet] EXCEPT ![v] = Version]
      BY <2>1, <2>2, <2>4
    <2>6. P!Note(v)
      BY <1>1, <2>3, <2>5, Zenon DEF P!Note, P!Now, Version
    <2> QED
      BY <2>6 DEF Serves, P!Next
  <1> QED
    BY <1>5, <1>6

LEMMA AskServes ==
  ASSUME IInv, NEW c \in Client, NEW w \in Worker, NEW x \in Query, GetPath(c, w, x)
  PROVE  Serves
  <1> DEFINE q == [NoReq EXCEPT !.pc = "waiting", !.op = "path", !.at = w, !.query = x,
                                !.quiet = told[w].quiet]
             asked == P!AskIs("asked", w, x, 0, P!NoRoute)
  <1>1. req' = [req EXCEPT ![c] = q] /\ UNCHANGED <<history, told, served>>
    BY DEF GetPath
  <1>2. req \in [Client -> ReqState]
    BY DEF IInv, TypeOK
  <1>3. q.pc = "waiting" /\ q.at = w /\ q.query = x
    BY DEF NoReq
  <1>4. AskOf(q) = asked
    BY <1>3 DEF AskOf, P!AskIs, P!NoRoute, Unreachable
  <1> HIDE DEF q, asked
  <1>5. [r \in Client |-> AskOf(req'[r])]
          = [r \in Client |-> IF r = c THEN asked ELSE AskOf(req[r])]
    BY <1>1, <1>2, <1>4
  <1>6. [r \in Client |-> IF r = c THEN asked ELSE AskOf(req[r])]
          = [[r \in Client |-> AskOf(req[r])] EXCEPT ![c] = asked]
    BY Zenon
  <1>7. P!Ask(c, w, x)
    BY <1>1, <1>5, <1>6 DEF P!Ask, asked
  <1> QED
    BY <1>7 DEF Serves, P!Next

\* An answer from a graph of table v, which its worker may answer from.
LEMMA AnswerServes ==
  ASSUME IInv, NEW c \in Client, req[c].pc \in {"waiting", "querying"},
         NEW v \in 1..Version, NEW g \in GraphsOf(history[v]), Reply(c, g, v),
         served[req[c].at] <= v, told[req[c].at].quiet <= v, UNCHANGED <<history, told>>
  PROVE  Serves
  <1> DEFINE w == req[c].at
             ask == [r \in Client |-> AskOf(req[r])]
  <1>1. PICK a \in Answers(g, req[c].query) :
          req' = [req EXCEPT ![c] = [req[c] EXCEPT !.pc = "answered", !.saw = v, !.answer = a]]
    BY DEF Reply, IInv, TypeOK
  <1> DEFINE q == [req[c] EXCEPT !.pc = "answered", !.saw = v, !.answer = a]
             answered == P!AskIs("answered", w, req[c].query, v, a)
  <1>2. req[c] \in ReqState /\ req \in [Client -> ReqState] /\ w \in Worker
    BY DEF IInv, TypeOK, LockInv, ReqInv
  <1>3. q.pc = "answered" /\ q.at = w /\ q.query = req[c].query /\ q.saw = v /\ q.answer = a
    BY <1>2 DEF ReqState
  <1>4. AskOf(q) = answered /\ ask[c].state = "asked" /\ ask[c].at = w /\ ask[c].query = req[c].query
    BY <1>3 DEF AskOf, P!AskIs
  <1>5. a \in P!Right(history[v], req[c].query)
    BY <1>1, AnswerIsRight
  <1> HIDE DEF q, answered
  <1>6. [r \in Client |-> AskOf(req'[r])]
          = [r \in Client |-> IF r = c THEN answered ELSE AskOf(req[r])]
    BY <1>1, <1>2, <1>4 DEF q
  <1>7. [r \in Client |-> IF r = c THEN answered ELSE AskOf(req[r])] = [ask EXCEPT ![c] = answered]
    BY Zenon
  <1>8. served' = [served EXCEPT ![w] = v] /\ v \in Nat /\ served[w] \in Nat /\ told[w].quiet \in Nat
    BY <1>2 DEF Reply, IInv, TypeOK
  <1>9. v >= served[w] /\ v >= [x \in Worker |-> told[x].quiet][w]
    BY <1>2, <1>8
  <1>10. [r \in Client |-> AskOf(req'[r])] = [ask EXCEPT ![c] = answered]
    BY <1>6, <1>7
  <1>11. [x \in Worker |-> told'[x].quiet] = [x \in Worker |-> told[x].quiet]
    OBVIOUS
  <1> HIDE DEF ask, w
  <1>12. P!Answer(c, v)
    BY <1>4, <1>5, <1>8, <1>9, <1>10, <1>11 DEF P!Answer, answered, ask
  <1> QED
    BY <1>12 DEF Serves, P!Next, P!Now, Version

LEMMA PathStepServes ==
  ASSUME IInv, PathInv, NEW c \in Client, AnswerFromCache(c) \/ QueryLinks(c) \/ Rebuild(c) \/ QueryFails(c)
  PROVE  Serves
  <1> DEFINE w == req[c].at
  <1>1. req[c].pc \in {"waiting", "querying"} /\ w \in Worker /\ req \in [Client -> ReqState]
    BY DEF AnswerFromCache, QueryLinks, Rebuild, QueryFails, IInv, TypeOK, LockInv, ReqInv
  <1>2. CASE AnswerFromCache(c)
    <2>1. ~cache[w].dirty /\ Reply(c, cache[w].graph, cache[w].at) /\ UNCHANGED <<history, told>>
      BY <1>2 DEF AnswerFromCache
    <2>2. cache[w].at \in 1..Version /\ cache[w].graph \in GraphsOf(history[cache[w].at])
      BY <1>1, <2>1 DEF PathInv, GraphInv
    <2>3. served[w] <= cache[w].at /\ told[w].quiet <= cache[w].at
      BY <1>1, <2>1 DEF IInv, CacheInv
    <2> QED
      BY <1>1, <2>1, <2>2, <2>3, AnswerServes
  <1>3. CASE Rebuild(c)
    <2>1. PICK g \in GraphsOf(history[req[c].saw]) : Reply(c, g, req[c].saw)
      BY <1>3 DEF Rebuild
    <2>2. req[c].pc = "querying" /\ UNCHANGED <<history, told>>
      BY <1>3 DEF Rebuild
    <2>3. req[c].saw \in 1..Version /\ served[w] <= req[c].saw /\ told[w].quiet <= req[c].saw
      BY <2>2 DEF IInv, SeenInv
    <2> QED
      BY <1>1, <2>1, <2>2, <2>3, AnswerServes
  <1>4. CASE QueryLinks(c)
    <2> DEFINE q == [req[c] EXCEPT !.pc = "querying", !.saw = Version]
    <2>1. req' = [req EXCEPT ![c] = q] /\ UNCHANGED <<history, told, served>> /\ req[c].pc = "waiting"
      BY <1>4 DEF QueryLinks
    <2>2. q.pc = "querying" /\ q.at = w /\ q.query = req[c].query
      BY <1>1 DEF ReqState
    <2>3. AskOf(q) = AskOf(req[c])
      BY <2>1, <2>2 DEF AskOf
    <2> HIDE DEF q
    <2>4. \A r \in Client : AskOf(req'[r]) = AskOf(req[r])
      BY <1>1, <2>1, <2>3
    <2> QED
      BY <2>1, <2>4 DEF Serves, P!service
  <1>5. CASE QueryFails(c)
    BY <1>5, Constants, DropServes DEF QueryFails
  <1> QED
    BY <1>2, <1>3, <1>4, <1>5

LEMMA LinkStepServes ==
  ASSUME IInv, NEW c \in Client,
         (\E s \in {"active", "inactive"} : UpdateLink(c, s)) \/ DeleteLink(c) \/ RefreshFails(c)
  PROVE  Serves
  <1> DEFINE l == req[c].link
             q == [req[c] EXCEPT !.pc = "committed"]
  <1>1. CASE RefreshFails(c)
    BY <1>1, Constants, DropServes DEF RefreshFails
  <1>2. CASE req[c].pc = "loaded" /\ req' = [req EXCEPT ![c] = q] /\ UNCHANGED <<history, told, served>>
    BY <1>2, CommittedReq, DropServes
  <1>3. ASSUME NEW s \in {"active", "inactive"}, UpdateLink(c, s)
        PROVE  Serves
    <2>1. req[c].pc = "loaded" /\ UNCHANGED <<told, served>>
      BY <1>3 DEF UpdateLink
    <2>2. CASE Links[l] # None /\ Write([Links EXCEPT ![l].status = s]) /\ req' = [req EXCEPT ![c] = q]
      <3>1. l \in Link /\ q.pc = "committed"
        BY <2>1, CommittedReq
      <3>2. Links[l] \in Cable
        BY <2>2, <3>1, CurrentTable DEF IInv, Table
      <3>3. PICK x \in Cable : x = [Links[l] EXCEPT !.status = s]
        BY <3>2 DEF Cable
      <3>4. history' = Append(history, [Links EXCEPT ![l] = x])
        BY <2>2, <3>3 DEF Write
      <3> HIDE DEF q, l
      <3> QED
        BY <2>1, <2>2, <3>1, <3>4, WriteServes
    <2>3. CASE req' = [req EXCEPT ![c] = NoReq] /\ UNCHANGED history
      BY <2>1, <2>3, Constants, DropServes
    <2> QED
      BY <1>3, <2>2, <2>3 DEF UpdateLink
  <1>4. CASE DeleteLink(c)
    <2>1. req[c].pc = "loaded" /\ UNCHANGED <<told, served>> /\ req' = [req EXCEPT ![c] = q]
      BY <1>4 DEF DeleteLink
    <2>2. CASE Links[l] # None /\ history' = Append(history, [Links EXCEPT ![l] = None])
      <3>1. l \in Link /\ q.pc = "committed"
        BY <2>1, CommittedReq
      <3> HIDE DEF q, l
      <3> QED
        BY <2>1, <2>2, <3>1, WriteServes
    <2>3. CASE UNCHANGED history
      BY <1>2, <2>1, <2>3
    <2> QED
      BY <1>4, <2>2, <2>3 DEF DeleteLink, Write
  <1> QED
    BY <1>1, <1>3, <1>4

LEMMA RequestServes ==
  ASSUME IInv, NEW c \in Client, Request(c)
  PROVE  Serves
  <1>1. ASSUME NEW w \in Worker, NEW cable \in Cable, CreateLink(c, w, cable)
        PROVE  Serves
    <2> DEFINE l == CHOOSE k \in NewLinks : TRUE
               q == [NoReq EXCEPT !.pc = "committed", !.op = "create", !.at = w, !.link = l]
    <2>1. l \in Link /\ \A n \in 1..Version : history[n][l] = None
      BY <1>1 DEF CreateLink, NewLinks
    <2>2. q.pc = "committed"
      BY DEF NoReq
    <2>3. /\ history' = Append(history, [Links EXCEPT ![l] = cable])
          /\ req' = [req EXCEPT ![c] = q] /\ UNCHANGED <<told, served>>
      BY <1>1 DEF CreateLink, Write
    <2> HIDE DEF l, q
    <2> QED
      BY <2>1, <2>2, <2>3, WriteServes
  <1>2. ASSUME NEW w \in Worker, NEW op \in {"update", "delete"}, NEW l \in Link, LoadLink(c, w, op, l)
        PROVE  Serves
    <2> DEFINE q == [NoReq EXCEPT !.pc = "loaded", !.op = op, !.at = w, !.link = l]
    <2>1. q.pc = "loaded" /\ req' = [req EXCEPT ![c] = q] /\ UNCHANGED <<history, told, served>>
      BY <1>2 DEF LoadLink, NoReq
    <2> HIDE DEF q
    <2> QED
      BY <2>1, DropServes
  <1> QED
    BY <1>1, <1>2, AskServes DEF Request

\* A restart drops the path requests of its worker, and nothing else of the service.
LEMMA CrashServes ==
  ASSUME IInv, NEW w \in Worker, Crash(w)
  PROVE  Serves
  <1> DEFINE C == {c \in Client : req[c].at = w}
  <1>1. /\ UNCHANGED <<history, told, served>>
        /\ req' = [c \in Client |-> IF req[c].at = w THEN NoReq ELSE req[c]]
    BY DEF Crash
  <1>2. req' \in [Client -> ReqState] /\ AskOf(NoReq) = P!NoAsk
    BY <1>1, Constants, NotAsking DEF IInv, TypeOK
  <1>3. \A c \in Client : AskOf(req'[c]) = IF c \in C THEN P!NoAsk ELSE AskOf(req[c])
    BY <1>1, <1>2
  <1> QED
    BY <1>1, <1>2, <1>3, LeaveServes

LEMMA StepServes ==
  ASSUME IInv, PathInv, [Next]_vars
  PROVE  Serves
  <1>1. CASE UNCHANGED vars
    BY <1>1 DEF vars, Serves, P!service
  <1>2. ASSUME NEW c \in Client, Step(c) PROVE Serves
    BY <1>2, LinkStepServes, MarkServes, PathStepServes DEF Step
  <1> QED
    BY <1>1, <1>2, RequestServes, CrashServes DEF Next

LEMMA InitServes == Init => P!Init
  <1> SUFFICES ASSUME Init PROVE P!Init
    OBVIOUS
  <1>1. \A w \in Worker : told[w].quiet = 0
    BY DEF Init
  <1>2. \A c \in Client : AskOf(req[c]) = P!NoAsk
    BY NotAsking, Constants DEF Init
  <1> QED
    BY <1>1, <1>2 DEF Init, P!Init

\* Cache, lock, rebuilds, failures and restarts cannot be told from the outside:
\* every answer of GET /topology/path is one that the service may give.
THEOREM ServesPaths == Spec => ImplementsPathService
  <1>1. IInv /\ PathInv /\ [Next]_vars => [P!Next]_(P!service)
    BY StepServes DEF Serves
  <1>2. IInv /\ PathInv /\ [Next]_vars => PathInv'
    BY PathNext
  <1> QED
    BY <1>1, <1>2, InitServes, PathInit, Invariance, PTL DEF Spec, ImplementsPathService, P!Spec
-----------------------------------------------------------------------------
(* What the service promises holds of the cache *)

LEMMA GoneStep ==
  ASSUME IInv, P!DeletedIsGone, [Next]_vars, Serves
  PROVE  P!DeletedIsGone'
  <1>1. CASE UNCHANGED history
    BY <1>1 DEF P!DeletedIsGone, P!Now
  <1>2. ASSUME NEW c \in Client, NEW x \in Link, NEW v \in Cable \cup {None}, P!Write(c, x, v)
        PROVE  P!DeletedIsGone'
    <2>1. /\ history \in Seq(Table) /\ Version \in Nat \ {0} /\ Links \in Table
      BY CurrentTable DEF IInv, TypeOK
    <2>2. /\ history' = Append(history, [Links EXCEPT ![x] = v]) /\ Version' = Version + 1
          /\ \A n \in 1..Version : history'[n] = history[n]
          /\ history'[Version + 1] = [Links EXCEPT ![x] = v]
      BY <1>2, <2>1 DEF P!Write, P!Now, Version, Links
    <2>3. (\A n \in 1..Version : history[n][x] = None) \/ Links[x] # None
      BY <1>2 DEF P!Write, P!Now, Version, Links
    <2>4. ASSUME NEW l \in Link, NEW m \in 1..Version + 1, NEW n \in 1..Version + 1,
                 m < n, history'[m][l] # None, history'[n][l] = None, NEW k \in n..Version + 1
          PROVE  history'[k][l] = None
      <3>1. CASE n = Version + 1
        BY <2>1, <2>4, <3>1
      <3>2. CASE n \in 1..Version
        <4>1. m \in 1..Version /\ history[m][l] # None /\ history[n][l] = None
          <5>1. m \in 1..Version
            BY <2>1, <2>4, <3>2
          <5>2. history'[m] = history[m] /\ history'[n] = history[n]
            BY <2>2, <3>2, <5>1
          <5> QED
            BY <2>4, <5>1, <5>2
        <4>2. \A i \in n..Version : history[i][l] = None
          BY <2>4, <3>2, <4>1 DEF P!DeletedIsGone, P!Now, Version
        <4>3. Links[l] = None
          BY <2>1, <3>2, <4>2 DEF Links
        <4>4. l # x
          BY <2>3, <4>1, <4>3
        <4>5. [Links EXCEPT ![x] = v][l] = None
          BY <2>1, <4>3, <4>4 DEF Table
        <4>6. CASE k = Version + 1
          BY <2>2, <4>5, <4>6
        <4>7. CASE k \in n..Version
          <5>1. k \in 1..Version
            BY <2>1, <3>2, <4>7
          <5> QED
            BY <2>2, <4>2, <4>7, <5>1
        <4>8. k = Version + 1 \/ k \in n..Version
          BY <2>1, <2>4, <3>2
        <4> QED
          BY <4>6, <4>7, <4>8
      <3> QED
        BY <2>1, <3>1, <3>2
    <2> QED
      BY <2>2, <2>4 DEF P!DeletedIsGone, P!Now, Version
  <1>3. UNCHANGED history \/ \E c \in Client, x \in Link, v \in Cable \cup {None} : P!Write(c, x, v)
    BY DEF Serves, P!Next, P!service, P!Note, P!Ask, P!Answer, P!Leave
  <1> QED
    BY <1>1, <1>2, <1>3

LEMMA RightStep ==
  ASSUME IInv, P!AnswersAreRight, [Next]_vars, Serves
  PROVE  P!AnswersAreRight'
  <1> DEFINE ask == [c \in Client |-> AskOf(req[c])]
             RightIn(a, h) == a.saw \in 1..Len(h) /\ a.answer \in P!Right(h[a.saw], a.query)
  <1>1. \A c \in Client : ask[c].state = "answered" => RightIn(ask[c], history)
    BY DEF P!AnswersAreRight, P!Now
  <1>2. \A c \in Client : \/ ask'[c] = ask[c] \/ ask'[c] = P!NoAsk
                          \/ \E w, q : ask'[c] = P!AskIs("asked", w, q, 0, P!NoRoute)
                          \/ \E w, q, v, a : /\ ask'[c] = P!AskIs("answered", w, q, v, a)
                                             /\ v \in 1..Version /\ a \in P!Right(history[v], q)
    <2>1. CASE UNCHANGED P!service
      BY <2>1 DEF P!service
    <2>2. ASSUME NEW c \in Client, NEW l, NEW x, P!Write(c, l, x)
          PROVE  ask' = [ask EXCEPT ![c] = P!NoAsk]
      BY <2>2 DEF P!Write
    <2>3. ASSUME NEW w, P!Note(w)
          PROVE  ask' = ask
      BY <2>3 DEF P!Note
    <2>4. ASSUME NEW c \in Client, NEW w, NEW q, P!Ask(c, w, q)
          PROVE  ask' = [ask EXCEPT ![c] = P!AskIs("asked", w, q, 0, P!NoRoute)]
      BY <2>4 DEF P!Ask
    <2>5. ASSUME NEW c \in Client, NEW v \in 1..Version, P!Answer(c, v)
          PROVE  \E a \in P!Right(history[v], ask[c].query) :
                   ask' = [ask EXCEPT ![c] = P!AskIs("answered", ask[c].at, ask[c].query, v, a)]
      BY <2>5 DEF P!Answer
    <2>6. ASSUME NEW C \in SUBSET Client, P!Leave(C)
          PROVE  ask' = [c \in Client |-> IF c \in C THEN P!NoAsk ELSE ask[c]]
      BY <2>6 DEF P!Leave
    <2> HIDE DEF ask
    <2>7. DOMAIN ask = Client
      BY DEF ask
    <2> QED
      BY <2>1, <2>2, <2>3, <2>4, <2>5, <2>6, <2>7 DEF Serves, P!Next, P!Now, Version
  <1>3. \A n \in 1..Len(history) : n \in 1..Len(history') /\ history'[n] = history[n]
    BY HistoryGrows DEF Version
  <1>4. ASSUME NEW c \in Client, ask'[c].state = "answered"
        PROVE  RightIn(ask'[c], history')
    <2>1. CASE ask'[c] = ask[c]
      <3>1. RightIn(ask[c], history)
        BY <1>1, <1>4, <2>1
      <3> QED
        BY <1>3, <2>1, <3>1
    <2>2. CASE ask'[c] = P!NoAsk
      BY <1>4, <2>2 DEF P!NoAsk, P!AskIs
    <2>3. CASE \E w, q : ask'[c] = P!AskIs("asked", w, q, 0, P!NoRoute)
      BY <1>4, <2>3 DEF P!AskIs
    <2>4. ASSUME NEW w, NEW q, NEW v \in 1..Version, NEW a \in P!Right(history[v], q),
                 ask'[c] = P!AskIs("answered", w, q, v, a)
          PROVE  RightIn(ask'[c], history')
      <3>1. ask'[c].saw = v /\ ask'[c].answer = a /\ ask'[c].query = q
        BY <2>4 DEF P!AskIs
      <3>2. v \in 1..Len(history') /\ history'[v] = history[v]
        BY <1>3 DEF Version
      <3> QED
        BY <3>1, <3>2
    <2> QED
      BY <1>2, <2>1, <2>2, <2>3, <2>4
  <1> QED
    BY <1>4 DEF P!AnswersAreRight, P!Now

\* A link that is gone from the table does not return, whatever updates and
\* deletes of it interleave.
COROLLARY DeletedLinksAreGone == Spec => []P!DeletedIsGone
  <1>1. Init => P!DeletedIsGone
    BY DEF Init, P!DeletedIsGone, P!Now
  <1>2. IInv /\ PathInv /\ P!DeletedIsGone /\ [Next]_vars => P!DeletedIsGone'
    BY StepServes, GoneStep
  <1>3. IInv /\ PathInv /\ [Next]_vars => PathInv'
    BY PathNext
  <1> QED
    BY <1>1, <1>2, <1>3, PathInit, Invariance, PTL DEF Spec

\* The answers under way are right for a state of the links, hop by hop.
COROLLARY PathAnswersAreRight == Spec => []P!AnswersAreRight
  <1>1. Init => P!AnswersAreRight
    BY NotAsking, Constants DEF Init, P!AnswersAreRight, P!NoAsk, P!AskIs
  <1>2. IInv /\ PathInv /\ P!AnswersAreRight /\ [Next]_vars => P!AnswersAreRight'
    BY StepServes, RightStep
  <1>3. IInv /\ PathInv /\ [Next]_vars => PathInv'
    BY PathNext
  <1> QED
    BY <1>1, <1>2, <1>3, PathInit, Invariance, PTL DEF Spec
=============================================================================
