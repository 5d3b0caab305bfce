---------------------------- MODULE PathService ----------------------------
(***************************************************************************)
(* What GET /topology/path promises, with no graph, cache, lock, rebuild   *)
(* or endpoint: links are written one at a time and a deleted one never    *)
(* returns; a path answer is a shortest path of one state of the links, no *)
(* older than the last answer of its worker and than every write that the  *)
(* worker has noted.  Nobody is promised an answer.  TopologyCache         *)
(* implements this service.                                                *)
(***************************************************************************)
EXTENDS Integers, Sequences, FiniteSets

CONSTANTS Worker, Client, Device, Link, Query, None,
          Cable      \* what a link may be: [ends, status]

VARIABLES history,   \* the states of the links so far
          noted,     \* per worker: the state that its answers have to reach
          served,    \* per worker: the state behind its last answer
          ask        \* the path requests

service == <<history, noted, served, ask>>

Now == Len(history)

Joining(t, d, e) ==
  {l \in Link : t[l] # None /\ t[l].status # "inactive" /\ {t[l].ends[1], t[l].ends[2]} = {d, e}}

Routes(t, q) ==
  {p \in UNION {[1..n -> Device] : n \in 1..Cardinality(Device)} :
     /\ p[1] = q[1] /\ p[Len(p)] = q[2]
     /\ \A i \in 1..Len(p)-1 : Joining(t, p[i], p[i+1]) # {}}

NoRoute == [path |-> <<>>, links |-> <<>>]

\* Any of the shortest routes, over any of the links of each hop.
Right(t, q) ==
  LET routes   == Routes(t, q)
      Hops(p)  == {h \in [1..Len(p)-1 -> Link] :
                     \A i \in 1..Len(p)-1 : h[i] \in Joining(t, p[i], p[i+1])}
      shortest == {p \in routes : \A o \in routes : Len(p) <= Len(o)}
  IN IF routes = {} THEN {NoRoute}
     ELSE UNION {{[path |-> p, links |-> h] : h \in Hops(p)} : p \in shortest}

AskIs(state, w, q, v, a) == [state |-> state, at |-> w, query |-> q, saw |-> v, answer |-> a]

NoAsk == AskIs("none", None, None, 0, NoRoute)

Init ==
  /\ history = <<[l \in Link |-> None]>>
  /\ noted = [w \in Worker |-> 0]
  /\ served = [w \in Worker |-> 0]
  /\ ask = [c \in Client |-> NoAsk]

\* A client creates, changes or deletes link l.
Write(c, l, x) ==
  /\ \/ x \in Cable /\ \A n \in 1..Now : history[n][l] = None
     \/ x \in Cable \cup {None} /\ history[Now][l] # None
  /\ history' = Append(history, [history[Now] EXCEPT ![l] = x])
  /\ ask' = [ask EXCEPT ![c] = NoAsk]
  /\ UNCHANGED <<noted, served>>

Note(w) ==
  /\ UNCHANGED <<history, served, ask>>
  /\ noted' = [noted EXCEPT ![w] = Now]

Ask(c, w, q) ==
  /\ UNCHANGED <<history, noted, served>>
  /\ ask' = [ask EXCEPT ![c] = AskIs("asked", w, q, 0, NoRoute)]

Answer(c, v) ==
  LET w == ask[c].at IN
  /\ UNCHANGED <<history, noted>>
  /\ ask[c].state = "asked"
  /\ v >= served[w] /\ v >= noted[w]
  /\ served' = [served EXCEPT ![w] = v]
  /\ \E a \in Right(history[v], ask[c].query) :
       ask' = [ask EXCEPT ![c] = AskIs("answered", w, ask[c].query, v, a)]

\* Requests fail, or their answers have been read.
Leave(C) ==
  /\ UNCHANGED <<history, noted, served>>
  /\ ask' = [c \in Client |-> IF c \in C THEN NoAsk ELSE ask[c]]

Next ==
  /\ service' # service
  /\ \/ \E C \in SUBSET Client : Leave(C)
     \/ \E w \in Worker : Note(w)
     \/ \E c \in Client, w \in Worker, q \in Query : Ask(c, w, q)
     \/ \E c \in Client, v \in 1..Now : Answer(c, v)
     \/ \E c \in Client, l \in Link, x \in Cable \cup {None} : Write(c, l, x)

Spec == Init /\ [][Next]_service

-----------------------------------------------------------------------------
(* Properties *)

\* Every answer is right for a state that the links have been in.
AnswersAreRight ==
  \A c \in Client : ask[c].state = "answered" =>
    ask[c].saw \in 1..Now /\ ask[c].answer \in Right(history[ask[c].saw], ask[c].query)

\* An update that races with a delete (links.py:142, 177) does not bring the
\* link back: what has been deleted is never seen again.
DeletedIsGone ==
  \A l \in Link, m, n \in 1..Now :
    m < n /\ history[m][l] # None /\ history[n][l] = None =>
      \A k \in n..Now : history[k][l] = None
=============================================================================
