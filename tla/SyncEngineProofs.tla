-------------------------- MODULE SyncEngineProofs --------------------------
(***************************************************************************)
(* Proofs about SyncEngine, for any number of integrations, overlapping    *)
(* runs, machines and devices: type correctness; at most one open alert    *)
(* per device and an audit log that agrees with the devices, as long as    *)
(* nobody posts alerts of type "other" by hand; an open alert for each     *)
(* overwrite, as long as nobody closes one; one device per machine, as     *)
(* long as no two runs insert the same machine at once; and, as long as    *)
(* runs do not overlap, an inventory that is the report, and a machine     *)
(* that stays in it while it is reported.                                  *)
(*                                                                         *)
(* The first three rest on the row lock: a run looks for an open alert     *)
(* only when it has flushed its change of the device, and from then until  *)
(* its commit no other run can insert an alert for the device.             *)
(***************************************************************************)
EXTENDS SyncEngine, FiniteSetTheorems, TLAPS

-----------------------------------------------------------------------------
(* The inductive invariant *)

\* What a run knows at each of its steps.
RunInv(r) == LET R == run[r] IN
  /\ \A n \in R.todo : R.rep[n] # None
  /\ R.pc \in {"new", "found", "flushed"} => R.node \in Node /\ R.rep[R.node] # None
  /\ R.pc \in {"found", "flushed"} => R.dev \in Dev /\ dev[R.dev] # None
  /\ R.pc = "found" => R.snap \in Row
  /\ R.pc = "flushed" => R.pend[R.dev] # None
  /\ \A d \in Dev : R.pend[d] # None => dev[d] # None
  /\ \A d \in R.stale : dev[d] # None
  /\ R.stale # {} => R.pc = "mark"

RunsInv == \A r \in Run : RunInv(r)

IInv == TypeOK /\ RunsInv

\* Uncommitted versions of a device belong to one session.
Locks == \A r, q \in Run, d \in Dev : r # q /\ run[r].pend[d] # None => run[q].pend[d] = None

UniqueOpen == \A d \in Dev : \A a, b \in OpenAlerts(d) : a = b

\* A run that is about to insert an alert knows that none is open.
NoneOpen ==
  \A r \in Run : run[r].pc = "flushed" /\ run[r].tell /\ run[r].note = None =>
    OpenAlerts(run[r].dev) = {}

AlertInv == post = NoPost /\ Locks /\ UniqueOpen /\ NoneOpen

AuditInv ==
  /\ AuditMatches
  /\ \A r \in Run, d \in Dev : run[r].pend[d] # None => run[r].pend[d].logged = run[r].pend[d].val

-----------------------------------------------------------------------------
(* Facts about the operators of the model *)

LEMMA Constants ==
  /\ NoRun \in RunState /\ NoRun.pc = "idle" /\ NoRun.todo = {} /\ NoRun.stale = {}
  /\ \A d \in Dev : NoRun.pend[d] = None
  /\ NoPending \in [Dev -> Row \cup {None}] /\ \A d \in Dev : NoPending[d] = None
  /\ NoPost \in [dev : Dev \cup {None}, alert : Alert \cup {None}, reopen : BOOLEAN]
  BY DEF NoRun, RunState, Report, NoPending, NoPost

LEMMA Distinct ==
  /\ \A x \in Row : x # None
  /\ \A a \in AlertRow : a # None
  /\ None \notin Val /\ None \notin Node /\ None \notin Dev /\ None \notin Alert
  BY SyncEngineAssumption

LEMMA Types ==
  ASSUME TypeOK, NEW r \in Run
  PROVE  /\ run[r] \in RunState /\ run[r].pend \in [Dev -> Row \cup {None}]
         /\ run[r].rep \in Report /\ run[r].stale \subseteq Dev /\ run[r].seen \subseteq Node
         /\ run[r].todo \subseteq Node
         /\ run \in [Run -> RunState] /\ dev \in [Dev -> Row \cup {None}]
  BY DEF TypeOK, RunState

\* An existing device is a row in the eyes of every session.
LEMMA ViewRow ==
  ASSUME TypeOK, NEW r \in Run, NEW d \in Dev
  PROVE  /\ View(r, d) \in Row \cup {None}
         /\ dev[d] # None => View(r, d) \in Row
  BY Types DEF View

LEMMA OneElement ==
  ASSUME NEW S, \A a, b \in S : a = b
  PROVE  Cardinality(S) <= 1
  <1>1. CASE S = {}
    BY <1>1, FS_EmptySet
  <1>2. ASSUME NEW x \in S PROVE Cardinality(S) <= 1
    <2>1. S = {x}
      BY <1>2
    <2> QED
      BY <2>1, FS_Singleton
  <1> QED
    BY <1>1, <1>2

LEMMA OneOrNoneMember ==
  ASSUME NEW S
  PROVE  (S = {} /\ OneOrNone(S) = None) \/ OneOrNone(S) \in S
  BY DEF OneOrNone

-----------------------------------------------------------------------------
(* Type correctness *)

\* A run that moves on within its transaction.
LEMMA RunMove ==
  ASSUME IInv, NEW r \in Run, NEW q \in RunState,
         run' = [run EXCEPT ![r] = q], UNCHANGED dev,
         RunInv(r)', source' \in [Src -> Report], UNCHANGED <<alert, post>>
  PROVE  IInv'
  <1>1. TypeOK'
    BY DEF IInv, TypeOK
  <1>2. RunsInv'
    BY DEF IInv, TypeOK, RunsInv, RunInv
  <1> QED
    BY <1>1, <1>2 DEF IInv

\* A run that ends or commits: no device vanishes.
LEMMA RunCommit ==
  ASSUME IInv, NEW r \in Run, NEW q \in RunState, NEW D \in [Dev -> Row \cup {None}],
         run' = [run EXCEPT ![r] = q], dev' = D, \A d \in Dev : dev[d] # None => D[d] # None,
         q.pc \in {"idle", "next", "done"}, q.todo \subseteq run[r].todo, q.rep = run[r].rep \/ q.todo = {},
         \A d \in Dev : q.pend[d] = None, q.stale = {},
         alert' \in [Alert -> AlertRow \cup {None}], UNCHANGED <<source, post>>
  PROVE  IInv'
  <1>1. TypeOK'
    BY DEF IInv, TypeOK
  <1>2. \A s \in Run : s # r => run'[s] = run[s]
    BY DEF IInv, TypeOK
  <1>3. run'[r] = q
    BY DEF IInv, TypeOK
  <1>4. ASSUME NEW s \in Run, s # r PROVE RunInv(s)'
    <2>1. \A d \in Dev : dev[d] # None => dev'[d] # None
      OBVIOUS
    <2>2. run[s].stale \subseteq Dev
      BY Types DEF IInv
    <2> QED
      BY <1>2, <1>4, <2>1, <2>2 DEF IInv, RunsInv, RunInv
  <1>5. RunInv(r)'
    BY <1>3 DEF IInv, RunsInv, RunInv
  <1> QED
    BY <1>1, <1>4, <1>5 DEF IInv, RunsInv

LEMMA BeginStep ==
  ASSUME IInv, NEW r \in Run, NEW i \in Src, Begin(r, i)
  PROVE  IInv'
  <1> DEFINE q == [NoRun EXCEPT !.pc = "next", !.rep = source[i],
                     !.todo = {n \in Node : source[i][n] # None}]
  <1>1. source[i] \in Report
    BY DEF IInv, TypeOK
  <1>2. /\ q \in RunState /\ q.pc = "next" /\ q.stale = {} /\ q.rep = source[i]
        /\ q.todo = {n \in Node : source[i][n] # None} /\ \A d \in Dev : q.pend[d] = None
    BY <1>1 DEF NoRun, RunState
  <1>3. run' = [run EXCEPT ![r] = q] /\ UNCHANGED <<source, dev, alert, post>>
    BY DEF Begin
  <1> HIDE DEF q
  <1>4. RunInv(r)'
    BY <1>2, <1>3 DEF RunInv, IInv, TypeOK
  <1> QED
    BY <1>2, <1>3, <1>4, RunMove DEF IInv, TypeOK

LEMMA LookupStep ==
  ASSUME IInv, NEW r \in Run, Lookup(r)
  PROVE  IInv'
  <1> DEFINE R == run[r]
  <1>1. /\ R \in RunState /\ R.rep \in Report /\ RunInv(r)
        /\ UNCHANGED <<source, dev, alert, post>>
    BY Types DEF IInv, RunsInv, Lookup
  <1>2. PICK n \in R.todo : run' = [run EXCEPT ![r] = LookedUp(r, n)]
    BY DEF Lookup
  <1>3. n \in Node /\ R.rep[n] # None /\ R.pc = "next"
    BY <1>1, <1>2 DEF RunInv, RunState, Lookup
  <1> DEFINE D == Match(r, n)
             q == LookedUp(r, n)
  <1>4. \A d \in D : d \in Dev /\ dev[d] # None /\ View(r, d) \in Row
    <2>1. \A d \in D : d \in Dev /\ View(r, d) # None
      BY DEF Match
    <2>2. \A d \in D : dev[d] # None
      BY <1>1, <2>1 DEF View, RunInv
    <2> QED
      BY <2>1, <2>2, ViewRow DEF IInv
  <1> HIDE DEF D
  <1>5. OneOrNone(D) \in Dev \cup {None} /\ (D # {} => OneOrNone(D) \in D)
    BY <1>4, OneOrNoneMember
  <1>6. q \in RunState
    <2>1. CASE Cardinality(D) > 1
      BY <1>1, <2>1 DEF RunState, LookedUp, D
    <2>2. CASE ~(Cardinality(D) > 1) /\ D = {}
      BY <1>1, <1>3, <1>5, <2>2 DEF RunState, LookedUp, D
    <2>3. CASE ~(Cardinality(D) > 1) /\ D # {}
      <3>1. View(r, OneOrNone(D)) \in Row
        BY <1>4, <1>5, <2>3
      <3> QED
        BY <1>1, <1>3, <1>5, <2>3, <3>1 DEF RunState, LookedUp, D
    <2> QED
      BY <2>1, <2>2, <2>3
  <1>7. /\ q.rep = R.rep /\ q.todo \subseteq R.todo /\ q.pend = R.pend /\ q.stale = R.stale
        /\ \/ q.pc = "next"
           \/ q.pc = "new" /\ q.node = n
           \/ /\ q.pc = "found" /\ q.node = n /\ q.dev \in D /\ q.snap = View(r, q.dev)
    BY <1>1, <1>3, <1>5 DEF RunState, LookedUp, D
  <1>8. run' = [run EXCEPT ![r] = q]
    BY <1>2
  <1> HIDE DEF q
  <1>9. RunInv(r)'
    BY <1>1, <1>3, <1>4, <1>7, <1>8, Types DEF RunInv, IInv
  <1> QED
    BY <1>1, <1>6, <1>8, <1>9, RunMove DEF IInv, TypeOK

\* What a flush makes of a device is a row.
LEMMA FlushRow ==
  ASSUME IInv, NEW r \in Run, run[r].pc = "found"
  PROVE  /\ Updated(r) \in Row /\ Flushed(r) \in Row
         /\ Updated(r).logged = View(r, run[r].dev).logged
         /\ Flushed(r).logged = Audited(r)
         /\ Flushed(r).val = IF Overwrites(r) THEN run[r].rep[run[r].node]
                             ELSE View(r, run[r].dev).val
  <1> DEFINE R == run[r]
  <1>1. /\ R.node \in Node /\ R.rep[R.node] \in Val /\ R.snap \in Row
        /\ View(r, R.dev) \in Row
    BY Types, ViewRow DEF IInv, RunsInv, RunInv, Report
  <1>2. Reported(r) \in DeviceStatus
    BY DEF Reported, StatusOf, DeviceStatus
  <1>3. Audited(r) \in Val
    BY <1>1 DEF Audited, Row
  <1>4. Updated(r) \in Row
    BY <1>1, <1>2 DEF Updated, Row
  <1>5. Flushed(r) \in Row
    BY <1>1, <1>3, <1>4 DEF Flushed, Row
  <1>6. /\ Updated(r).logged = View(r, R.dev).logged
        /\ Updated(r).val = IF Overwrites(r) THEN R.rep[R.node] ELSE View(r, R.dev).val
    BY <1>1 DEF Updated, Row
  <1>7. Flushed(r).logged = Audited(r) /\ Flushed(r).val = Updated(r).val
    BY <1>4 DEF Flushed, Row
  <1> QED
    BY <1>4, <1>5, <1>6, <1>7

LEMMA FlushStep ==
  ASSUME IInv, NEW r \in Run, Flush(r)
  PROVE  IInv'
  <1> DEFINE R == run[r]
             d == R.dev
             q == AfterFlush(r)
  <1>1. /\ R \in RunState /\ R.rep \in Report /\ RunInv(r) /\ R.pc = "found"
        /\ R.pend \in [Dev -> Row \cup {None}]
        /\ d \in Dev /\ dev[d] # None /\ Updated(r) \in Row /\ Flushed(r) \in Row
        /\ run' = [run EXCEPT ![r] = q] /\ UNCHANGED <<source, dev, alert, post>>
    BY Types, FlushRow DEF IInv, RunsInv, Flush, RunInv
  <1>2. ASSUME NEW x \in Row
        PROVE  /\ [R.pend EXCEPT ![d] = x] \in [Dev -> Row \cup {None}]
               /\ \A e \in Dev : [R.pend EXCEPT ![d] = x][e] # None => dev[e] # None
               /\ [R.pend EXCEPT ![d] = x][d] # None
    BY <1>1, Distinct DEF RunInv
  <1>3. OneOrNone(ToUpdate(r)) \in Alert \cup {None} /\ Overwrites(r) \in BOOLEAN
    BY OneOrNoneMember DEF ToUpdate, OpenAlerts, AlertsOf, Overwrites
  <1>4. /\ q \in RunState /\ q.rep = R.rep /\ q.todo = R.todo /\ q.stale = R.stale
        /\ \/ q.pc = "next" /\ q.pend = [R.pend EXCEPT ![d] = Updated(r)]
           \/ /\ q.pc = "flushed" /\ q.pend = [R.pend EXCEPT ![d] = Flushed(r)]
              /\ q.dev = d /\ q.node = R.node
    <2> DEFINE p1 == [R.pend EXCEPT ![d] = Updated(r)]
               p2 == [R.pend EXCEPT ![d] = Flushed(r)]
    <2>1. p1 \in [Dev -> Row \cup {None}] /\ p2 \in [Dev -> Row \cup {None}]
      BY <1>1, <1>2
    <2>2. q = IF Cardinality(ToUpdate(r)) > 1
              THEN [R EXCEPT !.pc = "next", !.err = TRUE, !.pend = p1,
                             !.node = None, !.dev = None, !.snap = None]
              ELSE [R EXCEPT !.pc = "flushed", !.pend = p2, !.tell = Overwrites(r),
                             !.note = OneOrNone(ToUpdate(r))]
      BY DEF AfterFlush
    <2> HIDE DEF p1, p2, q
    <2>3. /\ q \in RunState /\ q.rep = R.rep /\ q.todo = R.todo /\ q.stale = R.stale
          /\ \/ q.pc = "next" /\ q.pend = p1
             \/ q.pc = "flushed" /\ q.pend = p2 /\ q.dev = d /\ q.node = R.node
      BY <1>1, <1>3, <2>1, <2>2 DEF RunState
    <2> QED
      BY <2>3 DEF p1, p2
  <1> HIDE DEF q
  <1>5. RunInv(r)'
    <2>1. \A e \in Dev : q.pend[e] # None => dev[e] # None
      BY <1>1, <1>2, <1>4
    <2>2. q.pc = "flushed" => q.pend[d] # None
      BY <1>1, <1>2, <1>4
    <2> QED
      BY <1>1, <1>4, <2>1, <2>2, Types DEF RunInv, IInv
  <1> QED
    BY <1>1, <1>4, <1>5, RunMove DEF IInv, TypeOK

LEMMA CommittedRows ==
  ASSUME IInv, NEW r \in Run
  PROVE  /\ Committed(r) \in [Dev -> Row \cup {None}]
         /\ \A d \in Dev : dev[d] # None => Committed(r)[d] \in Row
  BY ViewRow DEF Committed, IInv

\* The run after it is done with a node, and the run that is given up.
LEMMA DoneRun ==
  ASSUME IInv, NEW r \in Run, run[r].node \in Node, run[r].stale = {}, NodeDone(r)
  PROVE  \E q \in RunState :
           /\ run' = [run EXCEPT ![r] = q] /\ q.pc = "next" /\ q.rep = run[r].rep
           /\ q.todo = run[r].todo /\ q.stale = {} /\ \A d \in Dev : q.pend[d] = None
  <1> DEFINE q == AfterNode(r)
  <1>1. run[r] \in RunState
    BY Types DEF IInv
  <1>2. /\ q \in RunState /\ q.pc = "next" /\ q.rep = run[r].rep
        /\ q.todo = run[r].todo /\ q.stale = {} /\ q.pend = NoPending
    BY <1>1, Constants DEF RunState, AfterNode
  <1>3. run' = [run EXCEPT ![r] = q]
    BY DEF NodeDone
  <1> HIDE DEF q
  <1> QED
    BY <1>2, <1>3, Constants

LEMMA BreakStep ==
  ASSUME IInv, NEW r \in Run, Break(r), UNCHANGED <<source, dev, alert, post>>
  PROVE  IInv'
  BY RunCommit, Constants DEF Break, IInv, TypeOK

LEMMA NewAlert ==
  ASSUME TypeOK, NEW a \in Alert, NEW d \in Dev
  PROVE  [alert EXCEPT ![a] = [dev |-> d, acked |-> FALSE]] \in [Alert -> AlertRow \cup {None}]
  BY DEF TypeOK, AlertRow

LEMMA CommitStep ==
  ASSUME IInv, NEW r \in Run, Commit(r)
  PROVE  IInv'
  <1>1. CASE run[r].note # None /\ alert[run[r].note] = None
    BY <1>1, BreakStep DEF Commit
  <1>2. CASE ~(run[r].note # None /\ alert[run[r].note] = None)
    <2>1. /\ run[r].node \in Node /\ run[r].dev \in Dev /\ run[r].stale = {}
          /\ NodeDone(r) /\ dev' = Committed(r) /\ UNCHANGED <<source, post>>
      BY <1>2 DEF Commit, IInv, RunsInv, RunInv
    <2>2. alert' \in [Alert -> AlertRow \cup {None}]
      <3>1. \/ alert' = alert
            \/ \E a \in Alert :
                 alert' = [alert EXCEPT ![a] = [dev |-> run[r].dev, acked |-> FALSE]]
        BY <1>2 DEF Commit, FreshAlert
      <3>2. alert \in [Alert -> AlertRow \cup {None}]
        BY DEF IInv, TypeOK
      <3>3. ASSUME NEW a \in Alert,
                   alert' = [alert EXCEPT ![a] = [dev |-> run[r].dev, acked |-> FALSE]]
            PROVE  alert' \in [Alert -> AlertRow \cup {None}]
        <4>1. TypeOK
          BY DEF IInv
        <4> QED
          BY <2>1, <3>3, <4>1, NewAlert
      <3> QED
        BY <3>1, <3>2, <3>3
    <2>3. PICK q \in RunState :
            /\ run' = [run EXCEPT ![r] = q] /\ q.pc = "next" /\ q.rep = run[r].rep
            /\ q.todo = run[r].todo /\ q.stale = {} /\ \A d \in Dev : q.pend[d] = None
      BY <2>1, DoneRun
    <2>4. \A d \in Dev : dev[d] # None => Committed(r)[d] # None
      BY CommittedRows, Distinct
    <2> QED
      BY <2>1, <2>2, <2>3, <2>4, CommittedRows, RunCommit
  <1> QED
    BY <1>1, <1>2

LEMMA NewRowIsRow ==
  ASSUME NEW n \in Node, NEW v \in Val
  PROVE  NewRow(n, v) \in Row /\ NewRow(n, v).val = v /\ NewRow(n, v).logged = v
  BY DEF NewRow, Row, StatusOf, DeviceStatus

LEMMA CommitNewStep ==
  ASSUME IInv, NEW r \in Run, CommitNew(r)
  PROVE  IInv'
  <1> DEFINE n == run[r].node
             x == NewRow(n, run[r].rep[n])
  <1>1. /\ n \in Node /\ run[r].rep[n] \in Val /\ run[r].stale = {} /\ NodeDone(r)
        /\ UNCHANGED <<source, alert, post>>
    BY Types DEF CommitNew, IInv, RunsInv, RunInv, Report
  <1>2. x \in Row /\ x # None
    BY <1>1, NewRowIsRow, Distinct
  <1>3. PICK d \in Dev : dev' = [Committed(r) EXCEPT ![d] = x]
    BY DEF CommitNew
  <1> HIDE DEF x
  <1>4. /\ dev' \in [Dev -> Row \cup {None}]
        /\ \A e \in Dev : dev[e] # None => dev'[e] # None
    BY <1>2, <1>3, CommittedRows, Distinct
  <1>5. PICK q \in RunState :
          /\ run' = [run EXCEPT ![r] = q] /\ q.pc = "next" /\ q.rep = run[r].rep
          /\ q.todo = run[r].todo /\ q.stale = {} /\ \A e \in Dev : q.pend[e] = None
    BY <1>1, DoneRun
  <1>6. alert' \in [Alert -> AlertRow \cup {None}]
    BY <1>1 DEF IInv, TypeOK
  <1> QED
    BY <1>1, <1>4, <1>5, <1>6, RunCommit

LEMMA MarkSelectStep ==
  ASSUME IInv, NEW r \in Run, MarkSelect(r)
  PROVE  IInv'
  <1> DEFINE q == [run[r] EXCEPT !.pc = "mark", !.stale = Stale(r)]
  <1>1. run[r] \in RunState /\ RunInv(r)
    BY Types DEF IInv, RunsInv
  <1>2. Stale(r) \subseteq Dev /\ \A d \in Stale(r) : dev[d] # None
    BY <1>1 DEF Stale, View, RunInv
  <1>3. /\ q \in RunState /\ q.pc = "mark" /\ q.rep = run[r].rep /\ q.todo = run[r].todo
        /\ q.pend = run[r].pend /\ q.stale = Stale(r)
    BY <1>1, <1>2 DEF RunState
  <1>4. run' = [run EXCEPT ![r] = q] /\ UNCHANGED <<source, dev, alert, post>>
    BY DEF MarkSelect
  <1> HIDE DEF q
  <1>5. RunInv(r)'
    BY <1>1, <1>2, <1>3, <1>4, Types DEF RunInv, IInv
  <1> QED
    BY <1>3, <1>4, <1>5, RunMove DEF IInv, TypeOK

\* A device that a run deactivates keeps its other columns.
LEMMA MarkedRow ==
  ASSUME IInv, NEW r \in Run, NEW d \in Dev
  PROVE  /\ Marked(r, d) \in Row \cup {None}
         /\ dev[d] # None => Marked(r, d) \in Row
         /\ Marked(r, d) # None => /\ View(r, d) \in Row
                                   /\ Marked(r, d).val = View(r, d).val
                                   /\ Marked(r, d).logged = View(r, d).logged
  <1>1. d \in run[r].stale => dev[d] # None
    BY DEF IInv, RunsInv, RunInv
  <1>2. View(r, d) \in Row \cup {None} /\ (dev[d] # None => View(r, d) \in Row)
    BY ViewRow DEF IInv
  <1>3. ASSUME NEW x \in Row
        PROVE  LET y == [x EXCEPT !.status = "inactive"] IN
               y \in Row /\ y.val = x.val /\ y.logged = x.logged
    BY DEF Row, DeviceStatus
  <1> QED
    BY <1>1, <1>2, <1>3 DEF Marked

LEMMA MarkCommitStep ==
  ASSUME IInv, NEW r \in Run, MarkCommit(r)
  PROVE  IInv'
  <1> DEFINE q == AfterMark(r)
             D == [d \in Dev |-> Marked(r, d)]
  <1>1. /\ q \in RunState /\ q.pc = "done" /\ q.rep = run[r].rep /\ q.todo = run[r].todo
        /\ q.stale = {} /\ q.pend = NoPending
    BY Types, Constants DEF IInv, RunState, AfterMark
  <1>2. D \in [Dev -> Row \cup {None}] /\ \A d \in Dev : dev[d] # None => D[d] # None
    BY MarkedRow, Distinct
  <1>3. run' = [run EXCEPT ![r] = q] /\ dev' = D /\ UNCHANGED <<source, alert, post>>
    BY DEF MarkCommit
  <1>4. alert' \in [Alert -> AlertRow \cup {None}]
    BY <1>3 DEF IInv, TypeOK
  <1>5. /\ \A d \in Dev : q.pend[d] = None
        /\ q.pc \in {"idle", "next", "done"} /\ q.todo \subseteq run[r].todo
    BY <1>1, Constants
  <1> HIDE DEF q, D
  <1> QED
    BY <1>1, <1>2, <1>3, <1>4, <1>5, RunCommit

\* The endpoints and the environment leave the runs and the devices alone.
LEMMA OthersStep ==
  ASSUME IInv, UNCHANGED <<dev, run>>, source' \in [Src -> Report],
         alert' \in [Alert -> AlertRow \cup {None}],
         post' \in [dev : Dev \cup {None}, alert : Alert \cup {None}, reopen : BOOLEAN]
  PROVE  IInv'
  BY DEF IInv, TypeOK, RunsInv, RunInv

LEMMA EndpointStep ==
  ASSUME IInv,
         \/ \E a \in Alert : Acknowledge(a) \/ DeleteAlert(a)
         \/ \E d \in Dev : PostSelect(d)
         \/ PostCommit
  PROVE  IInv'
  <1> DEFINE Alerts == [Alert -> AlertRow \cup {None}]
  <1>1. /\ source \in [Src -> Report] /\ alert \in Alerts
        /\ post \in [dev : Dev \cup {None}, alert : Alert \cup {None}, reopen : BOOLEAN]
    BY DEF IInv, TypeOK
  <1>2. \A x \in AlertRow, b \in BOOLEAN : [x EXCEPT !.acked = b] \in AlertRow
    BY DEF AlertRow
  <1>3. ASSUME NEW a \in Alert, alert[a] # None, NEW b \in BOOLEAN
        PROVE  [alert EXCEPT ![a].acked = b] \in Alerts
    BY <1>1, <1>2, <1>3
  <1>4. ASSUME NEW a \in Alert, Acknowledge(a) \/ DeleteAlert(a) PROVE IInv'
    <2>1. alert' \in Alerts
      BY <1>1, <1>3, <1>4 DEF Acknowledge, DeleteAlert
    <2> QED
      BY <1>1, <1>4, <2>1, OthersStep DEF Acknowledge, DeleteAlert
  <1>5. ASSUME NEW d \in Dev, PostSelect(d) PROVE IInv'
    <2>1. OneOrNone(AlertsOf(d)) \in Alert \cup {None}
      BY OneOrNoneMember DEF AlertsOf
    <2>2. OneOrNone(AlertsOf(d)) # None => alert[OneOrNone(AlertsOf(d))].acked \in BOOLEAN
      BY <1>1, OneOrNoneMember DEF AlertsOf, AlertRow
    <2> QED
      BY <1>1, <1>5, <2>1, <2>2, OthersStep DEF PostSelect
  <1>6. CASE PostCommit
    <2>1. post' \in [dev : Dev \cup {None}, alert : Alert \cup {None}, reopen : BOOLEAN]
      BY <1>6, Constants DEF PostCommit
    <2>2. CASE post.alert = None
      <3>1. PICK a \in Alert : alert' = [alert EXCEPT ![a] = [dev |-> post.dev, acked |-> FALSE]]
        BY <1>6, <2>2 DEF PostCommit, FreshAlert
      <3>2. post.dev \in Dev
        BY <1>1, <1>6 DEF PostCommit
      <3> QED
        BY <1>1, <1>6, <2>1, <3>1, <3>2, NewAlert, OthersStep DEF PostCommit, IInv
    <2>3. CASE post.alert # None
      BY <1>1, <1>3, <1>6, <2>1, <2>3, OthersStep DEF PostCommit
    <2> QED
      BY <2>2, <2>3
  <1> QED
    BY <1>4, <1>5, <1>6

LEMMA EnvironmentStep ==
  ASSUME IInv,
         \/ \E i \in Src, n \in Node, v \in Val \cup {None} : SourceChanges(i, n, v)
         \/ Crash
  PROVE  IInv'
  <1>1. ASSUME NEW i \in Src, NEW n \in Node, NEW v \in Val \cup {None}, SourceChanges(i, n, v)
        PROVE  IInv'
    BY <1>1, OthersStep DEF SourceChanges, IInv, TypeOK, Report
  <1>2. CASE Crash
    <2>1. TypeOK'
      BY <1>2, Constants DEF Crash, IInv, TypeOK
    <2>2. RunsInv'
      BY <1>2, Constants DEF Crash, RunsInv, RunInv
    <2> QED
      BY <2>1, <2>2 DEF IInv
  <1> QED
    BY <1>1, <1>2

LEMMA InvInit == Init => IInv
  BY Constants DEF Init, IInv, TypeOK, RunsInv, RunInv, Report

LEMMA InvNext == IInv /\ [Next]_vars => IInv'
  <1> SUFFICES ASSUME IInv, [Next]_vars PROVE IInv'
    OBVIOUS
  <1>1. ASSUME NEW r \in Run, RunStep(r) \/ DatabaseError(r) PROVE IInv'
    <2>1. CASE Finish(r) \/ DatabaseError(r)
      BY <2>1, BreakStep DEF Finish, DatabaseError, Break
    <2> QED
      BY <1>1, <2>1, LookupStep, FlushStep, CommitStep, CommitNewStep, MarkSelectStep,
         MarkCommitStep DEF RunStep
  <1>2. CASE UNCHANGED vars
    BY <1>2, OthersStep DEF vars, IInv, TypeOK
  <1> QED
    BY <1>1, <1>2, BeginStep, EndpointStep, EnvironmentStep DEF Next

LEMMA Inductive == Spec => []IInv
  BY InvInit, InvNext, PTL DEF Spec

\* The tables, the runs and the request are well typed in every state.
THEOREM TypeCorrect == Spec => []TypeOK
  <1>1. IInv => TypeOK
    BY DEF IInv
  <1> QED
    BY <1>1, Inductive, PTL

-----------------------------------------------------------------------------
(* At most one open alert for a device *)

\* A step of a run that opens no alert, updates only unlocked devices, and is
\* about to insert an alert only where none is open.
LEMMA QuietStep ==
  ASSUME IInv, AlertInv, NEW r \in Run, NEW q,
         run' = [run EXCEPT ![r] = q], UNCHANGED post,
         \A d \in Dev : q.pend[d] # None => run[r].pend[d] # None \/ Unlocked(r, d),
         \A d \in Dev : OpenAlerts(d)' \subseteq OpenAlerts(d),
         q.pc = "flushed" /\ q.tell /\ q.note = None =>
           q.dev \in Dev /\ OpenAlerts(q.dev) = {}
  PROVE  AlertInv'
  <1>1. run'[r] = q /\ \A s \in Run : s # r => run'[s] = run[s]
    BY Types DEF IInv
  <1>2. Locks'
    BY <1>1 DEF AlertInv, Locks, Unlocked
  <1>3. UniqueOpen'
    BY DEF AlertInv, UniqueOpen
  <1>4. ASSUME NEW s \in Run, run'[s].pc = "flushed", run'[s].tell, run'[s].note = None,
               NEW e, e = run'[s].dev
        PROVE  OpenAlerts(e)' = {}
    <2>1. e \in Dev /\ OpenAlerts(e) = {}
      BY <1>1, <1>4 DEF AlertInv, NoneOpen, IInv, RunsInv, RunInv
    <2> QED
      BY <2>1
  <1>5. NoneOpen'
    BY <1>4 DEF NoneOpen, OpenAlerts, AlertsOf
  <1> QED
    BY <1>2, <1>3, <1>5 DEF AlertInv

\* The alert that a commit inserts is the only open one of its device, and no
\* other run is about to insert one for that device.
LEMMA InsertStep ==
  ASSUME IInv, AlertInv, NEW r \in Run, NEW a \in Alert, alert[a] = None,
         run[r].pc = "flushed", run[r].tell, run[r].note = None, NodeDone(r), UNCHANGED post,
         alert' = [alert EXCEPT ![a] = [dev |-> run[r].dev, acked |-> FALSE]]
  PROVE  AlertInv'
  <1>1. /\ run[r].dev \in Dev /\ run[r].pend[run[r].dev] # None
        /\ OpenAlerts(run[r].dev) = {}
    BY DEF IInv, RunsInv, RunInv, AlertInv, NoneOpen
  <1>2. /\ run'[r].pc = "next" /\ \A d \in Dev : run'[r].pend[d] = None
        /\ \A s \in Run : s # r => run'[s] = run[s]
    BY Types, Constants DEF NodeDone, AfterNode, IInv, RunState
  <1>3. /\ alert'[a] = [dev |-> run[r].dev, acked |-> FALSE]
        /\ \A b \in Alert : b # a => alert'[b] = alert[b]
    BY DEF IInv, TypeOK
  <1>4. \A d \in Dev : d # run[r].dev => OpenAlerts(d)' = OpenAlerts(d)
    BY <1>3 DEF OpenAlerts, AlertsOf
  <1>5. ASSUME NEW d \in Dev, d = run[r].dev, NEW b \in OpenAlerts(d)' PROVE b = a
    BY <1>1, <1>3, <1>5 DEF OpenAlerts, AlertsOf
  <1>6. UniqueOpen'
    <2>1. ASSUME NEW d \in Dev, NEW b \in OpenAlerts(d)', NEW c \in OpenAlerts(d)'
          PROVE  b = c
      BY <1>2, <1>4, <1>5 DEF AlertInv, UniqueOpen
    <2> QED
      BY <2>1 DEF UniqueOpen
  <1>7. Locks'
    BY <1>2 DEF AlertInv, Locks
  <1>8. ASSUME NEW s \in Run, run'[s].pc = "flushed", run'[s].tell, run'[s].note = None,
               NEW e, e = run'[s].dev
        PROVE  OpenAlerts(e)' = {}
    <2>1. s # r /\ run'[s] = run[s]
      BY <1>2, <1>8
    <2>2. e \in Dev /\ run[s].pend[e] # None /\ OpenAlerts(e) = {}
      BY <1>8, <2>1 DEF IInv, RunsInv, RunInv, AlertInv, NoneOpen
    <2>3. e # run[r].dev
      BY <1>1, <2>1, <2>2 DEF AlertInv, Locks
    <2> QED
      BY <1>4, <2>2, <2>3
  <1>9. NoneOpen'
    BY <1>8 DEF NoneOpen, OpenAlerts, AlertsOf
  <1> QED
    BY <1>6, <1>7, <1>9 DEF AlertInv

LEMMA UnchangedAlerts ==
  ASSUME UNCHANGED alert
  PROVE  \A d \in Dev : OpenAlerts(d)' \subseteq OpenAlerts(d)
  BY DEF OpenAlerts, AlertsOf

LEMMA MoveStep ==
  ASSUME IInv, AlertInv, NEW r \in Run, NEW q,
         run' = [run EXCEPT ![r] = q], UNCHANGED <<alert, post>>, q.pc # "flushed",
         \A d \in Dev : q.pend[d] # None => run[r].pend[d] # None
  PROVE  AlertInv'
  BY UnchangedAlerts, QuietStep

\* The session is clean after a commit.
LEMMA NodeDoneStep ==
  ASSUME IInv, AlertInv, NEW r \in Run, NodeDone(r), UNCHANGED <<alert, post>>
  PROVE  AlertInv'
  <1>1. /\ AfterNode(r).pc # "flushed"
        /\ \A d \in Dev : AfterNode(r).pend[d] # None => run[r].pend[d] # None
    BY Constants, Types DEF IInv, AfterNode, RunState
  <1>2. PICK q : q = AfterNode(r)
    OBVIOUS
  <1>3. run' = [run EXCEPT ![r] = q]
    BY <1>2 DEF NodeDone
  <1>4. q.pc # "flushed" /\ \A d \in Dev : q.pend[d] # None => run[r].pend[d] # None
    BY <1>1, <1>2
  <1> QED
    BY <1>3, <1>4, MoveStep

LEMMA AlertRunStep ==
  ASSUME IInv, AlertInv, NEW r \in Run, RunStep(r) \/ DatabaseError(r)
  PROVE  AlertInv'
  <1>0. /\ run[r] \in RunState /\ run[r].pend \in [Dev -> Row \cup {None}]
        /\ run[r].pc = "found" => run[r].dev \in Dev
    BY Types DEF IInv, RunsInv, RunInv
  <1>1. CASE Lookup(r)
    <2>1. PICK n \in run[r].todo : run' = [run EXCEPT ![r] = LookedUp(r, n)]
      BY <1>1 DEF Lookup
    <2>2. LookedUp(r, n).pend = run[r].pend /\ LookedUp(r, n).pc # "flushed"
      BY <1>0, <1>1 DEF LookedUp, RunState, Lookup
    <2>3. PICK q : q = LookedUp(r, n)
      OBVIOUS
    <2>4. /\ run' = [run EXCEPT ![r] = q] /\ q.pc # "flushed" /\ q.pend = run[r].pend
          /\ UNCHANGED <<alert, post>>
      BY <1>1, <2>1, <2>2, <2>3 DEF Lookup
    <2> QED
      BY <2>4, MoveStep
  <1>2. CASE Flush(r)
    <2> DEFINE d == run[r].dev
    <2>1. /\ d \in Dev /\ Unlocked(r, d) /\ run' = [run EXCEPT ![r] = AfterFlush(r)]
          /\ UNCHANGED <<alert, post>>
      BY <1>0, <1>2 DEF Flush
    <2>2. /\ \E x : AfterFlush(r).pend = [run[r].pend EXCEPT ![d] = x]
          /\ AfterFlush(r).pc = "flushed" =>
               /\ AfterFlush(r).tell = Overwrites(r) /\ AfterFlush(r).dev = d
               /\ AfterFlush(r).note = OneOrNone(ToUpdate(r))
      BY <1>0 DEF AfterFlush, RunState
    <2>3. AfterFlush(r).pc = "flushed" /\ AfterFlush(r).tell /\ AfterFlush(r).note = None =>
            OpenAlerts(d) = {}
      <3>1. \A b \in OpenAlerts(d) : b # None
        BY Distinct DEF OpenAlerts, AlertsOf
      <3> QED
        BY <2>2, <3>1, OneOrNoneMember DEF ToUpdate
    <2>4. \A e \in Dev : AfterFlush(r).pend[e] # None => run[r].pend[e] # None \/ Unlocked(r, e)
      BY <1>0, <2>1, <2>2
    <2>5. PICK q : q = AfterFlush(r)
      OBVIOUS
    <2> HIDE DEF d
    <2>6. /\ run' = [run EXCEPT ![r] = q]
          /\ q.pc = "flushed" /\ q.tell /\ q.note = None => q.dev \in Dev /\ OpenAlerts(q.dev) = {}
          /\ \A e \in Dev : q.pend[e] # None => run[r].pend[e] # None \/ Unlocked(r, e)
      BY <2>1, <2>2, <2>3, <2>4, <2>5
    <2> QED
      BY <2>1, <2>6, UnchangedAlerts, QuietStep
  <1>3. CASE Commit(r)
    <2>1. CASE run[r].note # None /\ alert[run[r].note] = None
      BY <1>3, <2>1, Constants, MoveStep DEF Commit, Break
    <2>2. CASE ~(run[r].note # None /\ alert[run[r].note] = None) /\ run[r].tell /\ run[r].note = None
      BY <1>3, <2>2, InsertStep DEF Commit, FreshAlert
    <2>3. CASE /\ ~(run[r].note # None /\ alert[run[r].note] = None)
               /\ ~(run[r].tell /\ run[r].note = None)
      <3> NodeDone(r) /\ UNCHANGED <<alert, post>>
        BY <1>3, <2>3 DEF Commit
      <3> QED
        BY NodeDoneStep
    <2> QED
      BY <2>1, <2>2, <2>3
  <1>4. CASE CommitNew(r)
    BY <1>4, NodeDoneStep DEF CommitNew
  <1>5. CASE MarkSelect(r)
    <2> DEFINE q == [run[r] EXCEPT !.pc = "mark", !.stale = Stale(r)]
    <2>1. q.pc = "mark" /\ q.pend = run[r].pend
      BY <1>0 DEF RunState
    <2>2. run' = [run EXCEPT ![r] = q] /\ UNCHANGED <<alert, post>>
      BY <1>5 DEF MarkSelect
    <2> HIDE DEF q
    <2>3. PICK z : z = q
      OBVIOUS
    <2>4. /\ run' = [run EXCEPT ![r] = z] /\ z.pc # "flushed"
          /\ \A d \in Dev : z.pend[d] # None => run[r].pend[d] # None
          /\ UNCHANGED <<alert, post>>
      BY <2>1, <2>2, <2>3
    <2> QED
      BY <2>4, MoveStep
  <1>6. CASE MarkCommit(r)
    <2>1. AfterMark(r).pc = "done" /\ \A d \in Dev : AfterMark(r).pend[d] = None
      BY <1>0, Constants DEF AfterMark, RunState
    <2> QED
      BY <1>6, <2>1, MoveStep DEF MarkCommit
  <1>7. CASE Finish(r) \/ DatabaseError(r)
    BY <1>7, Constants, MoveStep DEF Finish, DatabaseError, Break
  <1> QED
    BY <1>1, <1>2, <1>3, <1>4, <1>5, <1>6, <1>7 DEF RunStep

LEMMA AlertNext ==
  ASSUME "post" \notin Env, IInv, AlertInv, [Next]_vars
  PROVE  AlertInv'
  <1>1. ASSUME NEW r \in Run, NEW i \in Src, Begin(r, i) PROVE AlertInv'
    <2> DEFINE q == [NoRun EXCEPT !.pc = "next", !.rep = source[i],
                       !.todo = {n \in Node : source[i][n] # None}]
    <2>1. q.pc = "next" /\ \A d \in Dev : q.pend[d] = None
      BY DEF NoRun
    <2>2. run' = [run EXCEPT ![r] = q] /\ UNCHANGED <<alert, post>>
      BY <1>1 DEF Begin
    <2> HIDE DEF q
    <2>3. PICK z : z = q
      OBVIOUS
    <2>4. /\ run' = [run EXCEPT ![r] = z] /\ z.pc # "flushed"
          /\ \A d \in Dev : z.pend[d] # None => run[r].pend[d] # None
          /\ UNCHANGED <<alert, post>>
      BY <2>1, <2>2, <2>3
    <2> QED
      BY <2>4, MoveStep
  \* Nobody opens an alert or moves a run, except a crash that ends all runs.
  <1>2. ASSUME \A d \in Dev : OpenAlerts(d)' \subseteq OpenAlerts(d), UNCHANGED run, UNCHANGED post
        PROVE  AlertInv'
    <2>1. NoneOpen'
      BY <1>2 DEF AlertInv, NoneOpen, IInv, RunsInv, RunInv
    <2>2. Locks' /\ UniqueOpen'
      BY <1>2 DEF AlertInv, Locks, UniqueOpen
    <2> QED
      BY <1>2, <2>1, <2>2 DEF AlertInv
  <1>3. ASSUME NEW a \in Alert, Acknowledge(a) \/ DeleteAlert(a) PROVE AlertInv'
    <2>1. \A b \in Alert : /\ alert'[b] # None => alert[b] # None /\ alert'[b].dev = alert[b].dev
                           /\ alert'[b] # None /\ ~alert'[b].acked => ~alert[b].acked
      BY <1>3 DEF Acknowledge, DeleteAlert, IInv, TypeOK, AlertRow
    <2>2. \A d \in Dev : OpenAlerts(d)' \subseteq OpenAlerts(d)
      BY <2>1 DEF OpenAlerts, AlertsOf
    <2> QED
      BY <1>2, <1>3, <2>2 DEF Acknowledge, DeleteAlert
  <1>4. ASSUME NEW i \in Src, NEW n \in Node, NEW v \in Val \cup {None}, SourceChanges(i, n, v)
        PROVE  AlertInv'
    BY <1>2, <1>4, UnchangedAlerts DEF SourceChanges
  <1>5. CASE Crash
    <2>1. \A s \in Run : run'[s] = NoRun
      BY <1>5 DEF Crash
    <2>2. UniqueOpen'
      BY <1>5, UnchangedAlerts DEF Crash, AlertInv, UniqueOpen
    <2> QED
      BY <1>5, <2>1, <2>2, Constants DEF Crash, AlertInv, Locks, NoneOpen
  <1>6. ~PostCommit /\ \A d \in Dev : ~PostSelect(d)
    BY DEF PostCommit, PostSelect, AlertInv, NoPost
  <1>7. CASE UNCHANGED vars
    BY <1>2, <1>7, UnchangedAlerts DEF vars
  <1> QED
    BY <1>1, <1>3, <1>4, <1>5, <1>6, <1>7, AlertRunStep DEF Next

LEMMA AlertInit == Init => AlertInv
  BY Constants, Distinct
     DEF Init, AlertInv, Locks, UniqueOpen, NoneOpen, OpenAlerts, AlertsOf

\* However the runs overlap and whenever they or the process fail, the sync
\* engine never leaves two open alerts for a device; only a POST /alerts can.
THEOREM AlertsAreUpserted ==
  ASSUME "post" \notin Env
  PROVE  Spec => []OneOpenAlert
  <1>1. IInv /\ AlertInv /\ [Next]_vars => AlertInv'
    BY AlertNext
  <1>2. AlertInv => OneOpenAlert
    BY OneElement DEF AlertInv, UniqueOpen, OneOpenAlert
  <1> QED
    BY <1>1, <1>2, AlertInit, Inductive, PTL DEF Spec

-----------------------------------------------------------------------------
(* The audit log agrees with the devices *)

LEMMA CommittedAudit ==
  ASSUME IInv, AuditInv, NEW r \in Run, NEW d \in Dev, View(r, d) # None
  PROVE  View(r, d).logged = View(r, d).val
  BY DEF AuditInv, AuditMatches, View

\* A step of a run that commits and flushes only audited versions.
LEMMA AuditedStep ==
  ASSUME IInv, AuditInv, NEW r \in Run, NEW q, run' = [run EXCEPT ![r] = q],
         \A d \in Dev : q.pend[d] # None => q.pend[d].logged = q.pend[d].val,
         \A d \in Dev : dev'[d] # None => dev'[d].logged = dev'[d].val
  PROVE  AuditInv'
  <1>1. run'[r] = q /\ \A s \in Run : s # r => run'[s] = run[s]
    BY Types DEF IInv
  <1> QED
    BY <1>1 DEF AuditInv, AuditMatches

\* A run that only reads.
LEMMA ReadStep ==
  ASSUME IInv, AuditInv, NEW r \in Run, NEW q, run' = [run EXCEPT ![r] = q],
         q.pend = run[r].pend \/ \A d \in Dev : q.pend[d] = None, UNCHANGED dev
  PROVE  AuditInv'
  <1>1. \A d \in Dev : q.pend[d] # None => q.pend[d].logged = q.pend[d].val
    BY DEF AuditInv
  <1>2. \A d \in Dev : dev'[d] # None => dev'[d].logged = dev'[d].val
    BY DEF AuditInv, AuditMatches
  <1> QED
    BY <1>1, <1>2, AuditedStep

LEMMA AuditFlush ==
  ASSUME IInv, AlertInv, AuditInv, NEW r \in Run, Flush(r)
  PROVE  AuditInv'
  <1> DEFINE d == run[r].dev
  <1>1. /\ run[r] \in RunState /\ run[r].pend \in [Dev -> Row \cup {None}] /\ d \in Dev
        /\ dev[d] # None /\ run' = [run EXCEPT ![r] = AfterFlush(r)] /\ UNCHANGED dev
    BY Types DEF IInv, RunsInv, RunInv, Flush
  <1>2. ~(Cardinality(ToUpdate(r)) > 1)
    <2>1. \A a, b \in ToUpdate(r) : a = b
      BY <1>1 DEF ToUpdate, AlertInv, UniqueOpen
    <2>2. Cardinality(ToUpdate(r)) <= 1
      BY <2>1, OneElement
    <2>3. PICK S : S = ToUpdate(r)
      OBVIOUS
    <2>4. \A a, b \in S : a = b
      BY <2>1, <2>3
    <2>5. Cardinality(S) \in Nat
      <3>1. CASE S = {}
        BY <3>1, FS_EmptySet
      <3>2. ASSUME NEW a \in S PROVE Cardinality(S) \in Nat
        <4>1. S = {a}
          BY <2>4, <3>2
        <4>2. Cardinality({a}) = 1
          BY FS_Singleton
        <4> QED
          BY <4>1, <4>2
      <3> QED
        BY <3>1, <3>2
    <2> QED
      BY <2>2, <2>3, <2>5
  <1>3. AfterFlush(r).pend = [run[r].pend EXCEPT ![d] = Flushed(r)]
    BY <1>1, <1>2 DEF AfterFlush, RunState
  <1>4. Flushed(r).logged = Flushed(r).val
    <2>1. View(r, d).logged = View(r, d).val
      BY <1>1, ViewRow, Distinct, CommittedAudit DEF IInv
    <2> QED
      BY <2>1, FlushRow DEF Audited, Flush
  <1>5. PICK q : q = AfterFlush(r)
    OBVIOUS
  <1>6. /\ run' = [run EXCEPT ![r] = q]
        /\ \A e \in Dev : q.pend[e] # None => q.pend[e].logged = q.pend[e].val
    BY <1>1, <1>3, <1>4, <1>5 DEF AuditInv
  <1>7. \A e \in Dev : dev'[e] # None => dev'[e].logged = dev'[e].val
    BY <1>1 DEF AuditInv, AuditMatches
  <1> QED
    BY <1>6, <1>7, AuditedStep

LEMMA AuditRunStep ==
  ASSUME IInv, AlertInv, AuditInv, NEW r \in Run, RunStep(r) \/ DatabaseError(r)
  PROVE  AuditInv'
  <1>0. /\ run[r] \in RunState /\ run[r].pend \in [Dev -> Row \cup {None}]
        /\ dev \in [Dev -> Row \cup {None}]
    BY Types DEF IInv
  \* A commit: every version is audited, and so are the devices it makes.
  <1>1. ASSUME NEW q, run' = [run EXCEPT ![r] = q], q.pend = NoPending,
               \A d \in Dev : dev'[d] # None => dev'[d].logged = dev'[d].val
        PROVE  AuditInv'
    <2>1. \A d \in Dev : q.pend[d] # None => q.pend[d].logged = q.pend[d].val
      BY <1>1, Constants
    <2> QED
      BY <1>1, <2>1, AuditedStep
  <1>2. AfterNode(r).pend = NoPending /\ AfterMark(r).pend = NoPending
    BY <1>0 DEF AfterNode, AfterMark, RunState
  <1>3. CASE Lookup(r)
    <2>1. PICK n \in run[r].todo : run' = [run EXCEPT ![r] = LookedUp(r, n)]
      BY <1>3 DEF Lookup
    <2>2. LookedUp(r, n).pend = run[r].pend
      BY <1>0 DEF LookedUp, RunState
    <2>3. PICK q : q = LookedUp(r, n)
      OBVIOUS
    <2>4. run' = [run EXCEPT ![r] = q] /\ q.pend = run[r].pend /\ UNCHANGED dev
      BY <1>3, <2>1, <2>2, <2>3 DEF Lookup
    <2> QED
      BY <2>4, ReadStep
  <1>4. CASE Commit(r)
    <2>1. CASE run[r].note # None /\ alert[run[r].note] = None
      BY <1>4, <2>1, Constants, ReadStep DEF Commit, Break
    <2>2. CASE ~(run[r].note # None /\ alert[run[r].note] = None)
      <3>1. dev' = Committed(r) /\ run' = [run EXCEPT ![r] = AfterNode(r)]
        BY <1>4, <2>2 DEF Commit, NodeDone
      <3>2. \A d \in Dev : dev'[d] # None => dev'[d].logged = dev'[d].val
        BY <3>1, CommittedAudit DEF Committed
      <3> QED
        BY <1>1, <1>2, <3>1, <3>2
    <2> QED
      BY <2>1, <2>2
  <1>5. CASE CommitNew(r)
    <2> DEFINE n == run[r].node
               x == NewRow(n, run[r].rep[n])
    <2>1. n \in Node /\ run[r].rep[n] \in Val
      BY <1>5, Types DEF CommitNew, IInv, RunsInv, RunInv, Report
    <2>2. x.logged = x.val
      BY <2>1, NewRowIsRow
    <2>3. PICK d \in Dev : dev' = [Committed(r) EXCEPT ![d] = x]
      BY <1>5 DEF CommitNew
    <2> HIDE DEF x
    <2>4. \A e \in Dev : dev'[e] # None => dev'[e].logged = dev'[e].val
      BY <2>2, <2>3, CommittedAudit DEF Committed
    <2> QED
      BY <1>1, <1>2, <1>5, <2>4 DEF CommitNew, NodeDone
  <1>6. CASE MarkSelect(r)
    <2> DEFINE q == [run[r] EXCEPT !.pc = "mark", !.stale = Stale(r)]
    <2>1. q.pend = run[r].pend
      BY <1>0 DEF RunState
    <2>2. run' = [run EXCEPT ![r] = q] /\ UNCHANGED dev
      BY <1>6 DEF MarkSelect
    <2> HIDE DEF q
    <2>3. PICK z : z = q
      OBVIOUS
    <2>4. run' = [run EXCEPT ![r] = z] /\ z.pend = run[r].pend /\ UNCHANGED dev
      BY <2>1, <2>2, <2>3
    <2> QED
      BY <2>4, ReadStep
  <1>7. CASE MarkCommit(r)
    <2>1. \A d \in Dev : dev'[d] # None => dev'[d].logged = dev'[d].val
      <3>1. dev' = [d \in Dev |-> Marked(r, d)]
        BY <1>7 DEF MarkCommit
      <3> QED
        BY <3>1, MarkedRow, CommittedAudit, Distinct
    <2> QED
      BY <1>1, <1>2, <1>7, <2>1 DEF MarkCommit
  <1>8. CASE Finish(r) \/ DatabaseError(r)
    BY <1>8, Constants, ReadStep DEF Finish, DatabaseError, Break
  <1> QED
    BY <1>3, <1>4, <1>5, <1>6, <1>7, <1>8, AuditFlush DEF RunStep

LEMMA AuditNext ==
  ASSUME IInv, AlertInv, AuditInv, [Next]_vars
  PROVE  AuditInv'
  <1>1. ASSUME NEW r \in Run, NEW i \in Src, Begin(r, i) PROVE AuditInv'
    <2> DEFINE q == [NoRun EXCEPT !.pc = "next", !.rep = source[i],
                       !.todo = {n \in Node : source[i][n] # None}]
    <2>1. \A d \in Dev : q.pend[d] = None
      BY DEF NoRun
    <2>2. run' = [run EXCEPT ![r] = q] /\ UNCHANGED dev
      BY <1>1 DEF Begin
    <2> HIDE DEF q
    <2>3. PICK z : z = q
      OBVIOUS
    <2>4. run' = [run EXCEPT ![r] = z] /\ UNCHANGED dev /\ \A d \in Dev : z.pend[d] = None
      BY <2>1, <2>2, <2>3
    <2> QED
      BY <2>4, ReadStep
  <1>2. ASSUME UNCHANGED dev, UNCHANGED run \/ \A s \in Run : run'[s] = NoRun
        PROVE  AuditInv'
    BY <1>2, Constants DEF AuditInv, AuditMatches
  <1> QED
    BY <1>1, <1>2, AuditRunStep
       DEF Next, vars, Acknowledge, DeleteAlert, PostSelect, PostCommit, SourceChanges, Crash

LEMMA AuditInit == Init => AuditInv
  BY Constants DEF Init, AuditInv, AuditMatches

\* The audit log has every change that syncs make to the devices, however the
\* runs overlap and whenever they or the process fail, as long as nobody posts
\* alerts of type "other" by hand.
THEOREM AuditIsComplete ==
  ASSUME "post" \notin Env
  PROVE  Spec => []AuditMatches
  <1>1. IInv /\ AlertInv /\ [Next]_vars => AlertInv'
    BY AlertNext
  <1>2. IInv /\ AlertInv /\ AuditInv /\ [Next]_vars => AuditInv'
    BY AuditNext
  <1>3. AuditInv => AuditMatches
    BY DEF AuditInv
  <1> QED
    BY <1>1, <1>2, <1>3, AlertInit, AuditInit, Inductive, PTL DEF Spec
-----------------------------------------------------------------------------
(* An overwritten field leaves an open alert *)

\* A flushed change of a value has been told, or will be by the commit of the
\* same run; the alert that the commit will update is an open one.
TellRun(r) == LET R == run[r] IN
  /\ \A d \in Dev : R.pend[d] # None /\ R.pend[d].val # dev[d].val =>
       OpenAlerts(d) # {} \/ (R.pc = "flushed" /\ d = R.dev /\ R.tell)
  /\ R.pc = "flushed" /\ R.tell /\ R.note # None => R.note \in OpenAlerts(R.dev)

TellInv == Locks /\ \A r \in Run : TellRun(r)

\* What the property says of a step.
Told == \A d \in Dev : dev[d] # None /\ dev'[d].val # dev[d].val => OpenAlerts(d)' # {}

\* Nobody closes an alert.
Kept == \A d \in Dev : OpenAlerts(d) \subseteq OpenAlerts(d)'

LEMMA KeptAlerts ==
  ASSUME UNCHANGED alert
  PROVE  Kept
  BY DEF Kept, OpenAlerts, AlertsOf

\* A step of r that changes only rows that no other session has flushed.
LEMMA TellStep ==
  ASSUME IInv, TellInv, Kept, NEW r \in Run, NEW q, run' = [run EXCEPT ![r] = q],
         \A d \in Dev : q.pend[d] # None => run[r].pend[d] # None \/ Unlocked(r, d),
         \A d \in Dev : dev[d] # None /\ dev'[d] # dev[d] => run[r].pend[d] # None \/ Unlocked(r, d),
         TellRun(r)'
  PROVE  TellInv'
  <1>1. run'[r] = q /\ \A s \in Run : s # r => run'[s] = run[s]
    BY Types DEF IInv
  <1>2. Locks'
    BY <1>1 DEF TellInv, Locks, Unlocked
  <1>3. ASSUME NEW s \in Run, s # r PROVE TellRun(s)'
    <2>1. run'[s] = run[s] /\ TellRun(s)
      BY <1>1, <1>3 DEF TellInv
    <2>2. \A d \in Dev : run[s].pend[d] # None => dev[d] # None
      BY DEF IInv, RunsInv, RunInv
    <2>3. \A d \in Dev : run[s].pend[d] # None => dev'[d] = dev[d]
      BY <1>3, <2>2 DEF TellInv, Locks, Unlocked
    <2>4. run[s].pc = "flushed" => run[s].dev \in Dev
      BY DEF IInv, RunsInv, RunInv
    <2> QED
      BY <2>1, <2>3, <2>4 DEF TellRun, Kept
  <1> QED
    BY <1>2, <1>3 DEF TellInv

\* A step of r that leaves the tables alone.
LEMMA TellMove ==
  ASSUME IInv, TellInv, NEW r \in Run, NEW q, run' = [run EXCEPT ![r] = q],
         UNCHANGED <<dev, alert>>, q.pc # "flushed",
         \/ q.pend = run[r].pend /\ run[r].pc # "flushed"
         \/ \A d \in Dev : q.pend[d] = None
  PROVE  TellInv' /\ Told
  <1>1. Kept
    BY KeptAlerts
  <1>2. run'[r] = q
    BY Types DEF IInv
  <1>3. TellRun(r)'
    BY <1>1, <1>2 DEF TellInv, TellRun, Kept
  <1> QED
    BY <1>1, <1>3, TellStep DEF Told

\* A COMMIT of r: what it changes was told before, or is by now.
LEMMA TellCommit ==
  ASSUME IInv, TellInv, Kept, NEW r \in Run, NEW q, run' = [run EXCEPT ![r] = q],
         q.pc # "flushed", \A d \in Dev : q.pend[d] = None,
         \A d \in Dev : dev[d] # None =>
            \/ dev'[d] = dev[d]
            \/ dev'[d].val = View(r, d).val /\ (run[r].pend[d] # None \/ Unlocked(r, d)),
         run[r].pc = "flushed" /\ run[r].tell =>
            \A d \in Dev : d = run[r].dev => OpenAlerts(d)' # {}
  PROVE  TellInv' /\ Told
  <1>1. run'[r] = q
    BY Types DEF IInv
  <1>2. TellRun(r)'
    BY <1>1 DEF TellRun
  <1>3. TellInv'
    BY <1>2, TellStep
  <1>4. ASSUME NEW d \in Dev, dev[d] # None, dev'[d].val # dev[d].val
        PROVE  OpenAlerts(d)' # {}
    <2>1. run[r].pend[d] # None /\ run[r].pend[d].val # dev[d].val
      BY <1>4 DEF View
    <2>2. OpenAlerts(d) # {} \/ (run[r].pc = "flushed" /\ d = run[r].dev /\ run[r].tell)
      BY <2>1 DEF TellInv, TellRun
    <2>3. CASE OpenAlerts(d) # {}
      BY <2>3 DEF Kept
    <2>4. CASE run[r].pc = "flushed" /\ d = run[r].dev /\ run[r].tell
      BY <2>4
    <2> QED
      BY <2>2, <2>3, <2>4
  <1> QED
    BY <1>3, <1>4 DEF Told

LEMMA TellFlush ==
  ASSUME IInv, TellInv, NEW r \in Run, Flush(r)
  PROVE  TellInv' /\ Told
  <1> DEFINE R == run[r]
             d == R.dev
  <1>1. /\ R \in RunState /\ R.pend \in [Dev -> Row \cup {None}] /\ d \in Dev
        /\ R.pc = "found" /\ Unlocked(r, d) /\ Updated(r) \in Row /\ Flushed(r) \in Row
        /\ run' = [run EXCEPT ![r] = AfterFlush(r)] /\ UNCHANGED <<dev, alert>>
    BY Types, FlushRow DEF IInv, RunsInv, RunInv, Flush
  <1>2. Kept
    BY <1>1, KeptAlerts
  <1>3. /\ Updated(r).val = IF Overwrites(r) THEN R.rep[R.node] ELSE View(r, d).val
        /\ Flushed(r).val = Updated(r).val
    <2>1. View(r, d) \in Row
      BY <1>1, ViewRow DEF IInv, RunsInv, RunInv
    <2> QED
      BY <1>1, <2>1, FlushRow DEF Updated, Row
  <1>4. View(r, d).val # dev[d].val => OpenAlerts(d) # {}
    BY <1>1 DEF View, TellInv, TellRun
  <1>5. ASSUME NEW q, q = AfterFlush(r), Cardinality(ToUpdate(r)) > 1
        PROVE  /\ q.pend = [R.pend EXCEPT ![d] = Updated(r)] /\ q.pc = "next"
               /\ OpenAlerts(d) # {}
    <2>1. ToUpdate(r) # {}
      BY <1>5, FS_EmptySet
    <2> QED
      BY <1>1, <1>5, <2>1 DEF AfterFlush, RunState, ToUpdate
  <1>6. ASSUME NEW q, q = AfterFlush(r), ~(Cardinality(ToUpdate(r)) > 1)
        PROVE  /\ q.pend = [R.pend EXCEPT ![d] = Flushed(r)] /\ q.pc = "flushed"
               /\ q.dev = d /\ q.tell = Overwrites(r)
               /\ q.note # None => q.note \in OpenAlerts(d)
    BY <1>1, <1>6, OneOrNoneMember DEF AfterFlush, RunState, ToUpdate
  <1>7. PICK q : q = AfterFlush(r)
    OBVIOUS
  <1>8. run' = [run EXCEPT ![r] = q] /\ run'[r] = q
    BY <1>1, <1>7, Types DEF IInv
  <1>9. \A e \in Dev : e # d => q.pend[e] = R.pend[e]
    BY <1>1, <1>5, <1>6, <1>7
  <1>10. /\ q.pend[d] # None /\ q.pend[d].val = Updated(r).val
    BY <1>1, <1>3, <1>5, <1>6, <1>7, Distinct
  <1>11. TellRun(r)'
    <2>1. ASSUME NEW e \in Dev, q.pend[e] # None, q.pend[e].val # dev[e].val
          PROVE  OpenAlerts(e) # {} \/ (q.pc = "flushed" /\ e = q.dev /\ q.tell)
      <3>1. CASE e # d
        BY <1>1, <1>9, <2>1, <3>1 DEF TellInv, TellRun
      <3>2. CASE e = d /\ Cardinality(ToUpdate(r)) > 1
        BY <1>5, <1>7, <3>2
      <3>3. CASE e = d /\ ~(Cardinality(ToUpdate(r)) > 1)
        BY <1>3, <1>4, <1>6, <1>7, <1>10, <2>1, <3>3
      <3> QED
        BY <3>1, <3>2, <3>3
    <2>2. q.pc = "flushed" /\ q.tell /\ q.note # None => q.note \in OpenAlerts(q.dev)
      BY <1>5, <1>6, <1>7
    <2>3. \A e : OpenAlerts(e)' = OpenAlerts(e)
      BY <1>1 DEF OpenAlerts, AlertsOf
    <2> QED
      BY <1>1, <1>8, <2>1, <2>2, <2>3 DEF TellRun
  <1>12. \A e \in Dev : q.pend[e] # None => R.pend[e] # None \/ Unlocked(r, e)
    BY <1>1, <1>9
  <1>13. TellInv'
    BY <1>1, <1>2, <1>8, <1>11, <1>12, TellStep
  <1> QED
    BY <1>1, <1>13 DEF Told


\* An alert that is inserted is open, and no other changes.
LEMMA InsertedAlert ==
  ASSUME TypeOK, NEW e \in Dev, NEW a \in Alert, alert[a] = None,
         alert' = [alert EXCEPT ![a] = [dev |-> e, acked |-> FALSE]]
  PROVE  Kept /\ a \in OpenAlerts(e)'
  <1> DEFINE x == [dev |-> e, acked |-> FALSE]
  <1>1. x \in AlertRow /\ x.dev = e /\ ~x.acked
    BY DEF AlertRow
  <1> HIDE DEF x
  <1>2. x # None
    BY <1>1, Distinct
  <1>3. alert'[a] = x /\ \A b \in Alert : b # a => alert'[b] = alert[b]
    BY DEF TypeOK, x
  <1> QED
    BY <1>1, <1>2, <1>3 DEF Kept, OpenAlerts, AlertsOf

LEMMA TellRunStep ==
  ASSUME IInv, TellInv, NEW r \in Run, RunStep(r) \/ DatabaseError(r)
  PROVE  TellInv' /\ Told
  <1>0. /\ run[r] \in RunState /\ run[r].pend \in [Dev -> Row \cup {None}]
        /\ dev \in [Dev -> Row \cup {None}] /\ RunInv(r)
    BY Types DEF IInv, RunsInv
  <1>1. CASE Lookup(r)
    <2>1. PICK n \in run[r].todo : run' = [run EXCEPT ![r] = LookedUp(r, n)]
      BY <1>1 DEF Lookup
    <2>2. LookedUp(r, n).pend = run[r].pend /\ LookedUp(r, n).pc \in {"next", "new", "found"}
      BY <1>0, <1>1 DEF LookedUp, RunState, Lookup
    <2>3. PICK q : q = LookedUp(r, n)
      OBVIOUS
    <2>4. /\ run' = [run EXCEPT ![r] = q] /\ q.pend = run[r].pend /\ q.pc # "flushed"
          /\ run[r].pc # "flushed" /\ UNCHANGED <<dev, alert>>
      BY <1>1, <2>1, <2>2, <2>3 DEF Lookup
    <2> QED
      BY <2>4, TellMove
  <1>2. CASE MarkSelect(r)
    <2> DEFINE q == [run[r] EXCEPT !.pc = "mark", !.stale = Stale(r)]
    <2>1. q.pend = run[r].pend /\ q.pc = "mark"
      BY <1>0 DEF RunState
    <2>2. run' = [run EXCEPT ![r] = q] /\ UNCHANGED <<dev, alert>> /\ run[r].pc = "next"
      BY <1>2 DEF MarkSelect
    <2> HIDE DEF q
    <2>3. PICK z : z = q
      OBVIOUS
    <2>4. /\ run' = [run EXCEPT ![r] = z] /\ z.pend = run[r].pend /\ z.pc # "flushed"
          /\ run[r].pc # "flushed" /\ UNCHANGED <<dev, alert>>
      BY <2>1, <2>2, <2>3
    <2> QED
      BY <2>4, TellMove
  <1>3. CASE Finish(r) \/ DatabaseError(r)
    BY <1>3, Constants, TellMove DEF Finish, DatabaseError, Break
  \* What a commit leaves of the run.
  <1>4. PICK z : z = AfterNode(r)
    OBVIOUS
  <1>5. z.pc = "next" /\ \A d \in Dev : z.pend[d] = None
    BY <1>0, <1>4, Constants DEF AfterNode, RunState
  <1>6. CASE Commit(r)
    <2>1. CASE run[r].note # None /\ alert[run[r].note] = None
      BY <1>6, <2>1, Constants, TellMove DEF Commit, Break
    <2>2. CASE ~(run[r].note # None /\ alert[run[r].note] = None)
      <3>1. /\ run' = [run EXCEPT ![r] = z] /\ dev' = Committed(r) /\ run[r].pc = "flushed"
            /\ run[r].dev \in Dev
        BY <1>0, <1>4, <1>6, <2>2 DEF Commit, NodeDone, RunInv
      <3>2. PICK e \in Dev : e = run[r].dev
        BY <3>1
      <3>3. Kept /\ (run[r].tell => OpenAlerts(e)' # {})
        <4>1. CASE run[r].tell /\ run[r].note = None
          <5>1. PICK a \in FreshAlert : alert' = [alert EXCEPT ![a] = [dev |-> e, acked |-> FALSE]]
            BY <1>6, <2>2, <3>2, <4>1 DEF Commit
          <5>2. a \in Alert /\ alert[a] = None
            BY DEF FreshAlert
          <5>3. TypeOK
            BY DEF IInv
          <5> QED
            BY <5>1, <5>2, <5>3, InsertedAlert
        <4>2. CASE ~(run[r].tell /\ run[r].note = None)
          <5>1. UNCHANGED alert
            BY <1>6, <2>2, <4>2 DEF Commit
          <5>2. run[r].tell => run[r].note \in OpenAlerts(e)
            BY <3>1, <3>2, <4>2 DEF TellInv, TellRun
          <5> QED
            BY <5>1, <5>2, KeptAlerts DEF Kept
        <4> QED
          BY <4>1, <4>2
      <3>4. \A d \in Dev : dev'[d] = View(r, d)
        BY <3>1 DEF Committed
      <3>5. \A d \in Dev : dev[d] # None =>
              \/ dev'[d] = dev[d]
              \/ dev'[d].val = View(r, d).val /\ (run[r].pend[d] # None \/ Unlocked(r, d))
        BY <3>4 DEF View
      <3>6. \A d \in Dev : d = run[r].dev => (run[r].tell => OpenAlerts(d)' # {})
        BY <3>2, <3>3
      <3> QED
        BY <1>5, <3>1, <3>3, <3>5, <3>6, TellCommit
    <2> QED
      BY <2>1, <2>2
  <1>7. CASE CommitNew(r)
    <2> DEFINE n == run[r].node
    <2>1. PICK d \in Dev : dev[d] = None /\ dev' = [Committed(r) EXCEPT ![d] = NewRow(n, run[r].rep[n])]
      BY <1>7 DEF CommitNew
    <2>2. \A e \in Dev : dev[e] # None =>
             \/ dev'[e] = dev[e]
             \/ dev'[e].val = View(r, e).val /\ (run[r].pend[e] # None \/ Unlocked(r, e))
      <3>1. \A e \in Dev : e # d => dev'[e] = View(r, e)
        BY <2>1 DEF Committed
      <3> QED
        BY <2>1, <3>1 DEF View
    <2>3. run' = [run EXCEPT ![r] = z] /\ Kept /\ run[r].pc # "flushed"
      BY <1>4, <1>7, KeptAlerts DEF CommitNew, NodeDone
    <2> QED
      BY <1>5, <2>2, <2>3, TellCommit
  <1>8. CASE MarkCommit(r)
    <2>1. PICK q : q = AfterMark(r)
      OBVIOUS
    <2>2. q.pc = "done" /\ \A d \in Dev : q.pend[d] = None
      BY <1>0, <2>1, Constants DEF AfterMark, RunState
    <2>3. ASSUME NEW d \in Dev, dev[d] # None
          PROVE  \/ dev'[d] = dev[d]
                 \/ dev'[d].val = View(r, d).val /\ (run[r].pend[d] # None \/ Unlocked(r, d))
      <3>1. dev'[d] = Marked(r, d)
        BY <1>8 DEF MarkCommit
      <3>2. CASE d \in run[r].stale
        <4>1. View(r, d) \in Row
          BY <2>3, ViewRow DEF IInv
        <4> QED
          BY <1>8, <3>1, <3>2, <4>1 DEF Marked, MarkCommit, Row
      <3>3. CASE d \notin run[r].stale
        BY <3>1, <3>3 DEF Marked, View
      <3> QED
        BY <3>2, <3>3
    <2>4. run' = [run EXCEPT ![r] = q] /\ Kept /\ run[r].pc # "flushed"
      BY <1>8, <2>1, KeptAlerts DEF MarkCommit
    <2> QED
      BY <2>2, <2>3, <2>4, TellCommit
  <1> QED
    BY <1>1, <1>2, <1>3, <1>6, <1>7, <1>8, TellFlush DEF RunStep

\* The steps that touch neither devices nor runs.
LEMMA TellKept ==
  ASSUME TellInv, Kept, UNCHANGED dev, UNCHANGED run \/ \A s \in Run : run'[s] = NoRun,
         IInv
  PROVE  TellInv' /\ Told
  <1>1. CASE UNCHANGED run
    <2>1. \A s \in Run : run[s].pc = "flushed" => run[s].dev \in Dev
      BY DEF IInv, RunsInv, RunInv
    <2>2. ASSUME NEW s \in Run PROVE TellRun(s)'
      BY <1>1, <2>1 DEF TellInv, TellRun, Kept
    <2> QED
      BY <1>1, <2>2 DEF TellInv, Locks, Told
  <1>2. CASE \A s \in Run : run'[s] = NoRun
    BY <1>2, Constants DEF TellInv, TellRun, Locks, Told
  <1> QED
    BY <1>1, <1>2

LEMMA TellNext ==
  ASSUME Env \cap {"acknowledge", "delete"} = {}, IInv, TellInv, [Next]_vars
  PROVE  TellInv' /\ Told
  <1>1. ASSUME NEW r \in Run, NEW i \in Src, Begin(r, i) PROVE TellInv' /\ Told
    <2> DEFINE q == [NoRun EXCEPT !.pc = "next", !.rep = source[i],
                       !.todo = {n \in Node : source[i][n] # None}]
    <2>1. q.pc = "next" /\ \A d \in Dev : q.pend[d] = None
      BY DEF NoRun
    <2>2. run' = [run EXCEPT ![r] = q] /\ UNCHANGED <<dev, alert>>
      BY <1>1 DEF Begin
    <2> HIDE DEF q
    <2>3. PICK z : z = q
      OBVIOUS
    <2>4. /\ run' = [run EXCEPT ![r] = z] /\ UNCHANGED <<dev, alert>> /\ z.pc # "flushed"
          /\ \A d \in Dev : z.pend[d] = None
      BY <2>1, <2>2, <2>3
    <2> QED
      BY <2>4, TellMove
  <1>2. \A a \in Alert : ~Acknowledge(a) /\ ~DeleteAlert(a)
    BY DEF Acknowledge, DeleteAlert
  <1>3. CASE PostCommit
    <2>1. post.dev \in Dev /\ UNCHANGED <<dev, run>>
      BY <1>3 DEF PostCommit, IInv, TypeOK
    <2>2. CASE post.alert = None
      <3>1. PICK a \in FreshAlert : alert' = [alert EXCEPT ![a] = [dev |-> post.dev, acked |-> FALSE]]
        BY <1>3, <2>2 DEF PostCommit
      <3>2. a \in Alert /\ alert[a] = None
        BY DEF FreshAlert
      <3>3. PICK e \in Dev : e = post.dev
        BY <2>1
      <3>4. TypeOK /\ alert' = [alert EXCEPT ![a] = [dev |-> e, acked |-> FALSE]]
        BY <3>1, <3>3 DEF IInv
      <3>5. Kept
        BY <3>2, <3>4, InsertedAlert
      <3> QED
        BY <2>1, <3>5, TellKept
    <2>3. CASE post.alert # None
      <3>0. \A a \in Alert : alert[a] # None => alert[a] \in AlertRow
        BY DEF IInv, TypeOK
      <3>1. ASSUME NEW a \in Alert, alert[a] # None, ~alert[a].acked
            PROVE  alert'[a] # None /\ ~alert'[a].acked /\ alert'[a].dev = alert[a].dev
        <4>1. CASE alert'[a] = alert[a]
          BY <3>1, <4>1
        <4>2. CASE alert'[a] # alert[a]
          <5>1. alert'[a] = [alert[a] EXCEPT !.acked = FALSE]
            BY <1>3, <2>3, <4>2 DEF PostCommit, IInv, TypeOK
          <5>2. alert'[a] \in AlertRow /\ ~alert'[a].acked /\ alert'[a].dev = alert[a].dev
            BY <3>0, <3>1, <5>1 DEF AlertRow
          <5> QED
            BY <5>2, Distinct
        <4> QED
          BY <4>1, <4>2
      <3>2. Kept
        BY <3>1 DEF Kept, OpenAlerts, AlertsOf
      <3> QED
        BY <2>1, <3>2, TellKept
    <2> QED
      BY <2>2, <2>3
  <1>4. ASSUME NEW i \in Src, NEW n \in Node, NEW v \in Val \cup {None}, SourceChanges(i, n, v)
        PROVE  TellInv' /\ Told
    BY <1>4, KeptAlerts, TellKept DEF SourceChanges
  <1>5. ASSUME NEW d \in Dev, PostSelect(d) PROVE TellInv' /\ Told
    BY <1>5, KeptAlerts, TellKept DEF PostSelect
  <1>6. CASE Crash
    <2>1. \A s \in Run : run'[s] = NoRun
      BY <1>6 DEF Crash
    <2> QED
      BY <1>6, <2>1, KeptAlerts, TellKept DEF Crash
  <1>7. CASE UNCHANGED vars
    BY <1>7, KeptAlerts, TellKept DEF vars
  <1> QED
    BY <1>1, <1>2, <1>3, <1>4, <1>5, <1>6, <1>7, TellRunStep DEF Next

LEMMA TellInit == Init => TellInv
  BY Constants DEF Init, TellInv, TellRun, Locks

\* A commit that changes what operators may have entered leaves an open alert on
\* the device, however runs overlap and fail and whoever posts alerts, as long
\* as nobody closes alerts meanwhile: an overwrite kept back by an error in one
\* node is committed with a later one, and the alert is open by then.
THEOREM OverwritesAreAlerted ==
  ASSUME Env \cap {"acknowledge", "delete"} = {}
  PROVE  Spec => OverwriteIsAlerted
  <1>1. IInv /\ TellInv /\ [Next]_vars => TellInv'
    BY TellNext
  <1>2. IInv /\ TellInv /\ [Next]_vars =>
          [\A d \in Dev : dev[d] # None /\ dev'[d].val # dev[d].val => OpenAlerts(d)' # {}]_vars
    BY TellNext DEF Told
  <1> QED
    BY <1>1, <1>2, TellInit, Inductive, PTL DEF Spec, OverwriteIsAlerted
-----------------------------------------------------------------------------
(* Runs that do not overlap: the inventory is the report *)

\* No two runs are in flight at the same time.
Alone == \A r, q \in Run : run[r].pc # "idle" /\ run[q].pc # "idle" => r = q

\* Serial numbers are unique, and the UUID is that of the same machine.
Sound(f) ==
  /\ \A d, e \in Dev : d # e /\ f[d] # None /\ f[e] # None => f[d].serial # f[e].serial
  /\ \A d \in Dev : f[d] # None => f[d].uuid \in {None, f[d].serial}

\* The row x is what was reported of node n.
Mirrors(x, n, v) == x # None /\ x.uuid = n /\ x.val = v /\ x.status = StatusOf(v)

AtWork(r) == run[r].pc \in {"found", "new", "flushed"}

\* Active in the eyes of the run, and known by its UUID.
Synced(r, d) == View(r, d) # None /\ View(r, d).status = "active" /\ View(r, d).uuid # None

\* What a run has achieved at each of its steps, if it is alone: the nodes that it
\* has seen are mirrored, the others are still to do or were an error.
MirrorRun(r) == LET R == run[r] IN
  /\ Sound(Committed(r))
  /\ R.pc = "found" => R.snap = View(r, R.dev) /\ R.snap.serial = R.node
  /\ R.pc = "new" => \A d \in Dev : View(r, d) # None => View(r, d).serial # R.node
  /\ R.pc = "flushed" => Mirrors(View(r, R.dev), R.node, R.rep[R.node])
  /\ R.pc \in {"mark", "done"} => R.todo = {}
  /\ AtWork(r) => R.node \notin R.todo
  /\ \A n \in R.seen : /\ R.rep[n] # None /\ n \notin R.todo /\ (AtWork(r) => n # R.node)
                       /\ \E d \in Dev : Mirrors(View(r, d), n, R.rep[n])
  /\ ~R.err => \A n \in Node : R.rep[n] # None => n \in R.todo \cup R.seen \/ (AtWork(r) /\ n = R.node)
  /\ R.pc = "mark" => /\ \A d \in Dev : Synced(r, d) => d \in R.stale \/ View(r, d).uuid \in R.seen
                      /\ \A d \in R.stale : View(r, d).uuid \notin R.seen
  /\ R.pc = "done" => /\ \A d \in Dev : R.pend[d] = None
                      /\ \A d \in Dev : Synced(r, d) => View(r, d).uuid \in R.seen

MirrorInv == Sound(dev) /\ \A r \in Run : run[r].pc # "idle" => MirrorRun(r)

\* A step of the only run.
LEMMA MirrorStep ==
  ASSUME IInv, MirrorInv, Alone', NEW r \in Run, NEW q, run' = [run EXCEPT ![r] = q],
         Sound(dev'), run[r].pc # "idle" \/ q.pc # "idle", Alone,
         q.pc # "idle" => MirrorRun(r)'
  PROVE  MirrorInv'
  <1>1. run'[r] = q /\ \A s \in Run : s # r => run'[s] = run[s]
    BY Types DEF IInv
  <1>2. ASSUME NEW s \in Run, run'[s].pc # "idle" PROVE MirrorRun(s)'
    <2>1. s = r
      BY <1>1, <1>2 DEF Alone
    <2> QED
      BY <1>1, <1>2, <2>1
  <1> QED
    BY <1>2 DEF MirrorInv

\* A step that ends runs, or touches neither devices nor runs.
LEMMA MirrorRest ==
  ASSUME IInv, MirrorInv, UNCHANGED dev,
         \A s \in Run : run'[s] = run[s] \/ run'[s].pc = "idle"
  PROVE  MirrorInv'
  <1>1. ASSUME NEW s \in Run, run'[s].pc # "idle" PROVE MirrorRun(s)'
    <2>1. run'[s] = run[s] /\ MirrorRun(s)
      BY <1>1 DEF MirrorInv
    <2>2. \A d : View(s, d)' = View(s, d)
      BY <2>1 DEF View
    <2>3. Committed(s)' = Committed(s)
      BY <2>2 DEF Committed
    <2> QED
      BY <2>1, <2>2, <2>3 DEF MirrorRun, AtWork, Synced
  <1> QED
    BY <1>1 DEF MirrorInv

LEMMA MirrorBegin ==
  ASSUME IInv, MirrorInv, Alone, Alone', NEW r \in Run, NEW i \in Src, Begin(r, i)
  PROVE  MirrorInv'
  <1> DEFINE p == [NoRun EXCEPT !.pc = "next", !.rep = source[i],
                     !.todo = {n \in Node : source[i][n] # None}]
  <1>1. /\ p.pc = "next" /\ p.seen = {} /\ ~p.err /\ p.rep = source[i]
        /\ p.todo = {n \in Node : source[i][n] # None} /\ \A d \in Dev : p.pend[d] = None
    BY DEF NoRun
  <1>2. run' = [run EXCEPT ![r] = p] /\ UNCHANGED dev
    BY DEF Begin
  <1> HIDE DEF p
  <1>3. PICK q : q = p
    OBVIOUS
  <1>4. run'[r] = q /\ run' = [run EXCEPT ![r] = q]
    BY <1>2, <1>3, Types DEF IInv
  <1>5. \A d \in Dev : View(r, d)' = dev[d]
    BY <1>1, <1>2, <1>3, <1>4 DEF View
  <1>6. Sound(Committed(r))' /\ Sound(dev')
    BY <1>2, <1>5 DEF Committed, Sound, MirrorInv
  <1>7. MirrorRun(r)'
    BY <1>1, <1>3, <1>4, <1>6 DEF MirrorRun, AtWork
  <1> QED
    BY <1>1, <1>3, <1>4, <1>6, <1>7, MirrorStep

\* The device that a lookup finds is the one with the serial number of the node.
LEMMA MatchIsSerial ==
  ASSUME NEW r \in Run, NEW n \in Node, Sound(Committed(r)), n # None
  PROVE  /\ \A d \in Match(r, n) : d \in Dev /\ View(r, d) # None /\ View(r, d).serial = n
         /\ Match(r, n) = {} => \A d \in Dev : View(r, d) # None => View(r, d).serial # n
  <1>1. \A d \in Dev : View(r, d) # None => View(r, d).uuid \in {None, View(r, d).serial}
    BY DEF Sound, Committed
  <1> QED
    BY <1>1 DEF Match

LEMMA MirrorLookup ==
  ASSUME IInv, MirrorInv, Alone, Alone', NEW r \in Run, Lookup(r)
  PROVE  MirrorInv'
  <1> DEFINE R == run[r]
  <1>1. /\ R \in RunState /\ R.rep \in Report /\ RunInv(r) /\ R.pc = "next"
        /\ R.todo \subseteq Node /\ UNCHANGED dev /\ MirrorRun(r)
    BY Types DEF IInv, RunsInv, Lookup, MirrorInv
  <1>2. PICK n \in R.todo : run' = [run EXCEPT ![r] = LookedUp(r, n)]
    BY DEF Lookup
  <1>3. n \in Node /\ n # None /\ n \notin R.seen
    BY <1>1, Distinct DEF MirrorRun
  <1> DEFINE D == Match(r, n)
  <1>4. /\ \A d \in D : d \in Dev /\ View(r, d) # None /\ View(r, d).serial = n
        /\ D = {} => \A d \in Dev : View(r, d) # None => View(r, d).serial # n
    BY <1>1, <1>3, MatchIsSerial DEF MirrorRun
  <1> HIDE DEF D
  <1>5. D # {} => OneOrNone(D) \in D
    BY OneOrNoneMember
  <1>6. PICK q : q = LookedUp(r, n)
    OBVIOUS
  <1>7. /\ q.rep = R.rep /\ q.todo = R.todo \ {n} /\ q.pend = R.pend /\ q.seen = R.seen
        /\ \/ q.pc = "next" /\ q.err
           \/ q.pc = "new" /\ q.node = n /\ D = {} /\ q.err = R.err
           \/ /\ q.pc = "found" /\ q.node = n /\ q.dev \in D /\ q.snap = View(r, q.dev)
              /\ q.err = R.err
    BY <1>1, <1>5, <1>6 DEF RunState, LookedUp, D
  <1>8. run'[r] = q /\ run' = [run EXCEPT ![r] = q]
    BY <1>2, <1>6, Types DEF IInv
  <1>9. \A d : View(r, d)' = View(r, d)
    BY <1>1, <1>7, <1>8 DEF View
  <1>10. Committed(r)' = Committed(r)
    BY <1>9 DEF Committed
  <1>11. q.pc = "found" => q.snap = View(r, q.dev)' /\ q.snap.serial = q.node
    BY <1>4, <1>7, <1>9
  <1>12. MirrorRun(r)'
    BY <1>1, <1>3, <1>4, <1>7, <1>8, <1>9, <1>10, <1>11 DEF MirrorRun, AtWork
  <1> QED
    BY <1>1, <1>7, <1>8, <1>12, MirrorStep DEF MirrorInv

\* What a flush makes of the device that was found.
LEMMA FlushMirrors ==
  ASSUME IInv, MirrorInv, NEW r \in Run, run[r].pc = "found"
  PROVE  /\ Updated(r) \in Row /\ Flushed(r) \in Row
         /\ Updated(r).serial = run[r].node /\ Updated(r).uuid = View(r, run[r].dev).uuid
         /\ Flushed(r).serial = run[r].node
         /\ Mirrors(Flushed(r), run[r].node, run[r].rep[run[r].node])
         /\ View(r, run[r].dev) \in Row /\ View(r, run[r].dev).serial = run[r].node
  <1> DEFINE R == run[r]
             d == R.dev
  <1>1. /\ R.node \in Node /\ R.rep[R.node] \in Val /\ d \in Dev
        /\ View(r, d) \in Row /\ R.snap = View(r, d) /\ R.snap.serial = R.node
    BY Types, ViewRow DEF IInv, RunsInv, RunInv, Report, MirrorInv, MirrorRun
  <1>2. Updated(r) \in Row /\ Flushed(r) \in Row /\ Reported(r) = StatusOf(R.rep[R.node])
    BY FlushRow DEF Reported
  <1>3. /\ Updated(r).serial = R.node /\ Updated(r).uuid = View(r, d).uuid
        /\ Updated(r).val = IF Overwrites(r) THEN R.rep[R.node] ELSE View(r, d).val
        /\ Updated(r).status = IF R.snap.status = Reported(r) THEN View(r, d).status ELSE Reported(r)
    BY <1>1 DEF Updated, Row
  <1>4. Updated(r).val = R.rep[R.node] /\ Updated(r).status = StatusOf(R.rep[R.node])
    BY <1>1, <1>2, <1>3 DEF Overwrites
  <1>5. /\ Flushed(r).serial = Updated(r).serial /\ Flushed(r).uuid = R.node
        /\ Flushed(r).val = Updated(r).val /\ Flushed(r).status = Updated(r).status
    BY <1>2 DEF Flushed, Row
  <1> QED
    BY <1>1, <1>2, <1>3, <1>4, <1>5, Distinct DEF Mirrors

LEMMA MirrorFlush ==
  ASSUME IInv, MirrorInv, Alone, Alone', NEW r \in Run, Flush(r)
  PROVE  MirrorInv'
  <1> DEFINE R == run[r]
             d == R.dev
  <1>1. /\ R \in RunState /\ R.pend \in [Dev -> Row \cup {None}] /\ RunInv(r) /\ d \in Dev
        /\ R.pc = "found" /\ MirrorRun(r) /\ UNCHANGED dev
        /\ run' = [run EXCEPT ![r] = AfterFlush(r)]
    BY Types DEF IInv, RunsInv, RunInv, Flush, MirrorInv
  <1>2. /\ Updated(r) \in Row /\ Flushed(r) \in Row
        /\ Updated(r).serial = R.node /\ Updated(r).uuid = View(r, d).uuid
        /\ Flushed(r).serial = R.node /\ Mirrors(Flushed(r), R.node, R.rep[R.node])
        /\ View(r, d) \in Row /\ View(r, d).serial = R.node
    BY <1>1, FlushMirrors
  <1>3. PICK q : q = AfterFlush(r)
    OBVIOUS
  <1>4. ASSUME Cardinality(ToUpdate(r)) > 1
        PROVE  /\ q.pend = [R.pend EXCEPT ![d] = Updated(r)] /\ q.pc = "next" /\ q.err
               /\ q.seen = R.seen /\ q.todo = R.todo /\ q.rep = R.rep
    BY <1>1, <1>3, <1>4 DEF AfterFlush, RunState
  <1>5. ASSUME ~(Cardinality(ToUpdate(r)) > 1)
        PROVE  /\ q.pend = [R.pend EXCEPT ![d] = Flushed(r)] /\ q.pc = "flushed" /\ q.err = R.err
               /\ q.seen = R.seen /\ q.todo = R.todo /\ q.rep = R.rep /\ q.dev = d /\ q.node = R.node
    BY <1>1, <1>3, <1>5 DEF AfterFlush, RunState
  <1>6. PICK x \in Row :
          /\ q.pend = [R.pend EXCEPT ![d] = x] /\ x.serial = R.node /\ x.uuid \in {None, R.node}
          /\ q.seen = R.seen /\ q.todo = R.todo /\ q.rep = R.rep
          /\ \/ q.pc = "next" /\ q.err
             \/ /\ q.pc = "flushed" /\ q.err = R.err /\ q.dev = d /\ q.node = R.node
                /\ Mirrors(x, R.node, R.rep[R.node])
    <2>1. View(r, d).uuid \in {None, R.node}
      BY <1>1, <1>2, Distinct DEF MirrorRun, Sound, Committed
    <2>2. Flushed(r).uuid = R.node
      BY <1>2 DEF Mirrors
    <2> QED
      BY <1>2, <1>4, <1>5, <2>1, <2>2
  <1>7. run'[r] = q /\ run' = [run EXCEPT ![r] = q]
    BY <1>1, <1>3, Types DEF IInv
  <1>8. \A e \in Dev : View(r, e)' = IF e = d THEN x ELSE View(r, e)
    BY <1>1, <1>6, <1>7, Distinct DEF View
  <1>9. Sound(Committed(r))'
    <2>1. ASSUME NEW e \in Dev, NEW f \in Dev, e # f, View(r, e)' # None, View(r, f)' # None
          PROVE  View(r, e)'.serial # View(r, f)'.serial
      BY <1>1, <1>2, <1>6, <1>8, <2>1, Distinct DEF MirrorRun, Sound, Committed
    <2>2. \A e \in Dev : View(r, e)' # None => View(r, e)'.uuid \in {None, View(r, e)'.serial}
      BY <1>1, <1>6, <1>8 DEF MirrorRun, Sound, Committed
    <2> QED
      BY <2>1, <2>2 DEF Sound, Committed
  <1>10. ASSUME NEW n \in R.seen
         PROVE  R.rep[n] # None /\ n \notin R.todo /\ n # R.node /\ \E e \in Dev : Mirrors(View(r, e)', n, R.rep[n])
    <2>1. R.rep[n] # None /\ n \notin R.todo /\ n # R.node
      BY <1>1 DEF MirrorRun, AtWork
    <2>2. PICK e \in Dev : Mirrors(View(r, e), n, R.rep[n])
      BY <1>1 DEF MirrorRun
    <2>3. n \in Node
      BY <1>1 DEF RunState
    <2>4. e # d
      BY <1>1, <1>2, <2>1, <2>2, <2>3, Distinct DEF Mirrors, MirrorRun, Sound, Committed
    <2> QED
      BY <1>8, <2>1, <2>2, <2>4
  <1>11. q.pc = "flushed" => Mirrors(View(r, q.dev)', q.node, q.rep[q.node])
    BY <1>1, <1>6, <1>8
  <1>12. MirrorRun(r)'
    BY <1>1, <1>6, <1>7, <1>9, <1>10, <1>11 DEF MirrorRun, AtWork
  <1> QED
    BY <1>1, <1>7, <1>12, MirrorStep DEF MirrorInv

\* The commit of a node that is mirrored by the tables as they are then.
LEMMA MirrorNode ==
  ASSUME IInv, MirrorInv, Alone, Alone', NEW r \in Run, run[r].pc \in {"new", "flushed"},
         NodeDone(r), Sound(dev'),
         \A d \in Dev : View(r, d) # None => dev'[d] = View(r, d),
         \E d \in Dev : Mirrors(dev'[d], run[r].node, run[r].rep[run[r].node])
  PROVE  MirrorInv'
  <1> DEFINE R == run[r]
  <1>1. R \in RunState /\ RunInv(r) /\ MirrorRun(r) /\ R.todo \subseteq Node /\ R.seen \subseteq Node
    BY Types DEF IInv, RunsInv, MirrorInv
  <1>2. PICK q : q = AfterNode(r)
    OBVIOUS
  <1>3. /\ q.pc = "next" /\ q.seen = R.seen \cup {R.node} /\ q.todo = R.todo /\ q.rep = R.rep
        /\ q.err = R.err /\ \A d \in Dev : q.pend[d] = None
    BY <1>1, <1>2, Constants DEF AfterNode, RunState
  <1>4. run'[r] = q /\ run' = [run EXCEPT ![r] = q]
    BY <1>2, Types DEF IInv, NodeDone
  <1>5. \A d \in Dev : View(r, d)' = dev'[d]
    BY <1>3, <1>4 DEF View
  <1>6. Sound(Committed(r))'
    BY <1>5 DEF Committed, Sound
  <1>7. ASSUME NEW n \in q.seen
        PROVE  R.rep[n] # None /\ n \notin R.todo /\ \E e \in Dev : Mirrors(View(r, e)', n, R.rep[n])
    <2>1. CASE n = R.node
      <3>1. R.rep[n] # None
        BY <1>1, <2>1 DEF RunInv
      <3>2. n \notin R.todo
        BY <1>1, <2>1 DEF MirrorRun, AtWork
      <3> QED
        BY <1>5, <2>1, <3>1, <3>2
    <2>2. CASE n \in R.seen
      <3>1. /\ R.rep[n] # None /\ n \notin R.todo
            /\ \E e \in Dev : Mirrors(View(r, e), n, R.rep[n])
        BY <1>1, <2>2 DEF MirrorRun
      <3>2. PICK e \in Dev : Mirrors(View(r, e), n, R.rep[n])
        BY <3>1
      <3>3. View(r, e)' = View(r, e)
        BY <1>5, <3>2 DEF Mirrors
      <3> QED
        BY <3>1, <3>2, <3>3
    <2> QED
      BY <1>3, <2>1, <2>2
  <1>8. ~q.err => \A n \in Node : R.rep[n] # None => n \in R.todo \cup q.seen
    BY <1>1, <1>3 DEF MirrorRun
  <1>9. MirrorRun(r)'
    BY <1>3, <1>4, <1>6, <1>7, <1>8 DEF MirrorRun, AtWork
  <1> QED
    BY <1>3, <1>4, <1>9, MirrorStep

LEMMA MirrorCommit ==
  ASSUME IInv, MirrorInv, Alone, Alone', NEW r \in Run, Commit(r)
  PROVE  MirrorInv'
  <1>1. CASE run[r].note # None /\ alert[run[r].note] = None
    <2>1. \A s \in Run : run'[s] = run[s] \/ run'[s].pc = "idle"
      BY <1>1, Constants, Types DEF Commit, Break, IInv
    <2> QED
      BY <1>1, <2>1, MirrorRest DEF Commit
  <1>2. CASE ~(run[r].note # None /\ alert[run[r].note] = None)
    <2>1. /\ run[r].pc = "flushed" /\ NodeDone(r) /\ dev' = Committed(r)
          /\ MirrorRun(r) /\ RunInv(r)
      BY <1>2 DEF Commit, MirrorInv, IInv, RunsInv
    <2>2. \A d \in Dev : dev'[d] = View(r, d)
      BY <2>1 DEF Committed
    <2>3. Sound(dev')
      BY <2>1 DEF MirrorRun
    <2>4. run[r].dev \in Dev /\ Mirrors(View(r, run[r].dev), run[r].node, run[r].rep[run[r].node])
      BY <2>1 DEF MirrorRun, RunInv
    <2> QED
      BY <2>1, <2>2, <2>3, <2>4, MirrorNode
  <1> QED
    BY <1>1, <1>2

LEMMA MirrorCommitNew ==
  ASSUME IInv, MirrorInv, Alone, Alone', NEW r \in Run, CommitNew(r)
  PROVE  MirrorInv'
  <1> DEFINE n == run[r].node
             v == run[r].rep[n]
             x == NewRow(n, v)
  <1>1. /\ run[r].pc = "new" /\ n \in Node /\ v \in Val /\ NodeDone(r) /\ MirrorRun(r) /\ RunInv(r)
    BY Types DEF CommitNew, IInv, RunsInv, RunInv, Report, MirrorInv
  <1>2. x \in Row /\ x # None /\ x.serial = n /\ x.uuid = n /\ Mirrors(x, n, v)
    <2>1. x \in Row /\ x # None
      BY <1>1, NewRowIsRow, Distinct
    <2> QED
      BY <2>1 DEF NewRow, Mirrors
  <1>3. PICK d \in Dev : dev[d] = None /\ dev' = [Committed(r) EXCEPT ![d] = x]
    BY DEF CommitNew
  <1> HIDE DEF x
  <1>4. \A e \in Dev : dev'[e] = IF e = d THEN x ELSE View(r, e)
    BY <1>3 DEF Committed
  <1>5. View(r, d) = None
    BY <1>1, <1>3 DEF View, RunInv
  <1>6. \A e \in Dev : View(r, e) # None => View(r, e).serial # n
    BY <1>1 DEF MirrorRun
  <1>7. Sound(dev')
    BY <1>1, <1>2, <1>4, <1>6 DEF Sound, Committed, MirrorRun
  <1> QED
    BY <1>1, <1>2, <1>4, <1>5, <1>7, MirrorNode

LEMMA MirrorSelect ==
  ASSUME IInv, MirrorInv, Alone, Alone', NEW r \in Run, MarkSelect(r)
  PROVE  MirrorInv'
  <1> DEFINE R == run[r]
             p == [R EXCEPT !.pc = "mark", !.stale = Stale(r)]
  <1>1. /\ R \in RunState /\ R.pc = "next" /\ R.todo = {} /\ MirrorRun(r) /\ UNCHANGED dev
        /\ run' = [run EXCEPT ![r] = p]
    BY Types DEF IInv, MirrorInv, MarkSelect
  <1>2. /\ p.pc = "mark" /\ p.stale = Stale(r) /\ p.pend = R.pend /\ p.seen = R.seen
        /\ p.todo = R.todo /\ p.rep = R.rep /\ p.err = R.err
    BY <1>1 DEF RunState
  <1> HIDE DEF p
  <1>3. PICK q : q = p
    OBVIOUS
  <1>4. run'[r] = q /\ run' = [run EXCEPT ![r] = q]
    BY <1>1, <1>3, Types DEF IInv
  <1>5. \A d : View(r, d)' = View(r, d)
    BY <1>1, <1>2, <1>3, <1>4 DEF View
  <1>6. Committed(r)' = Committed(r) /\ \A d : Synced(r, d)' <=> Synced(r, d)
    BY <1>5 DEF Committed, Synced
  <1>7. /\ \A d \in Dev : Synced(r, d) => d \in Stale(r) \/ View(r, d).uuid \in R.seen
        /\ \A d \in Stale(r) : View(r, d).uuid \notin R.seen
    BY DEF Stale, Synced
  <1>8. MirrorRun(r)'
    BY <1>1, <1>2, <1>3, <1>4, <1>5, <1>6, <1>7 DEF MirrorRun, AtWork
  <1> QED
    BY <1>1, <1>4, <1>8, MirrorStep DEF MirrorInv

LEMMA MirrorMark ==
  ASSUME IInv, MirrorInv, Alone, Alone', NEW r \in Run, MarkCommit(r)
  PROVE  MirrorInv'
  <1> DEFINE R == run[r]
  <1>1. /\ R \in RunState /\ R.pc = "mark" /\ MirrorRun(r) /\ RunInv(r) /\ R.stale \subseteq Dev
        /\ dev' = [d \in Dev |-> Marked(r, d)] /\ run' = [run EXCEPT ![r] = AfterMark(r)]
    BY Types DEF IInv, RunsInv, MirrorInv, MarkCommit
  <1>2. PICK q : q = AfterMark(r)
    OBVIOUS
  <1>3. /\ q.pc = "done" /\ q.seen = R.seen /\ q.todo = R.todo /\ q.rep = R.rep /\ q.err = R.err
        /\ \A d \in Dev : q.pend[d] = None
    BY <1>1, <1>2, Constants DEF AfterMark, RunState
  <1>4. run'[r] = q /\ run' = [run EXCEPT ![r] = q]
    BY <1>1, <1>2, Types DEF IInv
  <1>5. \A d \in Dev : View(r, d)' = Marked(r, d) /\ dev'[d] = Marked(r, d)
    BY <1>1, <1>3, <1>4 DEF View
  <1>6. ASSUME NEW d \in Dev
        PROVE  /\ d \notin R.stale => Marked(r, d) = View(r, d)
               /\ d \in R.stale => /\ Marked(r, d).status = "inactive" /\ View(r, d) # None
                                   /\ Marked(r, d).serial = View(r, d).serial
                                   /\ Marked(r, d).uuid = View(r, d).uuid
    <2>1. d \in R.stale => View(r, d) \in Row
      BY <1>1, ViewRow DEF RunInv, IInv
    <2> QED
      BY <2>1, Distinct DEF Marked, Row
  <1>7. Sound(dev') /\ Sound(Committed(r))'
    <2>1. Sound(dev')
      BY <1>1, <1>5, <1>6 DEF Sound, Committed, MirrorRun
    <2> QED
      BY <1>5, <2>1 DEF Sound, Committed
  <1>8. ASSUME NEW n \in R.seen
        PROVE  \E d \in Dev : Mirrors(View(r, d)', n, R.rep[n])
    <2>1. PICK d \in Dev : Mirrors(View(r, d), n, R.rep[n])
      BY <1>1 DEF MirrorRun
    <2>2. d \notin R.stale
      BY <1>1, <2>1 DEF MirrorRun, Mirrors
    <2> QED
      BY <1>5, <1>6, <2>1, <2>2
  <1>9. ASSUME NEW d \in Dev, Synced(r, d)' PROVE View(r, d)'.uuid \in R.seen
    <2>1. View(r, d)' = Marked(r, d) /\ d \notin R.stale
      BY <1>5, <1>6, <1>9 DEF Synced
    <2> QED
      BY <1>1, <1>6, <1>9, <2>1 DEF Synced, MirrorRun
  <1>10. MirrorRun(r)'
    BY <1>1, <1>3, <1>4, <1>7, <1>8, <1>9 DEF MirrorRun, AtWork
  <1> QED
    BY <1>1, <1>4, <1>7, <1>10, MirrorStep

LEMMA MirrorNext ==
  ASSUME IInv, MirrorInv, Alone, Alone', [Next]_vars
  PROVE  MirrorInv'
  <1>1. ASSUME UNCHANGED <<dev, run>> PROVE MirrorInv'
    BY <1>1, MirrorRest
  <1>2. ASSUME NEW r \in Run, Finish(r) \/ DatabaseError(r) PROVE MirrorInv'
    <2>1. UNCHANGED dev /\ \A s \in Run : run'[s] = run[s] \/ run'[s].pc = "idle"
      BY <1>2, Constants, Types DEF Finish, DatabaseError, Break, IInv
    <2> QED
      BY <2>1, MirrorRest
  <1>3. CASE Crash
    <2>1. UNCHANGED dev /\ \A s \in Run : run'[s].pc = "idle"
      BY <1>3, Constants DEF Crash
    <2> QED
      BY <2>1, MirrorRest
  <1> QED
    BY <1>1, <1>2, <1>3, MirrorBegin, MirrorLookup, MirrorFlush, MirrorCommit, MirrorCommitNew,
       MirrorSelect, MirrorMark
       DEF Next, RunStep, vars, Acknowledge, DeleteAlert, PostSelect, PostCommit, SourceChanges

LEMMA MirrorInit == Init => MirrorInv
  BY Constants DEF Init, MirrorInv, Sound

LEMMA MirrorAlways == Spec /\ []Alone => []MirrorInv
  <1>1. IInv /\ MirrorInv /\ Alone /\ Alone' /\ [Next]_vars => MirrorInv'
    BY MirrorNext
  <1> QED
    BY <1>1, MirrorInit, Inductive, PTL DEF Spec

\* As long as runs do not overlap, a run that ends without errors leaves the
\* inventory as the integration reported it.
THEOREM RunMirrorsReport == Spec /\ []Alone => []MirrorsReport
  <1>1. ASSUME MirrorInv, IInv PROVE MirrorsReport
    <2>1. ASSUME NEW r \in Run, run[r].pc = "done", ~run[r].err
          PROVE  /\ \A n \in Node : run[r].rep[n] # None =>
                      \E d \in Dev : Mirrors(dev[d], n, run[r].rep[n])
                 /\ \A d \in Dev : dev[d] # None /\ dev[d].status = "active" /\ dev[d].uuid # None =>
                      run[r].rep[dev[d].uuid] # None
      <3>1. MirrorRun(r) /\ \A d \in Dev : View(r, d) = dev[d]
        BY <1>1, <2>1 DEF MirrorInv, MirrorRun, View
      <3>2. ~AtWork(r) /\ run[r].todo = {}
        BY <2>1, <3>1 DEF AtWork, MirrorRun
      <3>3. \A n \in Node : run[r].rep[n] # None =>
              n \in run[r].seen /\ \E d \in Dev : Mirrors(dev[d], n, run[r].rep[n])
        BY <2>1, <3>1, <3>2 DEF MirrorRun
      <3>4. \A d \in Dev : dev[d] # None /\ dev[d].status = "active" /\ dev[d].uuid # None =>
              dev[d].uuid \in run[r].seen
        BY <2>1, <3>1 DEF MirrorRun, Synced
      <3> QED
        BY <3>1, <3>3, <3>4 DEF MirrorRun
    <2> QED
      BY <2>1 DEF MirrorsReport, Mirrored, Mirrors
  <1> QED
    BY <1>1, MirrorAlways, Inductive, PTL
-----------------------------------------------------------------------------
(* Runs that do not overlap: a mirrored machine stays mirrored *)

\* What a run without errors has not committed yet is the device of the node at
\* hand, flushed.
CleanRun(r) == LET R == run[r] IN
  R.pc # "idle" /\ ~R.err =>
    \A d \in Dev : R.pend[d] # None => R.pc = "flushed" /\ d = R.dev /\ dev[d].serial = R.node

CleanInv == \A r \in Run : CleanRun(r)

\* A step of the only run.
LEMMA CleanStep ==
  ASSUME IInv, CleanInv, Alone, Alone', NEW r \in Run, NEW q, run' = [run EXCEPT ![r] = q],
         run[r].pc # "idle" \/ q.pc # "idle", CleanRun(r)'
  PROVE  CleanInv'
  <1>1. run'[r] = q /\ \A s \in Run : s # r => run'[s] = run[s]
    BY Types DEF IInv
  <1>2. ASSUME NEW s \in Run, s # r PROVE CleanRun(s)'
    <2>1. run'[s].pc = "idle"
      BY <1>1, <1>2 DEF Alone
    <2> QED
      BY <2>1 DEF CleanRun
  <1> QED
    BY <1>2 DEF CleanInv

\* A step after which the run has nothing uncommitted, or its node was an error.
LEMMA CleanEmpty ==
  ASSUME IInv, CleanInv, Alone, Alone', NEW r \in Run, NEW q, run' = [run EXCEPT ![r] = q],
         run[r].pc # "idle" \/ q.pc # "idle", q.err \/ \A d \in Dev : q.pend[d] = None
  PROVE  CleanInv'
  <1>1. run'[r] = q
    BY Types DEF IInv
  <1>2. CleanRun(r)'
    BY <1>1 DEF CleanRun
  <1> QED
    BY <1>2, CleanStep

\* A step that ends runs, or touches neither devices nor runs.
LEMMA CleanRest ==
  ASSUME CleanInv, UNCHANGED dev, \A s \in Run : run'[s] = run[s] \/ run'[s].pc = "idle"
  PROVE  CleanInv'
  BY DEF CleanInv, CleanRun

LEMMA CleanBegin ==
  ASSUME IInv, CleanInv, Alone, Alone', NEW r \in Run, NEW i \in Src, Begin(r, i)
  PROVE  CleanInv'
  <1> DEFINE p == [NoRun EXCEPT !.pc = "next", !.rep = source[i],
                     !.todo = {n \in Node : source[i][n] # None}]
  <1>1. p.pc = "next" /\ \A d \in Dev : p.pend[d] = None
    BY DEF NoRun
  <1>2. run' = [run EXCEPT ![r] = p]
    BY DEF Begin
  <1> HIDE DEF p
  <1> QED
    BY <1>1, <1>2, CleanEmpty

\* Between two nodes a run without errors has nothing uncommitted.
LEMMA NothingPending ==
  ASSUME CleanInv, NEW r \in Run, run[r].pc \notin {"idle", "flushed"}, ~run[r].err
  PROVE  \A d \in Dev : run[r].pend[d] = None
  BY DEF CleanInv, CleanRun

LEMMA CleanLookup ==
  ASSUME IInv, CleanInv, Alone, Alone', NEW r \in Run, Lookup(r)
  PROVE  CleanInv'
  <1>1. run[r] \in RunState /\ run[r].pc = "next"
    BY Types DEF IInv, Lookup
  <1>2. PICK n \in run[r].todo : run' = [run EXCEPT ![r] = LookedUp(r, n)]
    BY DEF Lookup
  <1>3. PICK q : q = LookedUp(r, n)
    OBVIOUS
  <1>4. q.pend = run[r].pend /\ (q.err \/ q.err = run[r].err)
    BY <1>1, <1>3 DEF RunState, LookedUp
  <1>5. q.err \/ \A d \in Dev : q.pend[d] = None
    BY <1>1, <1>4, NothingPending
  <1> QED
    BY <1>1, <1>2, <1>3, <1>5, CleanEmpty

LEMMA CleanFlush ==
  ASSUME IInv, MirrorInv, CleanInv, Alone, Alone', NEW r \in Run, Flush(r)
  PROVE  CleanInv'
  <1> DEFINE R == run[r]
             d == R.dev
  <1>1. /\ R \in RunState /\ R.pend \in [Dev -> Row \cup {None}] /\ RunInv(r) /\ d \in Dev
        /\ R.pc = "found" /\ MirrorRun(r) /\ UNCHANGED dev
        /\ run' = [run EXCEPT ![r] = AfterFlush(r)]
    BY Types DEF IInv, RunsInv, RunInv, Flush, MirrorInv
  <1>2. PICK q : q = AfterFlush(r)
    OBVIOUS
  <1>3. \/ q.err
        \/ /\ q.pend = [R.pend EXCEPT ![d] = Flushed(r)] /\ q.pc = "flushed" /\ q.err = R.err
           /\ q.dev = d /\ q.node = R.node
    BY <1>1, <1>2 DEF AfterFlush, RunState
  <1>4. run'[r] = q /\ run' = [run EXCEPT ![r] = q]
    BY <1>1, <1>2, Types DEF IInv
  <1>5. CASE q.err
    BY <1>1, <1>4, <1>5, CleanEmpty
  <1>6. CASE ~q.err
    <2>1. ~R.err /\ \A e \in Dev : R.pend[e] = None
      BY <1>1, <1>3, <1>6, NothingPending
    <2>2. dev[d].serial = R.node
      BY <1>1, <2>1 DEF MirrorRun, View
    <2>3. CleanRun(r)'
      BY <1>1, <1>3, <1>4, <1>6, <2>1, <2>2 DEF CleanRun
    <2> QED
      BY <1>1, <1>4, <2>3, CleanStep
  <1> QED
    BY <1>5, <1>6

LEMMA CleanCommit ==
  ASSUME IInv, CleanInv, Alone, Alone', NEW r \in Run, Commit(r) \/ CommitNew(r)
  PROVE  CleanInv'
  <1>1. CASE Break(r)
    BY <1>1, Constants, CleanEmpty DEF Break, Commit, CommitNew
  <1>2. CASE NodeDone(r)
    <2>1. run[r] \in RunState /\ run[r].pc # "idle"
      BY Types DEF IInv, Commit, CommitNew
    <2>2. PICK q : q = AfterNode(r)
      OBVIOUS
    <2>3. \A d \in Dev : q.pend[d] = None
      BY <2>1, <2>2, Constants DEF AfterNode, RunState
    <2>4. run' = [run EXCEPT ![r] = q]
      BY <1>2, <2>2 DEF NodeDone
    <2> QED
      BY <2>1, <2>3, <2>4, CleanEmpty
  <1> QED
    BY <1>1, <1>2 DEF Commit, CommitNew

LEMMA CleanMark ==
  ASSUME IInv, CleanInv, Alone, Alone', NEW r \in Run, MarkSelect(r) \/ MarkCommit(r)
  PROVE  CleanInv'
  <1>1. run[r] \in RunState
    BY Types DEF IInv
  <1>2. CASE MarkSelect(r)
    <2>1. PICK q : q = [run[r] EXCEPT !.pc = "mark", !.stale = Stale(r)]
      OBVIOUS
    <2>2. q.pend = run[r].pend /\ q.err = run[r].err
      BY <1>1, <2>1 DEF RunState
    <2>3. run' = [run EXCEPT ![r] = q] /\ run[r].pc = "next"
      BY <1>2, <2>1 DEF MarkSelect
    <2>4. q.err \/ \A d \in Dev : q.pend[d] = None
      BY <1>1, <2>2, <2>3, NothingPending DEF RunState
    <2> QED
      BY <2>3, <2>4, CleanEmpty
  <1>3. CASE MarkCommit(r)
    <2>1. PICK q : q = AfterMark(r)
      OBVIOUS
    <2>2. \A d \in Dev : q.pend[d] = None
      BY <1>1, <2>1, Constants DEF AfterMark, RunState
    <2>3. run' = [run EXCEPT ![r] = q] /\ run[r].pc = "mark"
      BY <1>3, <2>1 DEF MarkCommit
    <2> QED
      BY <2>2, <2>3, CleanEmpty
  <1> QED
    BY <1>2, <1>3

LEMMA CleanNext ==
  ASSUME IInv, MirrorInv, CleanInv, Alone, Alone', [Next]_vars
  PROVE  CleanInv'
  <1>1. ASSUME UNCHANGED <<dev, run>> PROVE CleanInv'
    BY <1>1, CleanRest
  <1>2. ASSUME NEW r \in Run, Finish(r) \/ DatabaseError(r) PROVE CleanInv'
    <2>1. UNCHANGED dev /\ \A s \in Run : run'[s] = run[s] \/ run'[s].pc = "idle"
      BY <1>2, Constants, Types DEF Finish, DatabaseError, Break, IInv
    <2> QED
      BY <2>1, CleanRest
  <1>3. CASE Crash
    <2>1. UNCHANGED dev /\ \A s \in Run : run'[s].pc = "idle"
      BY <1>3, Constants DEF Crash
    <2> QED
      BY <2>1, CleanRest
  <1> QED
    BY <1>1, <1>2, <1>3, CleanBegin, CleanLookup, CleanFlush, CleanCommit, CleanMark
       DEF Next, RunStep, vars, Acknowledge, DeleteAlert, PostSelect, PostCommit, SourceChanges

LEMMA CleanInit == Init => CleanInv
  BY Constants DEF Init, CleanInv, CleanRun

\* What the report repeats, no commit of the run takes back.
Repeated(n, v) == \A r \in Run : run[r].pc # "idle" => run[r].rep[n] = v /\ ~run[r].err

\* A commit of the node at hand leaves the device of a mirrored node mirrored.
LEMMA StaysCommit ==
  ASSUME IInv, MirrorInv, CleanInv, NEW r \in Run, Commit(r) \/ CommitNew(r),
         NEW n \in Node, NEW v \in Val, Repeated(n, v), NEW d \in Dev, Mirrors(dev[d], n, v)
  PROVE  Mirrors(dev'[d], n, v)
  <1>1. CASE UNCHANGED dev
    BY <1>1
  <1>2. CASE dev'[d] = View(r, d)
    <2>1. CASE run[r].pend[d] = None
      BY <1>2, <2>1 DEF View
    <2>2. CASE run[r].pend[d] # None
      <3>1. run[r].pc # "idle" /\ ~run[r].err /\ run[r].rep[n] = v
        BY DEF Commit, CommitNew, Repeated
      <3>2. run[r].pc = "flushed" /\ d = run[r].dev /\ dev[d].serial = run[r].node
        BY <2>2, <3>1 DEF CleanInv, CleanRun
      <3>3. dev[d].serial = n
        BY Distinct DEF MirrorInv, Sound, Mirrors
      <3>4. Mirrors(View(r, d), run[r].node, run[r].rep[run[r].node])
        BY <3>1, <3>2 DEF MirrorInv, MirrorRun
      <3> QED
        BY <1>2, <3>1, <3>2, <3>3, <3>4
    <2> QED
      BY <2>1, <2>2
  <1>3. dev[d] # None
    BY DEF Mirrors
  <1>4. ASSUME Commit(r) PROVE UNCHANGED dev \/ dev'[d] = View(r, d)
    BY <1>4 DEF Commit, Committed
  <1>5. ASSUME CommitNew(r) PROVE dev'[d] = View(r, d)
    BY <1>3, <1>5 DEF CommitNew, Committed
  <1> QED
    BY <1>1, <1>2, <1>4, <1>5

\* A mirrored node was seen, so that its device is not among those to deactivate.
LEMMA StaysMark ==
  ASSUME IInv, MirrorInv, CleanInv, NEW r \in Run, MarkCommit(r),
         NEW n \in Node, NEW v \in Val, Repeated(n, v), NEW d \in Dev, Mirrors(dev[d], n, v)
  PROVE  Mirrors(dev'[d], n, v)
  <1>1. /\ run[r].pc = "mark" /\ ~run[r].err /\ run[r].rep[n] = v /\ v # None
        /\ MirrorRun(r) /\ dev'[d] = Marked(r, d)
    BY Distinct DEF MarkCommit, Repeated, MirrorInv
  <1>2. View(r, d) = dev[d]
    BY <1>1, NothingPending DEF View
  <1>3. n \in run[r].seen
    BY <1>1 DEF MirrorRun, AtWork
  <1>4. d \notin run[r].stale
    BY <1>1, <1>2, <1>3 DEF MirrorRun, Mirrors
  <1> QED
    BY <1>1, <1>2, <1>4 DEF Marked

LEMMA StaysNext ==
  ASSUME IInv, MirrorInv, CleanInv, [Next]_vars,
         NEW n \in Node, NEW v \in Val, Repeated(n, v), NEW d \in Dev, Mirrors(dev[d], n, v)
  PROVE  Mirrors(dev'[d], n, v)
  <1>1. CASE UNCHANGED dev
    BY <1>1
  <1> QED
    BY <1>1, StaysCommit, StaysMark
       DEF Next, RunStep, vars, Begin, Lookup, Flush, MarkSelect, Finish, DatabaseError,
           Acknowledge, DeleteAlert, PostSelect, PostCommit, SourceChanges, Crash

\* As long as runs do not overlap, a machine that is in the inventory as it is
\* reported stays so while the runs keep reporting it and have no errors: neither
\* the lookup nor the flush loses it, and it is not taken for a missing one.  This
\* is the safety half of SyncConverges: that the machine gets there takes fairness.
THEOREM MirroredStays == Spec /\ []Alone => StaysMirrored
  <1>1. IInv /\ MirrorInv /\ CleanInv /\ Alone /\ Alone' /\ [Next]_vars => CleanInv'
    BY CleanNext
  <1>2. ASSUME IInv, MirrorInv, CleanInv, [Next]_vars
        PROVE  \A n \in Node, v \in Val :
                 /\ Mirrored(n, v)
                 /\ \A r \in Run : run[r].pc # "idle" => run[r].rep[n] = v /\ ~run[r].err
                 => Mirrored(n, v)'
    <2>1. ASSUME NEW n \in Node, NEW v \in Val, Mirrored(n, v), Repeated(n, v)
          PROVE  Mirrored(n, v)'
      <3>1. PICK d \in Dev : Mirrors(dev[d], n, v)
        BY <2>1 DEF Mirrored, Mirrors
      <3>2. Mirrors(dev'[d], n, v)
        BY <1>2, <2>1, <3>1, StaysNext
      <3> QED
        BY <3>2 DEF Mirrored, Mirrors
    <2> QED
      BY <2>1 DEF Repeated
  <1> QED
    BY <1>1, <1>2, CleanInit, MirrorAlways, Inductive, PTL DEF Spec, StaysMirrored
-----------------------------------------------------------------------------
(* Runs that overlap: one device per machine *)

\* No two runs are about to insert the same machine: the one way to a duplicate,
\* since no unique index covers the serial number or the UUID.
ApartInserts ==
  \A q, r \in Run : q # r /\ run[q].pc = "new" /\ run[r].pc = "new" => run[q].node # run[r].node

\* The row x is a version of the row y: of the same machine.
Version(x, y) == x.serial = y.serial /\ x.uuid \in {None, x.serial}

\* A run's uncommitted changes leave the machine of a device as it is, the device
\* that it found is that of its node, and a node that it is about to insert has none.
TidyRun(r) == LET R == run[r] IN
  /\ \A d \in Dev : R.pend[d] # None => Version(R.pend[d], dev[d])
  /\ R.pc = "found" => dev[R.dev].serial = R.node
  /\ R.pc = "new" => \A d \in Dev : dev[d] # None => dev[d].serial # R.node

TidyInv == Sound(dev) /\ \A r \in Run : TidyRun(r)

\* What a run sees of the devices is as sound as the table.
LEMMA TidyView ==
  ASSUME IInv, TidyInv, NEW r \in Run
  PROVE  /\ \A d \in Dev : dev[d] # None => View(r, d) # None /\ Version(View(r, d), dev[d])
         /\ \A d \in Dev : dev[d] = None => View(r, d) = None
         /\ Sound(Committed(r))
  <1>1. RunInv(r) /\ TidyRun(r)
    BY DEF IInv, RunsInv, TidyInv
  <1>2. ASSUME NEW d \in Dev, dev[d] # None
        PROVE  View(r, d) # None /\ Version(View(r, d), dev[d])
    BY <1>1, <1>2 DEF View, TidyInv, TidyRun, Sound, Version
  <1>3. \A d \in Dev : dev[d] = None => View(r, d) = None
    BY <1>1 DEF View, RunInv
  <1>4. Sound(Committed(r))
    BY <1>2, <1>3 DEF Committed, Sound, TidyInv, Version
  <1> QED
    BY <1>2, <1>3, <1>4

\* A step of one run that inserts no device and leaves each the same machine.
LEMMA TidyMove ==
  ASSUME IInv, TidyInv, NEW r \in Run, NEW q, run' = [run EXCEPT ![r] = q],
         \A d \in Dev : dev[d] = None => dev'[d] = None,
         \A d \in Dev : dev[d] # None => dev'[d] # None /\ Version(dev'[d], dev[d]),
         TidyRun(r)'
  PROVE  TidyInv'
  <1>1. Sound(dev')
    BY DEF Sound, TidyInv, Version
  <1>2. ASSUME NEW s \in Run, s # r PROVE TidyRun(s)'
    <2>1. run'[s] = run[s] /\ TidyRun(s) /\ RunInv(s)
      BY <1>2, Types DEF IInv, RunsInv, TidyInv
    <2> QED
      BY <2>1 DEF TidyRun, RunInv, Version
  <1> QED
    BY <1>1, <1>2 DEF TidyInv

LEMMA TidyBegin ==
  ASSUME IInv, TidyInv, NEW r \in Run, NEW i \in Src, Begin(r, i)
  PROVE  TidyInv'
  <1> DEFINE q == [NoRun EXCEPT !.pc = "next", !.rep = source[i],
                     !.todo = {n \in Node : source[i][n] # None}]
  <1>1. q.pc = "next" /\ \A d \in Dev : q.pend[d] = None
    BY DEF NoRun
  <1>2. run' = [run EXCEPT ![r] = q] /\ UNCHANGED dev
    BY DEF Begin
  <1> HIDE DEF q
  <1>3. TidyRun(r)'
    BY <1>1, <1>2, Types DEF TidyRun, IInv
  <1> QED
    BY <1>2, <1>3, TidyMove DEF TidyInv, Sound, Version

LEMMA TidyLookup ==
  ASSUME IInv, TidyInv, NEW r \in Run, Lookup(r)
  PROVE  TidyInv'
  <1> DEFINE R == run[r]
  <1>1. /\ R \in RunState /\ R.pc = "next" /\ R.todo \subseteq Node /\ TidyRun(r)
        /\ UNCHANGED dev
    BY Types DEF IInv, Lookup, TidyInv
  <1>2. PICK n \in R.todo : run' = [run EXCEPT ![r] = LookedUp(r, n)]
    BY DEF Lookup
  <1> DEFINE D == Match(r, n)
  <1>3. /\ \A d \in D : d \in Dev /\ View(r, d) # None /\ View(r, d).serial = n
        /\ D = {} => \A d \in Dev : View(r, d) # None => View(r, d).serial # n
    BY <1>1, Distinct, TidyView, MatchIsSerial
  <1>4. /\ \A d \in D : dev[d].serial = n
        /\ D = {} => \A d \in Dev : dev[d] # None => dev[d].serial # n
    BY <1>3, TidyView DEF Version
  <1> HIDE DEF D
  <1>5. D # {} => OneOrNone(D) \in D
    BY OneOrNoneMember
  <1>6. PICK q : q = LookedUp(r, n)
    OBVIOUS
  <1>7. /\ q.pend = R.pend
        /\ \/ q.pc = "next"
           \/ q.pc = "new" /\ q.node = n /\ D = {}
           \/ q.pc = "found" /\ q.node = n /\ q.dev \in D
    BY <1>1, <1>5, <1>6 DEF RunState, LookedUp, D
  <1>8. run' = [run EXCEPT ![r] = q]
    BY <1>2, <1>6
  <1>9. TidyRun(r)'
    BY <1>1, <1>4, <1>7, <1>8, Types DEF TidyRun, IInv
  <1> QED
    BY <1>1, <1>8, <1>9, TidyMove DEF TidyInv, Sound, Version

\* A flush writes the serial number and the UUID of the node that was found.
LEMMA FlushVersion ==
  ASSUME IInv, TidyInv, NEW r \in Run, run[r].pc = "found"
  PROVE  Version(Updated(r), dev[run[r].dev]) /\ Version(Flushed(r), dev[run[r].dev])
  <1>1. /\ run[r].dev \in Dev /\ dev[run[r].dev] # None /\ run[r].node \in Node
        /\ dev[run[r].dev].serial = run[r].node
    BY DEF IInv, RunsInv, RunInv, TidyInv, TidyRun
  <1>2. View(r, run[r].dev) \in Row /\ Version(View(r, run[r].dev), dev[run[r].dev])
    BY <1>1, ViewRow, TidyView DEF IInv
  <1>3. /\ Updated(r) \in Row /\ Updated(r).serial = run[r].node
        /\ Updated(r).uuid = View(r, run[r].dev).uuid
    BY <1>2, FlushRow DEF Updated, Row
  <1>4. Flushed(r).serial = run[r].node /\ Flushed(r).uuid = run[r].node
    BY <1>3 DEF Flushed, Row
  <1> QED
    BY <1>1, <1>2, <1>3, <1>4 DEF Version

LEMMA TidyFlush ==
  ASSUME IInv, TidyInv, NEW r \in Run, Flush(r)
  PROVE  TidyInv'
  <1> DEFINE R == run[r]
             q == AfterFlush(r)
  <1>1. /\ R \in RunState /\ R.pend \in [Dev -> Row \cup {None}] /\ R.pc = "found"
        /\ R.dev \in Dev /\ TidyRun(r) /\ UNCHANGED dev /\ run' = [run EXCEPT ![r] = q]
    BY Types DEF IInv, RunsInv, RunInv, TidyInv, Flush
  <1>2. /\ q.pc \in {"next", "flushed"}
        /\ \/ q.pend = [R.pend EXCEPT ![R.dev] = Updated(r)]
           \/ q.pend = [R.pend EXCEPT ![R.dev] = Flushed(r)]
    BY <1>1 DEF AfterFlush, RunState
  <1> HIDE DEF q
  <1>3. \A d \in Dev : q.pend[d] # None => Version(q.pend[d], dev[d])
    BY <1>1, <1>2, FlushVersion DEF TidyRun
  <1>4. TidyRun(r)'
    BY <1>1, <1>2, <1>3, Types DEF TidyRun, IInv
  <1> QED
    BY <1>1, <1>4, TidyMove DEF TidyInv, Sound, Version

\* A run that commits nothing new, or ends.
LEMMA TidyCommit ==
  ASSUME IInv, TidyInv, NEW r \in Run, Commit(r)
  PROVE  TidyInv'
  <1>1. PICK q : run' = [run EXCEPT ![r] = q] /\ q.pc \in {"idle", "next"}
                 /\ \A d \in Dev : q.pend[d] = None
    <2>1. CASE Break(r)
      BY <2>1, Constants DEF Break
    <2>2. CASE NodeDone(r)
      <3>1. run[r].node \in Node /\ run[r].stale = {}
        BY DEF Commit, IInv, RunsInv, RunInv
      <3> QED
        BY <2>2, <3>1, DoneRun
    <2> QED
      BY <2>1, <2>2 DEF Commit
  <1>2. dev' = dev \/ dev' = Committed(r)
    BY DEF Commit
  <1>3. \A d \in Dev : /\ dev[d] = None => dev'[d] = None
                       /\ dev[d] # None => dev'[d] # None /\ Version(dev'[d], dev[d])
    BY <1>2, TidyView DEF Committed, TidyInv, Sound, Version
  <1>4. TidyRun(r)'
    BY <1>1, Types DEF TidyRun, IInv
  <1> QED
    BY <1>1, <1>3, <1>4, TidyMove

\* The inserted machine has no other device, and no other run is about to insert it.
LEMMA TidyCommitNew ==
  ASSUME IInv, TidyInv, ApartInserts, NEW r \in Run, CommitNew(r)
  PROVE  TidyInv'
  <1> DEFINE n == run[r].node
             x == NewRow(n, run[r].rep[n])
  <1>1. n \in Node /\ run[r].rep[n] \in Val /\ run[r].pc = "new" /\ TidyRun(r)
    BY Types DEF CommitNew, IInv, RunsInv, RunInv, Report, TidyInv
  <1>2. x # None /\ x.serial = n /\ x.uuid = n
    <2>1. x \in Row
      BY <1>1, NewRowIsRow
    <2> QED
      BY <2>1, Distinct DEF NewRow
  <1>3. PICK d \in Dev : dev[d] = None /\ dev' = [Committed(r) EXCEPT ![d] = x]
    BY DEF CommitNew
  <1> HIDE DEF x
  <1>4. /\ dev'[d] = x
        /\ \A e \in Dev : e # d => /\ dev[e] = None => dev'[e] = None
                                   /\ dev[e] # None => dev'[e] # None /\ Version(dev'[e], dev[e])
    BY <1>3, TidyView DEF Committed
  <1>5. \A e \in Dev : dev[e] # None => dev[e].serial # n
    BY <1>1 DEF TidyRun
  <1>6. Sound(dev')
    BY <1>2, <1>4, <1>5 DEF Sound, TidyInv, Version
  <1>7. PICK q : run' = [run EXCEPT ![r] = q] /\ q.pc = "next" /\ \A e \in Dev : q.pend[e] = None
    <2>1. run[r].stale = {} /\ NodeDone(r)
      BY <1>1 DEF CommitNew, IInv, RunsInv, RunInv
    <2> QED
      BY <1>1, <2>1, DoneRun
  <1>8. TidyRun(r)'
    BY <1>7, Types DEF TidyRun, IInv
  <1>9. ASSUME NEW s \in Run, s # r PROVE TidyRun(s)'
    <2>1. run'[s] = run[s] /\ TidyRun(s) /\ RunInv(s)
      BY <1>7, <1>9, Types DEF IInv, RunsInv, TidyInv
    <2>2. run[s].pc = "new" => run[s].node # n
      BY <1>1, <1>9 DEF ApartInserts
    <2> QED
      BY <1>2, <1>3, <1>4, <2>1, <2>2 DEF TidyRun, RunInv, Version
  <1> QED
    BY <1>6, <1>8, <1>9 DEF TidyInv

LEMMA TidySelect ==
  ASSUME IInv, TidyInv, NEW r \in Run, MarkSelect(r)
  PROVE  TidyInv'
  <1> DEFINE q == [run[r] EXCEPT !.pc = "mark", !.stale = Stale(r)]
  <1>1. q.pc = "mark" /\ q.pend = run[r].pend
    BY Types DEF IInv, RunState
  <1>2. run' = [run EXCEPT ![r] = q] /\ UNCHANGED dev
    BY DEF MarkSelect
  <1> HIDE DEF q
  <1>3. TidyRun(r)'
    BY <1>1, <1>2, Types DEF TidyRun, TidyInv, IInv
  <1> QED
    BY <1>2, <1>3, TidyMove DEF TidyInv, Sound, Version

LEMMA TidyMark ==
  ASSUME IInv, TidyInv, NEW r \in Run, MarkCommit(r)
  PROVE  TidyInv'
  <1>1. run' = [run EXCEPT ![r] = AfterMark(r)] /\ dev' = [d \in Dev |-> Marked(r, d)]
    BY DEF MarkCommit
  <1>2. AfterMark(r).pc = "done" /\ \A d \in Dev : AfterMark(r).pend[d] = None
    BY Types, Constants DEF AfterMark, IInv, RunState
  <1>3. TidyRun(r)'
    BY <1>1, <1>2, Types DEF TidyRun, IInv
  <1>4. ASSUME NEW d \in Dev
        PROVE  /\ dev[d] = None => Marked(r, d) = None
               /\ dev[d] # None => Marked(r, d) # None /\ Version(Marked(r, d), dev[d])
    <2>1. CASE dev[d] = None
      <3>1. d \notin run[r].stale /\ View(r, d) = None
        BY <2>1, TidyView DEF IInv, RunsInv, RunInv
      <3> QED
        BY <2>1, <3>1 DEF Marked
    <2>2. CASE dev[d] # None
      <3>1. View(r, d) \in Row /\ Version(View(r, d), dev[d])
        BY <2>2, ViewRow, TidyView DEF IInv
      <3>2. /\ Marked(r, d) # None /\ Marked(r, d).serial = View(r, d).serial
            /\ Marked(r, d).uuid = View(r, d).uuid
        BY <2>2, <3>1, MarkedRow, Distinct DEF Marked, Row
      <3> QED
        BY <2>2, <3>1, <3>2 DEF Version
    <2> QED
      BY <2>1, <2>2
  <1> QED
    BY <1>1, <1>3, <1>4, TidyMove

LEMMA TidyNext ==
  ASSUME IInv, TidyInv, ApartInserts, [Next]_vars
  PROVE  TidyInv'
  <1>1. ASSUME UNCHANGED <<dev, run>> PROVE TidyInv'
    BY <1>1 DEF TidyInv, TidyRun, Sound
  <1>2. ASSUME NEW r \in Run, Finish(r) \/ DatabaseError(r) PROVE TidyInv'
    <2>1. UNCHANGED dev /\ run' = [run EXCEPT ![r] = NoRun]
      BY <1>2 DEF Finish, DatabaseError, Break
    <2>2. TidyRun(r)'
      BY <2>1, Constants, Types DEF TidyRun, IInv
    <2> QED
      BY <2>1, <2>2, TidyMove DEF TidyInv, Sound, Version
  <1>3. CASE Crash
    <2>1. UNCHANGED dev /\ \A s \in Run : run'[s] = NoRun
      BY <1>3 DEF Crash
    <2> QED
      BY <2>1, Constants DEF TidyInv, TidyRun, Sound
  <1> QED
    BY <1>1, <1>2, <1>3, TidyBegin, TidyLookup, TidyFlush, TidyCommit, TidyCommitNew,
       TidySelect, TidyMark
       DEF Next, RunStep, vars, Acknowledge, DeleteAlert, PostSelect, PostCommit, SourceChanges

LEMMA TidyInit == Init => TidyInv
  BY Constants DEF Init, TidyInv, TidyRun, Sound

\* However runs overlap and whatever fails, no machine gets a second device, if the
\* devices registered by hand have different serial numbers and no two runs are
\* about to insert the same new machine at once.  The hypothesis is what the code
\* does not see to: without it two runs make a duplicate.
THEOREM NoDuplicateDevice == Spec /\ []ApartInserts => []OneDevicePerNode
  <1>1. IInv /\ TidyInv /\ ApartInserts /\ [Next]_vars => TidyInv'
    BY TidyNext
  <1>2. TidyInv => OneDevicePerNode
    BY DEF TidyInv, Sound, OneDevicePerNode
  <1> QED
    BY <1>1, <1>2, TidyInit, Inductive, PTL DEF Spec
=============================================================================
