----------------------------- MODULE SyncEngine -----------------------------
(***************************************************************************)
(* How the sync engine (app/services/sync_engine.py) brings the devices    *)
(* table in line with what the xClarity integrations report                *)
(* (app/services/xclarity.py): find the device of a reported node, update  *)
(* or create it, alert the operators to overwritten data, write the audit  *)
(* log, and deactivate what is no longer reported.                         *)
(*                                                                         *)
(* Runs overlap: a manual run with the scheduled one, and the runs of      *)
(* different integrations.  A run has one database session, so its         *)
(* uncommitted changes survive an exception that is handled per node.      *)
(* PostgreSQL isolates at READ COMMITTED: a flushed UPDATE is seen by      *)
(* others at the commit, and keeps them from updating the row till then.   *)
(***************************************************************************)
EXTENDS Integers, FiniteSets

CONSTANTS Src,     \* xClarity integrations
          Run,     \* sync runs that may be in flight
          Node,    \* machines: each has one UUID and one serial number
          Dev,     \* ids of devices; the size bounds the table
          Alert,   \* ids of alerts of type "other"; the size bounds the table
          Val,     \* what a node may report: a field operators may have entered
          Pending, \* the reports with node status "Pending"
          None,
          Env      \* what else happens: "acknowledge", "delete", "post" (alerts
                   \* endpoints), "crash", "database" (errors)

\* The other two, "decommissioned" and "spare", are like "maintenance" to a sync.
DeviceStatus == {"active", "inactive", "maintenance"}

\* uuid is that of the server extension row.  logged is the value that the
\* audit log knows: "after" in the last entry about the field.
Row == [serial : Node, uuid : Node \cup {None}, val : Val, status : DeviceStatus, logged : Val]

AlertRow == [dev : Dev, acked : BOOLEAN]

ASSUME SyncEngineAssumption ==
  /\ None \notin Src \cup Node \cup Dev \cup Alert \cup Val \cup Row \cup AlertRow
  /\ Pending \subseteq Val
  /\ Env \subseteq {"acknowledge", "delete", "post", "crash", "database"}

VARIABLES
  source,  \* what each integration would report now
  dev,     \* the devices table
  alert,   \* the alerts table
  run,     \* sync runs
  post     \* the POST /alerts request in flight

vars == <<source, dev, alert, run, post>>

Report == [Node -> Val \cup {None}]

\* rep is the fetched report, todo its nodes not yet processed, seen those
\* processed without error; node, dev, snap: the node at hand, the device found
\* and its columns as read; pend: flushed, uncommitted versions of devices; tell,
\* note: an alert is due, and the one to update; stale: devices to deactivate.
RunState ==
  [pc : {"idle", "next", "found", "new", "flushed", "mark", "done"},
   rep : Report, todo : SUBSET Node, seen : SUBSET Node, err : BOOLEAN,
   node : Node \cup {None}, dev : Dev \cup {None}, snap : Row \cup {None},
   pend : [Dev -> Row \cup {None}],
   tell : BOOLEAN, note : Alert \cup {None}, stale : SUBSET Dev]

NoRun ==
  [pc |-> "idle", rep |-> [n \in Node |-> None], todo |-> {}, seen |-> {}, err |-> FALSE,
   node |-> None, dev |-> None, snap |-> None, pend |-> [d \in Dev |-> None],
   tell |-> FALSE, note |-> None, stale |-> {}]

NoPost == [dev |-> None, alert |-> None, reopen |-> FALSE]

-----------------------------------------------------------------------------
(* The database as a session sees it *)

NoPending == [d \in Dev |-> None]

View(r, d) == IF run[r].pend[d] # None THEN run[r].pend[d] ELSE dev[d]

Committed(r) == [d \in Dev |-> View(r, d)]

\* No other session has updated the row without committing yet.
Unlocked(r, d) == \A q \in Run \ {r} : run[q].pend[d] = None

AlertsOf(d)   == {a \in Alert : alert[a] # None /\ alert[a].dev = d}
OpenAlerts(d) == {a \in AlertsOf(d) : ~alert[a].acked}

\* Ids are uuid4: one that somebody still holds is not given out again.
FreshAlert == {a \in Alert : alert[a] = None /\ a # post.alert /\ \A r \in Run : run[r].note # a}

\* Select the only element, or None; more than one is MultipleResultsFound.
OneOrNone(S) == IF S = {} THEN None ELSE CHOOSE x \in S : TRUE

-----------------------------------------------------------------------------
(* A sync run *)

\* sync_all: GET /aicc/v1/nodes.
Begin(r, i) ==
  /\ run[r].pc = "idle"
  /\ run' = [run EXCEPT ![r] = [NoRun EXCEPT !.pc = "next", !.rep = source[i],
               !.todo = {n \in Node : source[i][n] # None}]]
  /\ UNCHANGED <<source, dev, alert, post>>

\* Mutant: no fallback to the serial number.
MatchByUuid(r, n) == {d \in Dev : View(r, d) # None /\ View(r, d).uuid = n}

\* The devices that match a node: by UUID, failing that by serial number.
Match(r, n) ==
  LET ByUuid   == {d \in Dev : View(r, d) # None /\ View(r, d).uuid = n}
      BySerial == {d \in Dev : View(r, d) # None /\ View(r, d).serial = n}
  IN  IF ByUuid # {} THEN ByUuid ELSE BySerial

\* The run after the SELECTs for a node: more than one match raises.
LookedUp(r, n) ==
  LET D == Match(r, n) IN
  IF Cardinality(D) > 1
  THEN [run[r] EXCEPT !.todo = @ \ {n}, !.err = TRUE]
  ELSE [run[r] EXCEPT !.pc = IF D = {} THEN "new" ELSE "found", !.todo = @ \ {n},
          !.node = n, !.dev = OneOrNone(D),
          !.snap = IF D = {} THEN None ELSE View(r, OneOrNone(D))]

\* upsert_device_by_xclarity_uuid: the SELECTs.
Lookup(r) ==
  /\ run[r].pc = "next"
  /\ \E n \in run[r].todo : run' = [run EXCEPT ![r] = LookedUp(r, n)]
  /\ UNCHANGED <<source, dev, alert, post>>

\* A field that operators may have entered differs from the copy that was read.
Overwrites(r) == run[r].rep[run[r].node] # run[r].snap.val

\* _XCLARITY_STATUS_MAP.
StatusOf(v) == IF v \in Pending THEN "maintenance" ELSE "active"

\* Mutant: an inactive device that is reported again stays inactive.
UpdatedNotRevived(r) ==
  LET now == View(r, run[r].dev) IN
  [now EXCEPT !.serial = run[r].node,
              !.val = IF Overwrites(r) THEN run[r].rep[run[r].node] ELSE @]

Reported(r) == StatusOf(run[r].rep[run[r].node])

\* The columns that differ from the copy are written; last_seen_at always does,
\* so there always is an UPDATE.
Updated(r) ==
  LET now == View(r, run[r].dev) IN
  [now EXCEPT !.serial = run[r].node,
              !.val = IF Overwrites(r) THEN run[r].rep[run[r].node] ELSE @,
              !.status = IF run[r].snap.status = Reported(r) THEN @ ELSE Reported(r)]

\* Mutant: the diff is taken the wrong way round.
AuditedBefore(r) == IF Overwrites(r) THEN run[r].snap.val ELSE View(r, run[r].dev).logged

\* What the audit log knows after the entry about the diff.
Audited(r) == IF Overwrites(r) THEN run[r].rep[run[r].node] ELSE View(r, run[r].dev).logged

\* The device as it will be committed.
Flushed(r) == [Updated(r) EXCEPT !.uuid = run[r].node, !.logged = Audited(r)]

\* Open alerts about an overwrite that is under way.
ToUpdate(r) == IF Overwrites(r) THEN OpenAlerts(run[r].dev) ELSE {}

\* Mutant: every overwrite gets an alert of its own.
AfterFlushNewAlert(r) ==
  [run[r] EXCEPT !.pc = "flushed", !.pend = [@ EXCEPT ![run[r].dev] = Flushed(r)],
                 !.tell = Overwrites(r)]

\* The run after the query of _generate_overwrite_alert.  Two open alerts raise
\* MultipleResultsFound before the audit entry and the server extension: the
\* error is counted, the node is not in seen, the session keeps the change.
AfterFlush(r) ==
  IF Cardinality(ToUpdate(r)) > 1
  THEN [run[r] EXCEPT !.pc = "next", !.err = TRUE,
          !.pend = [@ EXCEPT ![run[r].dev] = Updated(r)],
          !.node = None, !.dev = None, !.snap = None]
  ELSE [run[r] EXCEPT !.pc = "flushed", !.pend = [@ EXCEPT ![run[r].dev] = Flushed(r)],
          !.tell = Overwrites(r), !.note = OneOrNone(ToUpdate(r))]

\* The changed device is flushed by the query that follows, which for an
\* overwritten field is that of _generate_overwrite_alert.
Flush(r) ==
  /\ run[r].pc = "found" /\ Unlocked(r, run[r].dev)
  /\ run' = [run EXCEPT ![r] = AfterFlush(r)]
  /\ UNCHANGED <<source, dev, alert, post>>

\* Mutant: a node whose device did not change is not counted as seen.
AfterNodeChanged(r) ==
  [run[r] EXCEPT !.pc = "next",
     !.seen = IF run[r].snap = None \/ run[r].tell THEN @ \cup {run[r].node} ELSE @,
     !.node = None, !.dev = None, !.snap = None, !.pend = NoPending,
     !.tell = FALSE, !.note = None]

\* The run once the node at hand is committed.
AfterNode(r) ==
  [run[r] EXCEPT !.pc = "next", !.seen = @ \cup {run[r].node},
     !.node = None, !.dev = None, !.snap = None, !.pend = NoPending,
     !.tell = FALSE, !.note = None]

NodeDone(r) == run' = [run EXCEPT ![r] = AfterNode(r)]

\* The session is unusable after a database error, also for finalize_sync_log.
Break(r) == run' = [run EXCEPT ![r] = NoRun]

\* Mutant: an open alert is updated, but none is inserted.
CommitSilent(r) ==
  /\ run[r].pc = "flushed"
  /\ dev' = Committed(r) /\ NodeDone(r)
  /\ UNCHANGED <<source, alert, post>>

\* Server extension, alert and audit entry, then COMMIT.  The UPDATE of an alert
\* that has been deleted meanwhile raises StaleDataError.
Commit(r) ==
  LET R == run[r] IN
  /\ R.pc = "flushed"
  /\ IF R.note # None /\ alert[R.note] = None
     THEN Break(r) /\ UNCHANGED <<dev, alert>>
     ELSE /\ IF R.tell /\ R.note = None
             THEN \E a \in FreshAlert :
                    alert' = [alert EXCEPT ![a] = [dev |-> R.dev, acked |-> FALSE]]
             ELSE UNCHANGED alert
          /\ dev' = Committed(r) /\ NodeDone(r)
  /\ UNCHANGED <<source, post>>

NewRow(n, v) == [serial |-> n, uuid |-> n, val |-> v, status |-> StatusOf(v), logged |-> v]

\* INSERT of device, server extension and audit entry, and COMMIT.  No unique
\* index covers serial number or UUID.
CommitNew(r) ==
  LET n == run[r].node IN
  /\ run[r].pc = "new"
  /\ \E d \in Dev : /\ dev[d] = None
                    /\ dev' = [Committed(r) EXCEPT ![d] = NewRow(n, run[r].rep[n])]
  /\ NodeDone(r)
  /\ UNCHANGED <<source, alert, post>>

\* Mutant: an empty report deactivates nothing.
StaleIfSeen(r) ==
  IF run[r].seen = {} THEN {}
  ELSE {d \in Dev : /\ View(r, d) # None /\ View(r, d).status = "active"
                    /\ View(r, d).uuid \notin run[r].seen \cup {None}}

\* The devices that are not among the seen nodes, whichever integration they
\* come from.
Stale(r) ==
  {d \in Dev : /\ View(r, d) # None /\ View(r, d).status = "active"
               /\ View(r, d).uuid \notin run[r].seen \cup {None}}

\* mark_missing_xclarity_devices_inactive: the SELECT.
MarkSelect(r) ==
  /\ run[r].pc = "next" /\ run[r].todo = {}
  /\ run' = [run EXCEPT ![r].pc = "mark", ![r].stale = Stale(r)]
  /\ UNCHANGED <<source, dev, alert, post>>

\* The device as MarkCommit leaves it.
Marked(r, d) ==
  IF d \in run[r].stale THEN [View(r, d) EXCEPT !.status = "inactive"] ELSE View(r, d)

AfterMark(r) == [run[r] EXCEPT !.pc = "done", !.pend = NoPending, !.stale = {}]

\* UPDATE of their status and COMMIT (of finalize_sync_log, if there are none).
MarkCommit(r) ==
  /\ run[r].pc = "mark" /\ \A d \in run[r].stale : Unlocked(r, d)
  /\ dev' = [d \in Dev |-> Marked(r, d)]
  /\ run' = [run EXCEPT ![r] = AfterMark(r)]
  /\ UNCHANGED <<source, alert, post>>

\* finalize_sync_log and update_integration_status.
Finish(r) ==
  /\ run[r].pc = "done"
  /\ run' = [run EXCEPT ![r] = NoRun]
  /\ UNCHANGED <<source, dev, alert, post>>

\* The sessions that hold a row that r is about to update.
WaitsFor(r) ==
  {q \in Run \ {r} : \E d \in CASE run[r].pc = "found" -> {run[r].dev}
                                [] run[r].pc = "mark"  -> run[r].stale
                                [] OTHER -> {} : run[q].pend[d] # None}

\* A database error: the transaction is gone and the run ends with its log open.
\* PostgreSQL breaks a deadlock of two sessions this way.
DatabaseError(r) ==
  /\ run[r].pc # "idle"
  /\ "database" \in Env \/ \E q \in WaitsFor(r) : r \in WaitsFor(q)
  /\ Break(r)
  /\ UNCHANGED <<source, dev, alert, post>>

RunStep(r) ==
  \/ Lookup(r) \/ Flush(r) \/ Commit(r) \/ CommitNew(r)
  \/ MarkSelect(r) \/ MarkCommit(r) \/ Finish(r)

-----------------------------------------------------------------------------
(* Alerts endpoints *)

\* POST /alerts/{id}/acknowledge.
Acknowledge(a) ==
  /\ "acknowledge" \in Env /\ alert[a] # None /\ ~alert[a].acked
  /\ alert' = [alert EXCEPT ![a].acked = TRUE]
  /\ UNCHANGED <<source, dev, run, post>>

\* DELETE /alerts/{id}.
DeleteAlert(a) ==
  /\ "delete" \in Env /\ alert[a] # None
  /\ alert' = [alert EXCEPT ![a] = None]
  /\ UNCHANGED <<source, dev, run, post>>

\* POST /alerts, CRUDAlert.upsert: SELECT for the device and the type; two rows
\* raise MultipleResultsFound and nothing happens.
PostSelect(d) ==
  /\ "post" \in Env /\ post = NoPost
  /\ dev[d] # None /\ Cardinality(AlertsOf(d)) <= 1
  /\ LET a == OneOrNone(AlertsOf(d)) IN
     post' = [dev |-> d, alert |-> a, reopen |-> a # None /\ alert[a].acked]
  /\ UNCHANGED <<source, dev, alert, run>>

\* UPDATE (the acknowledgement only if the copy has one) or INSERT, and COMMIT.
PostCommit ==
  /\ post.dev # None /\ post' = NoPost
  /\ IF post.alert = None
     THEN \E a \in FreshAlert : alert' = [alert EXCEPT ![a] = [dev |-> post.dev, acked |-> FALSE]]
     ELSE alert' = IF post.reopen /\ alert[post.alert] # None
                   THEN [alert EXCEPT ![post.alert].acked = FALSE] ELSE alert
  /\ UNCHANGED <<source, dev, run>>

-----------------------------------------------------------------------------
(* Environment *)

\* A machine appears at an integration that manages it, changes, or goes.
SourceChanges(i, n, v) ==
  /\ v # source[i][n]
  /\ \A j \in Src \ {i} : source[j][n] = None
  /\ source' = [source EXCEPT ![i][n] = v]
  /\ UNCHANGED <<dev, alert, run, post>>

Crash ==
  /\ "crash" \in Env
  /\ run' = [r \in Run |-> NoRun] /\ post' = NoPost
  /\ UNCHANGED <<source, dev, alert>>

\* At first there are no synced devices; some are registered by hand, at most
\* one for a serial number.
Init ==
  /\ source = [i \in Src |-> [n \in Node |-> None]]
  /\ dev \in {f \in [Dev -> {None} \cup {x \in Row : x.uuid = None /\ x.logged = x.val}] :
                \A d, e \in Dev : d # e /\ f[d] # None /\ f[e] # None => f[d].serial # f[e].serial}
  /\ alert = [a \in Alert |-> None]
  /\ run = [r \in Run |-> NoRun]
  /\ post = NoPost

Next ==
  \/ \E r \in Run, i \in Src : Begin(r, i)
  \/ \E r \in Run : RunStep(r) \/ DatabaseError(r)
  \/ \E a \in Alert : Acknowledge(a) \/ DeleteAlert(a)
  \/ \E d \in Dev : PostSelect(d)
  \/ PostCommit
  \/ \E i \in Src, n \in Node, v \in Val \cup {None} : SourceChanges(i, n, v)
  \/ Crash

Spec == Init /\ [][Next]_vars

\* The scheduler starts each integration's sync again and again, and a started
\* run goes on: the one remote call has a timeout.
Fairness ==
  /\ \A r \in Run : WF_vars(RunStep(r))
  /\ \A r \in Run, i \in Src : SF_vars(Begin(r, i))

FairSpec == Spec /\ Fairness

-----------------------------------------------------------------------------
(* Properties *)

\* Type invariant of the tables and of the runs.
TypeOK ==
  /\ source \in [Src -> Report]
  /\ dev \in [Dev -> Row \cup {None}]
  /\ alert \in [Alert -> AlertRow \cup {None}]
  /\ run \in [Run -> RunState]
  /\ post \in [dev : Dev \cup {None}, alert : Alert \cup {None}, reopen : BOOLEAN]

\* sync_engine.py:6 "Diff is written to audit_log on every field change": what the
\* audit log last recorded of a device is what the device has.
AuditMatches == \A d \in Dev : dev[d] # None => dev[d].logged = dev[d].val

\* sync_engine.py:209 "one active alert per device for sync_overwrite events".
OneOpenAlert == \A d \in Dev : Cardinality(OpenAlerts(d)) <= 1

\* sync_engine.py:305 "dedup by device_servers.xclarity_uuid": one device row for
\* each machine.
OneDevicePerNode ==
  \A d, e \in Dev : d # e /\ dev[d] # None /\ dev[e] # None => dev[d].serial # dev[e].serial

\* A device is as an integration reported it: the value v for the node n.
Mirrored(n, v) ==
  \E d \in Dev : dev[d] # None /\ dev[d].uuid = n /\ dev[d].val = v /\ dev[d].status = StatusOf(v)

\* At the end of a run without errors the inventory is what the integration
\* reported: each node has a device with the reported value and status, and no
\* synced device of another node is active.
MirrorsReport ==
  \A r \in Run : run[r].pc = "done" /\ ~run[r].err =>
    /\ \A n \in Node : run[r].rep[n] # None => Mirrored(n, run[r].rep[n])
    /\ \A d \in Dev : dev[d] # None /\ dev[d].status = "active" /\ dev[d].uuid # None =>
         run[r].rep[dev[d].uuid] # None

\* sync_engine.py:182-183: a sync that overwrites a field leaves an alert that the
\* operators have yet to review.
OverwriteIsAlerted ==
  [][\A d \in Dev : dev[d] # None /\ dev'[d].val # dev[d].val => OpenAlerts(d)' # {}]_vars

\* sync_engine.py:7 "set status=inactive when missing from source", and only then:
\* a machine that is in the inventory as it is reported remains so, while the runs
\* in flight report it again and have no errors.
StaysMirrored ==
  [][\A n \in Node, v \in Val :
       /\ Mirrored(n, v)
       /\ \A r \in Run : run[r].pc # "idle" => run[r].rep[n] = v /\ ~run[r].err
       => Mirrored(n, v)']_vars

\* sync_engine.py:7 "set status=inactive when missing from source": a machine that
\* an integration keeps reporting is in the end a device with the reported value
\* and status, and remains one.
SyncConverges ==
  \A i \in Src, n \in Node, v \in Val :
    <>[](source[i][n] = v) => <>[]Mirrored(n, v)
=============================================================================
