------------------------------ MODULE SyncJobs ------------------------------
(***************************************************************************)
(* The life of an integration and of its sync runs: the integration        *)
(* endpoints (app/api/v1/endpoints/integrations.py), the in-process        *)
(* APScheduler (app/tasks/scheduler.py), the sync job functions            *)
(* (app/tasks/sync_jobs.py) and the sync-log functions of the engine       *)
(* (app/services/sync_engine.py).                                          *)
(*                                                                         *)
(* uvicorn runs Worker processes (backend/Dockerfile:25; one under         *)
(* docker-compose.dev.yml), each with a scheduler of its own whose jobs    *)
(* live in its memory; integrations and sync logs are in the database.     *)
(* Every await of a handler or of a run lets the others in, so each is one *)
(* action per database round trip.                                         *)
(* What a run does to the inventory is the subject of SyncEngine; here it  *)
(* is its outcome.                                                         *)
(***************************************************************************)
EXTENDS Integers

CONSTANTS Worker,  \* backend processes
          Conn,    \* integration ids
          Task,    \* run slots of the background tasks of POST .../sync
          Api,     \* concurrent requests to the integration endpoints
          None,
          Faults   \* what may go wrong: "crash", "database", "startup"

\* <<w, i>> is the scheduled run of i in worker w.
Run == (Worker \X Conn) \cup Task

Outcome == {"success", "partial", "failed"}            \* SyncStats.status
Status  == {"disabled", "ok", "warning", "error"}      \* Integration.status

Row == [enabled : BOOLEAN, status : Status]

ASSUME SyncJobsAssumption ==
  /\ Worker # {} /\ (Worker \X Conn) \cap Task = {}
  /\ None \notin Worker /\ None \notin Conn /\ None \notin Row
  /\ Faults \subseteq {"crash", "database", "startup"}

VARIABLES
  up,    \* whether a worker runs, and whether its startup scheduling succeeded
  used,  \* integration ids given out so far (uuid4, never reused)
  row,   \* the integrations table
  past,  \* sync_logs of runs that have ended: per integration, the kinds present
  job,   \* <<w, i>>: worker w's scheduler has a job for integration i
  run,   \* sync runs in flight
  api    \* requests in flight

vars == <<up, used, row, past, job, run, api>>

-----------------------------------------------------------------------------

\* at is the worker; log is the SyncLog row of the run: not there yet, open
\* (completed_at is null), or deleted under the run by the cascade of its
\* integration.
RunState == [pc : {"idle", "queued", "dispatched", "loaded", "running", "worked", "finalized"},
             at : Worker \cup {None}, int : Conn \cup {None}, log : {"none", "open", "deleted"},
             outcome : Outcome \cup {"none", "db_error"}]
NoRun == [pc |-> "idle", at |-> None, int |-> None, log |-> "none", outcome |-> "none"]
Queued(w, i) == [NoRun EXCEPT !.pc = "queued", !.at = w, !.int = i]

\* enabled is the value in the request's copy of the row.
ApiState == [pc : {"idle", "loaded", "committed", "refreshed", "deleting", "unscheduled"},
             at : Worker \cup {None}, int : Conn \cup {None}, enabled : BOOLEAN]
NoCall == [pc |-> "idle", at |-> None, int |-> None, enabled |-> FALSE]

Exists(i)  == row[i] # None
Enabled(i) == Exists(i) /\ row[i].enabled

EndRun(s)  == run' = [run EXCEPT ![s] = NoRun]
EndCall(a) == api' = [api EXCEPT ![a] = NoCall]

\* The job of the request's integration, in the scheduler of its worker.
JobOf(a) == <<api[a].at, api[a].int>>

-----------------------------------------------------------------------------
(* Integration endpoints *)

\* POST /integrations: INSERT and COMMIT.
CreateIntegration(a, w, i, e) ==
  /\ up[w] # "down" /\ api[a].pc = "idle" /\ i \notin used
  /\ used' = used \cup {i}
  /\ row' = [row EXCEPT ![i] = [enabled |-> e, status |-> "disabled"]]
  /\ api' = [api EXCEPT ![a] = [pc |-> "committed", at |-> w, int |-> i, enabled |-> e]]
  /\ UNCHANGED <<up, past, job, run>>

\* PUT /integrations/{id}: SELECT; 404 ends the call.
UpdateLoad(a, w, i) ==
  /\ up[w] # "down" /\ api[a].pc = "idle" /\ Exists(i)
  /\ api' = [api EXCEPT ![a] = [pc |-> "loaded", at |-> w, int |-> i,
                                  enabled |-> row[i].enabled]]
  /\ UNCHANGED <<up, used, row, past, job, run>>

\* UPDATE of the columns whose value differs from the loaded one, and COMMIT.
\* A row deleted meanwhile raises StaleDataError.
UpdateCommit(a, e) ==
  LET i == api[a].int IN
  /\ api[a].pc = "loaded"
  /\ IF Exists(i)
     THEN /\ row' = IF e = api[a].enabled THEN row ELSE [row EXCEPT ![i].enabled = e]
          /\ api' = [api EXCEPT ![a].pc = "committed"]
     ELSE EndCall(a) /\ UNCHANGED row
  /\ UNCHANGED <<up, used, past, job, run>>

\* db.refresh of the created or updated row.
RefreshRow(a) ==
  LET i == api[a].int IN
  /\ api[a].pc = "committed"
  /\ IF Exists(i)
     THEN api' = [api EXCEPT ![a].pc = "refreshed", ![a].enabled = row[i].enabled]
     ELSE EndCall(a)
  /\ UNCHANGED <<up, used, row, past, job, run>>

\* Mutant: only an existing job is rescheduled.
RescheduleOnly(a) ==
  /\ api[a].pc = "refreshed"
  /\ job' = IF api[a].enabled THEN job ELSE job \ {JobOf(a)}
  /\ EndCall(a)
  /\ UNCHANGED <<up, used, row, past, run>>

\* schedule_integration of the refreshed copy.
ScheduleIntegration(a) ==
  /\ api[a].pc = "refreshed"
  /\ job' = IF api[a].enabled THEN job \cup {JobOf(a)} ELSE job \ {JobOf(a)}
  /\ EndCall(a)
  /\ UNCHANGED <<up, used, row, past, run>>

\* DELETE /integrations/{id}: SELECT, unschedule, then DELETE.
DeleteLoad(a, w, i) ==
  /\ up[w] # "down" /\ api[a].pc = "idle" /\ Exists(i)
  /\ api' = [api EXCEPT ![a] = [pc |-> "deleting", at |-> w, int |-> i, enabled |-> FALSE]]
  /\ UNCHANGED <<up, used, row, past, job, run>>

UnscheduleIntegration(a) ==
  /\ api[a].pc = "deleting"
  /\ job' = job \ {JobOf(a)}
  /\ api' = [api EXCEPT ![a].pc = "unscheduled"]
  /\ UNCHANGED <<up, used, row, past, run>>

\* The row goes and, by cascade, its sync logs, those of running syncs too.
DeleteRow(a) ==
  LET i == api[a].int IN
  /\ api[a].pc = "unscheduled"
  /\ row' = [row EXCEPT ![i] = None]
  /\ past' = [past EXCEPT ![i] = {}]
  /\ run' = [s \in Run |-> IF run[s].int = i /\ run[s].log = "open"
                           THEN [run[s] EXCEPT !.log = "deleted"] ELSE run[s]]
  /\ EndCall(a)
  /\ UNCHANGED <<up, used, job>>

\* POST /integrations/{id}/sync: 404 and 409 change nothing.
TriggerSync(w, i, t) ==
  /\ up[w] # "down" /\ Enabled(i) /\ run[t].pc = "idle"
  /\ run' = [run EXCEPT ![t] = Queued(w, i)]
  /\ UNCHANGED <<up, used, row, past, job, api>>

-----------------------------------------------------------------------------
(* Scheduler *)

\* Mutant: a one-shot trigger; the job is gone once it has fired.
FireOnce(w, i) ==
  /\ <<w, i>> \in job /\ run[<<w, i>>].pc = "idle"
  /\ run' = [run EXCEPT ![<<w, i>>] = Queued(w, i)]
  /\ job' = job \ {<<w, i>>}
  /\ UNCHANGED <<up, used, row, past, api>>

\* The interval of i elapses in w; max_instances = 1 skips it while a run of i
\* that w's scheduler has fired is in flight.
Fire(w, i) ==
  /\ <<w, i>> \in job /\ run[<<w, i>>].pc = "idle"
  /\ run' = [run EXCEPT ![<<w, i>>] = Queued(w, i)]
  /\ UNCHANGED <<up, used, row, past, job, api>>

\* load_and_schedule_all at startup; its failure is logged and ignored.
Start(w) ==
  /\ up[w] = "down"
  /\ \/ /\ up' = [up EXCEPT ![w] = "up"]
        /\ job' = job \cup ({w} \X {i \in Conn : Enabled(i)})
     \/ "startup" \in Faults /\ up' = [up EXCEPT ![w] = "unscheduled"] /\ UNCHANGED job
  /\ UNCHANGED <<used, row, past, run, api>>

-----------------------------------------------------------------------------
(* A sync run *)

\* Mutant: waits for the integration instead of giving up.
DispatchWait(s) ==
  /\ run[s].pc = "queued" /\ Enabled(run[s].int)
  /\ run' = [run EXCEPT ![s].pc = "dispatched"]
  /\ UNCHANGED <<up, used, row, past, job, api>>

\* dispatch_integration_sync.
Dispatch(s) ==
  /\ run[s].pc = "queued"
  /\ IF Enabled(run[s].int) THEN run' = [run EXCEPT ![s].pc = "dispatched"] ELSE EndRun(s)
  /\ UNCHANGED <<up, used, row, past, job, api>>

\* sync_xclarity, sync_snmp, ...: a new session checks the row again.
LoadIntegration(s) ==
  /\ run[s].pc = "dispatched"
  /\ IF Enabled(run[s].int) THEN run' = [run EXCEPT ![s].pc = "loaded"] ELSE EndRun(s)
  /\ UNCHANGED <<up, used, row, past, job, api>>

\* begin_sync_log: the foreign key refuses the log of a deleted integration.
BeginLog(s) ==
  /\ run[s].pc = "loaded"
  /\ IF Exists(run[s].int)
     THEN run' = [run EXCEPT ![s].pc = "running", ![s].log = "open"]
     ELSE EndRun(s)
  /\ UNCHANGED <<up, used, row, past, job, api>>

\* The log of a run that ends without finalizing it stays as it is.
Abandoned(s) == IF run[s].log = "open" THEN {"open"} ELSE {}

\* Mutant: no try/except around the service call.
WorkUnguarded(s) ==
  /\ run[s].pc = "running"
  /\ \/ \E o \in Outcome : run' = [run EXCEPT ![s].pc = "worked", ![s].outcome = o]
        /\ UNCHANGED past
     \/ EndRun(s) /\ past' = [past EXCEPT ![run[s].int] = @ \cup Abandoned(s)]
  /\ UNCHANGED <<up, used, row, job, api>>

\* service.sync_all inside try/except: whatever it raises ends in stats.  A
\* failed flush leaves the session unusable; nothing ever rolls it back.
Work(s) ==
  /\ run[s].pc = "running"
  /\ \E o \in Outcome \cup {x \in {"db_error"} : "database" \in Faults} :
       run' = [run EXCEPT ![s].pc = "worked", ![s].outcome = o]
  /\ UNCHANGED <<up, used, row, past, job, api>>

\* Mutant: the log is written by INSERT ... ON CONFLICT DO UPDATE.
FinalizeMerge(s) ==
  /\ run[s].pc = "worked" /\ run[s].outcome # "db_error"
  /\ past' = [past EXCEPT ![run[s].int] = @ \cup {run[s].outcome}]
  /\ run' = [run EXCEPT ![s].pc = "finalized", ![s].log = "none"]
  /\ UNCHANGED <<up, used, row, job, api>>

\* finalize_sync_log: UPDATE and COMMIT, outside the try.  It raises
\* PendingRollbackError after a database error and StaleDataError when the log
\* has been deleted; then the run just ends.
FinalizeLog(s) ==
  /\ run[s].pc = "worked"
  /\ IF run[s].log = "open" /\ run[s].outcome # "db_error"
     THEN /\ past' = [past EXCEPT ![run[s].int] = @ \cup {run[s].outcome}]
          /\ run' = [run EXCEPT ![s].pc = "finalized", ![s].log = "none"]
     ELSE /\ past' = [past EXCEPT ![run[s].int] = @ \cup Abandoned(s)]
          /\ EndRun(s)
  /\ UNCHANGED <<up, used, row, job, api>>

StatusOf(outcome) ==
  CASE outcome = "success" -> "ok" [] outcome = "partial" -> "warning" [] OTHER -> "error"

\* update_integration_status: an UPDATE that may match no row.
UpdateStatus(s) ==
  LET i == run[s].int IN
  /\ run[s].pc = "finalized"
  /\ row' = IF Exists(i) THEN [row EXCEPT ![i].status = StatusOf(run[s].outcome)] ELSE row
  /\ EndRun(s)
  /\ UNCHANGED <<up, used, past, job, api>>

RunStep(s) ==
  \/ Dispatch(s) \/ LoadIntegration(s) \/ BeginLog(s)
  \/ Work(s) \/ FinalizeLog(s) \/ UpdateStatus(s)

-----------------------------------------------------------------------------
(* Environment *)

\* cleanup:sync_logs deletes logs started more than 90 days ago: any of the
\* logs of ended runs, since no run lasts that long.
PurgeSyncLogs(i, k) ==
  /\ (\E w \in Worker : up[w] = "up") /\ k \in past[i]
  /\ past' = [past EXCEPT ![i] = @ \ {k}]
  /\ UNCHANGED <<up, used, row, job, run, api>>

\* A worker dies, or is shut down: the asyncio executor of its scheduler
\* cancels the runs that are pending.
Crash(w) ==
  /\ "crash" \in Faults /\ up[w] # "down" /\ up' = [up EXCEPT ![w] = "down"]
  /\ job' = job \ ({w} \X Conn)
  /\ run' = [s \in Run |-> IF run[s].at = w THEN NoRun ELSE run[s]]
  /\ api' = [a \in Api |-> IF api[a].at = w THEN NoCall ELSE api[a]]
  /\ past' = [i \in Conn |-> past[i] \cup
                UNION {Abandoned(s) : s \in {t \in Run : run[t].at = w /\ run[t].int = i}}]
  /\ UNCHANGED <<used, row>>

-----------------------------------------------------------------------------

Init ==
  /\ up = [w \in Worker |-> "up"] /\ used = {} /\ job = {}
  /\ row = [i \in Conn |-> None]
  /\ past = [i \in Conn |-> {}]
  /\ run = [s \in Run |-> NoRun]
  /\ api = [a \in Api |-> NoCall]

ApiStep(a) ==
  \/ \E e \in BOOLEAN : UpdateCommit(a, e)
  \/ RefreshRow(a)
  \/ ScheduleIntegration(a)
  \/ UnscheduleIntegration(a)
  \/ DeleteRow(a)

Next ==
  \/ \E a \in Api, w \in Worker, i \in Conn :
       \/ \E e \in BOOLEAN : CreateIntegration(a, w, i, e)
       \/ UpdateLoad(a, w, i)
       \/ DeleteLoad(a, w, i)
  \/ \E a \in Api : ApiStep(a)
  \/ \E w \in Worker, i \in Conn : Fire(w, i) \/ \E t \in Task : TriggerSync(w, i, t)
  \/ \E s \in Run : RunStep(s)
  \/ \E i \in Conn : \E k \in past[i] : PurgeSyncLogs(i, k)
  \/ \E w \in Worker : Start(w) \/ Crash(w)

Spec == Init /\ [][Next]_vars

\* A started request or run goes on (every remote call has a timeout), the
\* scheduler's interval elapses, and uvicorn's supervisor starts a dead worker again.
Fairness ==
  /\ \A a \in Api : WF_vars(ApiStep(a))
  /\ \A s \in Run : WF_vars(RunStep(s))
  /\ \A w \in Worker, i \in Conn : WF_vars(Fire(w, i))
  /\ \A w \in Worker : WF_vars(Start(w))

FairSpec == Spec /\ Fairness

-----------------------------------------------------------------------------
(* Properties *)

\* Type invariant of the integration, log, job and run state.
TypeOK ==
  /\ up \in [Worker -> {"down", "up", "unscheduled"}] /\ used \subseteq Conn /\ job \subseteq Worker \X Conn
  /\ row \in [Conn -> Row \cup {None}]
  /\ past \in [Conn -> SUBSET (Outcome \cup {"open"})]
  /\ run \in [Run -> RunState]
  /\ api \in [Api -> ApiState]

\* Every worker is up and scheduling, and no request is about i.
Settled(i) == (\A w \in Worker : up[w] = "up") /\ \A a \in Api : api[a].int # i

\* integrations.py:7 and :82 "Re-schedule with new interval/enabled state":
\* once the requests about an integration are answered, an enabled integration
\* has a job in some worker (also after a restart that could reach the database).
EnabledHasJob ==
  \A i \in Conn : Settled(i) /\ Enabled(i) => \E w \in Worker : <<w, i>> \in job

\* integrations.py:8 "DELETE /integrations/{id} -> also unschedules APScheduler
\* job": once the requests about it are answered, a deleted integration has none.
\* Does not hold of the code (README, "Disagreements").
DeletedHasNoJob ==
  \A i \in Conn : Settled(i) /\ ~Exists(i) => \A w \in Worker : <<w, i>> \notin job

\* scheduler.py:93 "max_instances=1,          # never overlap": no two scheduled
\* runs of one integration are at work at the same time.
\* Does not hold of the code (README, "Disagreements").
ScheduledNeverOverlap ==
  \A i \in Conn, v, w \in Worker :
    run[<<v, i>>].pc = "running" /\ run[<<w, i>>].pc = "running" => v = w

\* Deleting an integration takes its sync logs with it, and a run that was
\* under way does not bring one back (models/integration.py:68).
NoLogWithoutIntegration ==
  \A i \in Conn : ~Exists(i) =>
    past[i] = {} /\ \A s \in Run : run[s].int = i => run[s].log # "open"

\* sync_engine.py:9 "A SyncLog row is created/updated for every sync run": a log
\* that was begun is given the outcome of its run, or goes with its integration.
\* It is left open only if the worker of the run dies or the run has met a
\* database error, whatever else happens to the integration meanwhile.
LogOfEveryRun ==
  [][\A s \in Run : LET i == run[s].int IN
       run[s].log = "open" /\ run'[s].log # "open" =>
         \/ run[s].outcome \in past'[i]
         \/ run'[s].log = "deleted" /\ row'[i] = None
         \/ "open" \in past'[i] /\ (up'[run[s].at] = "down" \/ run[s].outcome = "db_error")]_vars

\* Every run that was fired or triggered comes to an end.
RunEnds == \A s \in Run : run[s].pc # "idle" ~> run[s].pc = "idle"

\* An integration that stays enabled is synced again and again, whatever else
\* the operators do (scheduler.py:4-6).
KeepsPolling ==
  \A i \in Conn : <>[]Enabled(i) => []<>(\E w \in Worker : run[<<w, i>>].pc = "finalized")
=============================================================================
