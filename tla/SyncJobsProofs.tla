--------------------------- MODULE SyncJobsProofs ---------------------------
(***************************************************************************)
(* Proofs about SyncJobs, for any number of workers, integrations,         *)
(* background tasks and API requests, and any faults: type correctness; no *)
(* sync log without its integration; a log that was begun is completed     *)
(* unless its worker dies or the database fails; and, with one             *)
(* administrator at a time, every enabled integration has a job.           *)
(***************************************************************************)
EXTENDS SyncJobs, TLAPS

-----------------------------------------------------------------------------
(* The inductive invariant *)

\* The job a request in flight may add or remove.
JobOK(c) == c.int \in Conn /\ c.at \in Worker

\* A run or a request in flight is about an integration.
Bound ==
  /\ \A s \in Run : run[s].pc # "idle" => run[s].int \in Conn
  /\ \A s \in Run : run[s].pc = "worked" => run[s].outcome # "none"
  /\ \A a \in Api : api[a].pc # "idle" => JobOK(api[a])

\* Only a run between begin_sync_log and finalize_sync_log has an open log.
LogInv ==
  /\ NoLogWithoutIntegration
  /\ \A s \in Run : run[s].log = "open" => run[s].pc \in {"running", "worked"}

IInv == TypeOK /\ Bound /\ LogInv

LEMMA Constants ==
  /\ NoRun \in RunState /\ NoRun.pc = "idle" /\ NoRun.log = "none" /\ NoRun.int = None
  /\ NoRun.at = None
  /\ NoRun.outcome = "none"
  /\ NoCall \in ApiState /\ NoCall.pc = "idle" /\ NoCall.int = None
  /\ NoCall.at = None
  BY DEF RunState, NoRun, ApiState, NoCall

\* A request that moves on without touching the tables or the runs.
LEMMA CallStep ==
  ASSUME IInv, NEW a \in Api, NEW c \in ApiState, c.pc # "idle" => JobOK(c),
         api' = [api EXCEPT ![a] = c], NEW j \in SUBSET (Worker \X Conn), job' = j,
         UNCHANGED <<up, used, row, past, run>>
  PROVE  IInv'
  <1>1. TypeOK'
    BY DEF IInv, TypeOK
  <1>2. Bound'
    BY DEF IInv, TypeOK, Bound, JobOK
  <1>3. LogInv'
    BY DEF IInv, LogInv, NoLogWithoutIntegration, Exists
  <1> QED
    BY <1>1, <1>2, <1>3 DEF IInv

\* A run that moves on; a log it opens belongs to an existing integration.
LEMMA RunMove ==
  ASSUME IInv, NEW s \in Run, NEW q \in RunState, q.pc # "idle" => q.int \in Conn,
         q.pc = "worked" => q.outcome # "none",
         q.log = "open" => q.pc \in {"running", "worked"} /\ Exists(q.int),
         run' = [run EXCEPT ![s] = q],
         UNCHANGED <<up, used, row, past, job, api>>
  PROVE  IInv'
  <1>1. TypeOK'
    BY DEF IInv, TypeOK
  <1>2. Bound'
    BY DEF IInv, TypeOK, Bound
  <1>3. LogInv'
    BY DEF IInv, LogInv, NoLogWithoutIntegration, Exists, TypeOK
  <1> QED
    BY <1>1, <1>2, <1>3 DEF IInv

LEMMA EndRunStep ==
  ASSUME IInv, NEW s \in Run, EndRun(s), UNCHANGED <<up, used, row, past, job, api>>
  PROVE  IInv'
  BY Constants, RunMove DEF EndRun

LEMMA EndCallStep ==
  ASSUME IInv, NEW a \in Api, EndCall(a), NEW j \in SUBSET (Worker \X Conn), job' = j,
         UNCHANGED <<up, used, row, past, run>>
  PROVE  IInv'
  BY Constants, CallStep DEF EndCall

LEMMA CreateStep ==
  ASSUME IInv, NEW a \in Api, NEW w \in Worker, NEW i \in Conn, NEW e \in BOOLEAN,
         CreateIntegration(a, w, i, e)
  PROVE  IInv'
  <1> DEFINE c == [pc |-> "committed", at |-> w, int |-> i, enabled |-> e]
             x == [enabled |-> e, status |-> "disabled"]
  <1>1. c \in ApiState /\ x \in Row
    BY DEF ApiState, Row, Status
  <1>2. TypeOK'
    BY <1>1 DEF CreateIntegration, IInv, TypeOK
  <1>3. Bound'
    BY <1>1 DEF CreateIntegration, IInv, TypeOK, Bound, JobOK
  <1>4. LogInv'
    <2>1. \A k \in Conn : Exists(k) => Exists(k)'
      BY <1>1, SyncJobsAssumption DEF CreateIntegration, IInv, TypeOK, Exists
    <2> QED
      BY <2>1 DEF CreateIntegration, IInv, LogInv, NoLogWithoutIntegration
  <1> QED
    BY <1>2, <1>3, <1>4 DEF IInv

LEMMA ExistingRow ==
  ASSUME IInv, NEW i \in Conn, Exists(i)
  PROVE  row[i] \in Row /\ row[i].enabled \in BOOLEAN
  BY DEF IInv, TypeOK, Exists, Row

LEMMA LoadStep ==
  ASSUME IInv, NEW a \in Api, NEW w \in Worker, NEW i \in Conn,
         UpdateLoad(a, w, i) \/ DeleteLoad(a, w, i)
  PROVE  IInv'
  <1>1. job \in SUBSET (Worker \X Conn)
    BY DEF IInv, TypeOK
  <1>2. CASE UpdateLoad(a, w, i)
    <2> DEFINE c == [pc |-> "loaded", at |-> w, int |-> i, enabled |-> row[i].enabled]
    <2>1. c \in ApiState
      BY <1>2, ExistingRow DEF UpdateLoad, ApiState
    <2> QED
      BY <1>1, <1>2, <2>1, CallStep DEF UpdateLoad, JobOK
  <1>3. CASE DeleteLoad(a, w, i)
    <2> DEFINE c == [pc |-> "deleting", at |-> w, int |-> i, enabled |-> FALSE]
    <2>1. c \in ApiState
      BY DEF ApiState
    <2> QED
      BY <1>1, <1>3, <2>1, CallStep DEF DeleteLoad, JobOK
  <1> QED
    BY <1>2, <1>3

LEMMA ApiInFlight ==
  ASSUME IInv, NEW a \in Api, api[a].pc # "idle"
  PROVE  /\ api[a] \in ApiState /\ api[a].int \in Conn /\ api[a].at \in Worker
         /\ JobOf(a) \in Worker \X Conn
  BY DEF IInv, TypeOK, Bound, JobOK, JobOf

LEMMA UpdateCommitStep ==
  ASSUME IInv, NEW a \in Api, NEW e \in BOOLEAN, UpdateCommit(a, e) PROVE IInv'
  <1> DEFINE i == api[a].int
             c == [api[a] EXCEPT !.pc = "committed"]
             x == [row[i] EXCEPT !.enabled = e]
  <1>1. api[a].pc = "loaded"
    BY DEF UpdateCommit
  <1>2. JobOK(api[a]) /\ i \in Conn /\ api[a] \in ApiState /\ job \in SUBSET (Worker \X Conn)
    BY <1>1, ApiInFlight DEF IInv, TypeOK, JobOK
  <1>3. CASE Exists(i)
    <2>1. c \in ApiState /\ c.int = i /\ JobOK(c)
      BY <1>2 DEF ApiState, JobOK
    <2>2. x \in Row
      BY <1>2, <1>3, ExistingRow DEF Row
    <2>3. x # None /\ row[i] # None
      BY <1>3, <2>2, SyncJobsAssumption DEF Exists
    <2>4. /\ row' \in [Conn -> Row \cup {None}]
          /\ \A k \in Conn : Exists(k)' <=> Exists(k)
      BY <1>2, <1>3, <2>2, <2>3 DEF UpdateCommit, IInv, TypeOK, Exists
    <2>5. api' = [api EXCEPT ![a] = c] /\ UNCHANGED <<up, used, past, job, run>>
      BY <1>3 DEF UpdateCommit
    <2> HIDE DEF c, x
    <2>6. TypeOK'
      BY <2>1, <2>4, <2>5 DEF IInv, TypeOK
    <2>7. Bound'
      BY <1>2, <2>1, <2>5 DEF IInv, TypeOK, Bound
    <2>8. LogInv'
      BY <2>4, <2>5 DEF IInv, LogInv, NoLogWithoutIntegration
    <2> QED
      BY <2>6, <2>7, <2>8 DEF IInv
  <1>4. CASE ~Exists(i)
    BY <1>2, <1>4, EndCallStep DEF UpdateCommit
  <1> QED
    BY <1>3, <1>4

LEMMA RefreshRowStep ==
  ASSUME IInv, NEW a \in Api, RefreshRow(a) PROVE IInv'
  <1> DEFINE i == api[a].int
             c == [api[a] EXCEPT !.pc = "refreshed", !.enabled = row[i].enabled]
  <1>1. api[a].pc = "committed"
    BY DEF RefreshRow
  <1>2. JobOK(api[a]) /\ i \in Conn /\ api[a] \in ApiState /\ job \in SUBSET (Worker \X Conn)
    BY <1>1, ApiInFlight DEF IInv, TypeOK, JobOK
  <1>3. CASE Exists(i)
    <2>1. c \in ApiState /\ c.int = i /\ JobOK(c)
      BY <1>2, <1>3, ExistingRow DEF ApiState, JobOK
    <2>2. api' = [api EXCEPT ![a] = c] /\ UNCHANGED <<up, used, row, past, job, run>>
      BY <1>3 DEF RefreshRow
    <2> HIDE DEF c
    <2> QED
      BY <1>2, <2>1, <2>2, CallStep
  <1>4. CASE ~Exists(i)
    BY <1>2, <1>4, EndCallStep DEF RefreshRow
  <1> QED
    BY <1>3, <1>4

LEMMA ScheduleStep ==
  ASSUME IInv, NEW a \in Api, ScheduleIntegration(a) PROVE IInv'
  <1> DEFINE j == IF api[a].enabled THEN job \cup {JobOf(a)} ELSE job \ {JobOf(a)}
  <1>1. j \in SUBSET (Worker \X Conn)
    BY ApiInFlight DEF ScheduleIntegration, IInv, TypeOK
  <1> QED
    BY <1>1, EndCallStep DEF ScheduleIntegration

LEMMA UnscheduleStep ==
  ASSUME IInv, NEW a \in Api, UnscheduleIntegration(a) PROVE IInv'
  <1> DEFINE c == [api[a] EXCEPT !.pc = "unscheduled"]
  <1>1. c \in ApiState /\ JobOK(c)
    BY ApiInFlight DEF UnscheduleIntegration, ApiState, JobOK
  <1>2. job \ {JobOf(a)} \in SUBSET (Worker \X Conn)
    BY DEF IInv, TypeOK
  <1>3. api' = [api EXCEPT ![a] = c]
    BY DEF UnscheduleIntegration
  <1> HIDE DEF c
  <1> QED
    BY <1>1, <1>2, <1>3, CallStep DEF UnscheduleIntegration

\* The cascade closes the log of every run of the deleted integration.
LEMMA DeleteRowStep ==
  ASSUME IInv, NEW a \in Api, DeleteRow(a) PROVE IInv'
  <1> DEFINE i == api[a].int
  <1>1. i \in Conn
    BY ApiInFlight DEF DeleteRow
  <1>2. \A s \in Run : [run[s] EXCEPT !.log = "deleted"] \in RunState
    BY DEF IInv, TypeOK, RunState
  <1>3. /\ row' = [row EXCEPT ![i] = None] /\ past' = [past EXCEPT ![i] = {}]
        /\ run' = [s \in Run |-> IF run[s].int = i /\ run[s].log = "open"
                                 THEN [run[s] EXCEPT !.log = "deleted"] ELSE run[s]]
        /\ api' = [api EXCEPT ![a] = NoCall] /\ UNCHANGED <<up, used, job>>
    BY DEF DeleteRow, EndCall
  <1>4. \A s \in Run : /\ run'[s].pc = run[s].pc /\ run'[s].int = run[s].int
                       /\ run'[s].log = "open" => run[s].log = "open" /\ run[s].int # i
    BY <1>3 DEF IInv, TypeOK, RunState
  <1>5. TypeOK'
    <2>1. run' \in [Run -> RunState]
      BY <1>2, <1>3 DEF IInv, TypeOK
    <2> QED
      BY <1>1, <1>3, <2>1, Constants DEF IInv, TypeOK
  <1>6. Bound'
    BY <1>3, <1>4, Constants DEF IInv, TypeOK, Bound
  <1>7. LogInv'
    BY <1>1, <1>3, <1>4 DEF IInv, TypeOK, LogInv, NoLogWithoutIntegration, Exists
  <1> QED
    BY <1>5, <1>6, <1>7 DEF IInv

LEMMA QueueStep ==
  ASSUME IInv, NEW w \in Worker, NEW i \in Conn, NEW s \in Run,
         run' = [run EXCEPT ![s] = Queued(w, i)],
         UNCHANGED <<up, used, row, past, job, api>>
  PROVE  IInv'
  <1> DEFINE q == Queued(w, i)
  <1>1. q \in RunState /\ q.pc = "queued" /\ q.int = i /\ q.log = "none"
    BY DEF NoRun, RunState, Queued
  <1>2. run' = [run EXCEPT ![s] = q]
    OBVIOUS
  <1> HIDE DEF q
  <1> QED
    BY <1>1, <1>2, RunMove

LEMMA RunInFlight ==
  ASSUME IInv, NEW s \in Run, run[s].pc # "idle"
  PROVE  /\ run[s] \in RunState /\ run[s].int \in Conn
         /\ run[s].log = "open" => run[s].pc \in {"running", "worked"} /\ Exists(run[s].int)
         /\ run[s].pc = "worked" => run[s].outcome # "none"
  BY DEF IInv, TypeOK, Bound, LogInv, NoLogWithoutIntegration

LEMMA RunStepStep ==
  ASSUME IInv, NEW s \in Run, RunStep(s) PROVE IInv'
  <1>1. run[s].pc # "idle"
    BY DEF RunStep, Dispatch, LoadIntegration, BeginLog, Work, FinalizeLog, UpdateStatus
  <1>2. /\ run[s] \in RunState /\ run[s].int \in Conn
        /\ run[s].log = "open" => run[s].pc \in {"running", "worked"} /\ Exists(run[s].int)
        /\ run[s].pc = "worked" => run[s].outcome # "none"
    BY <1>1, RunInFlight
  <1> DEFINE i == run[s].int
             Goto(p) == run' = [run EXCEPT ![s] = [run[s] EXCEPT !.pc = p]]
  <1>3. CASE Dispatch(s) \/ LoadIntegration(s)
    <2>1. CASE Enabled(i)
      <3>1. PICK p \in {"dispatched", "loaded"} : Goto(p)
        BY <1>3, <2>1 DEF Dispatch, LoadIntegration
      <3> DEFINE q == [run[s] EXCEPT !.pc = p]
      <3>2. /\ q \in RunState /\ q.int = i /\ q.log # "open" /\ q.pc # "worked"
            /\ run' = [run EXCEPT ![s] = q]
        BY <1>2, <1>3, <3>1 DEF RunState, Dispatch, LoadIntegration
      <3>3. UNCHANGED <<up, used, row, past, job, api>>
        BY <1>3 DEF Dispatch, LoadIntegration
      <3> HIDE DEF q
      <3> QED
        BY <1>2, <3>2, <3>3, RunMove
    <2>2. CASE ~Enabled(i)
      BY <1>3, <2>2, EndRunStep DEF Dispatch, LoadIntegration
    <2> QED
      BY <2>1, <2>2
  <1>4. CASE BeginLog(s)
    <2>1. CASE Exists(i)
      <3> DEFINE q == [run[s] EXCEPT !.pc = "running", !.log = "open"]
      <3>1. q \in RunState /\ q.int = i /\ q.pc = "running"
        BY <1>2 DEF RunState
      <3>2. run' = [run EXCEPT ![s] = q]
        BY <1>4, <2>1 DEF BeginLog
      <3> HIDE DEF q
      <3> QED
        BY <1>2, <1>4, <2>1, <3>1, <3>2, RunMove DEF BeginLog
    <2>2. CASE ~Exists(i)
      BY <1>4, <2>2, EndRunStep DEF BeginLog
    <2> QED
      BY <2>1, <2>2
  <1>5. CASE Work(s)
    <2>1. PICK o \in Outcome \cup {"db_error"} :
            run' = [run EXCEPT ![s] = [run[s] EXCEPT !.pc = "worked", !.outcome = o]]
      BY <1>5 DEF Work
    <2> DEFINE q == [run[s] EXCEPT !.pc = "worked", !.outcome = o]
    <2>2. /\ q \in RunState /\ q.int = i /\ q.pc = "worked" /\ q.log = run[s].log
          /\ q.outcome # "none" /\ run' = [run EXCEPT ![s] = q]
      BY <1>2, <2>1 DEF RunState, Outcome
    <2>3. UNCHANGED <<up, used, row, past, job, api>>
      BY <1>5 DEF Work
    <2> HIDE DEF q
    <2> QED
      BY <1>2, <2>2, <2>3, RunMove
  <1>6. CASE FinalizeLog(s)
    <2> DEFINE done == run[s].log = "open" /\ run[s].outcome # "db_error"
               k == IF done THEN {run[s].outcome} ELSE Abandoned(s)
               q == IF done THEN [run[s] EXCEPT !.pc = "finalized", !.log = "none"] ELSE NoRun
    <2>1. /\ past' = [past EXCEPT ![i] = past[i] \cup k] /\ run' = [run EXCEPT ![s] = q]
          /\ UNCHANGED <<up, used, row, job, api>>
      BY <1>6 DEF FinalizeLog, EndRun
    <2>2. k \subseteq Outcome \cup {"open"} /\ (k # {} => Exists(i))
      BY <1>2, <1>6 DEF FinalizeLog, RunState, Abandoned
    <2>3. /\ q \in RunState /\ q.log # "open" /\ q.pc # "worked"
          /\ q.pc # "idle" => q.int \in Conn
      BY <1>2, Constants DEF RunState
    <2> HIDE DEF q, k
    <2>4. TypeOK'
      BY <1>2, <2>1, <2>2, <2>3 DEF IInv, TypeOK
    <2>5. Bound'
      BY <2>1, <2>3 DEF IInv, TypeOK, Bound
    <2>6. LogInv'
      BY <1>2, <2>1, <2>2, <2>3 DEF IInv, TypeOK, LogInv, NoLogWithoutIntegration, Exists
    <2> QED
      BY <2>4, <2>5, <2>6 DEF IInv
  <1>7. CASE UpdateStatus(s)
    <2> DEFINE x == [row[i] EXCEPT !.status = StatusOf(run[s].outcome)]
    <2>1. /\ row' = IF Exists(i) THEN [row EXCEPT ![i] = x] ELSE row
          /\ run' = [run EXCEPT ![s] = NoRun] /\ UNCHANGED <<up, used, past, job, api>>
      BY <1>7 DEF UpdateStatus, EndRun
    <2>2. Exists(i) => x \in Row /\ x # None
      <3>1. StatusOf(run[s].outcome) \in Status
        BY DEF StatusOf, Status
      <3> QED
        BY <1>2, <3>1, ExistingRow, SyncJobsAssumption DEF Row
    <2> HIDE DEF x
    <2>3. /\ row' \in [Conn -> Row \cup {None}]
          /\ \A k \in Conn : Exists(k)' <=> Exists(k)
      BY <1>2, <2>1, <2>2 DEF IInv, TypeOK, Exists
    <2>4. TypeOK'
      BY <2>1, <2>3, Constants DEF IInv, TypeOK
    <2>5. Bound'
      BY <2>1, Constants DEF IInv, TypeOK, Bound
    <2>6. LogInv'
      BY <2>1, <2>3, Constants DEF IInv, TypeOK, LogInv, NoLogWithoutIntegration
    <2> QED
      BY <2>4, <2>5, <2>6 DEF IInv
  <1> QED
    BY <1>3, <1>4, <1>5, <1>6, <1>7 DEF RunStep

LEMMA PurgeStep ==
  ASSUME IInv, NEW i \in Conn, NEW k, PurgeSyncLogs(i, k) PROVE IInv'
  <1>1. TypeOK'
    BY DEF PurgeSyncLogs, IInv, TypeOK
  <1>2. Bound'
    BY DEF PurgeSyncLogs, IInv, Bound
  <1>3. LogInv'
    BY DEF PurgeSyncLogs, IInv, TypeOK, LogInv, NoLogWithoutIntegration, Exists
  <1> QED
    BY <1>1, <1>2, <1>3 DEF IInv

LEMMA StartStep ==
  ASSUME IInv, NEW w \in Worker, Start(w) PROVE IInv'
  <1>1. TypeOK'
    BY DEF Start, IInv, TypeOK
  <1>2. Bound' /\ LogInv'
    BY DEF Start, IInv, Bound, LogInv, NoLogWithoutIntegration, Exists
  <1> QED
    BY <1>1, <1>2 DEF IInv

\* A crash leaves open logs behind, each of an integration that exists.
LEMMA CrashStep ==
  ASSUME IInv, NEW w \in Worker, Crash(w) PROVE IInv'
  <1> DEFINE Left(i) == UNION {Abandoned(s) : s \in {t \in Run : run[t].at = w /\ run[t].int = i}}
  <1>1. \A i \in Conn : Left(i) \subseteq {"open"} /\ (Left(i) # {} => Exists(i))
    BY DEF Abandoned, IInv, LogInv, NoLogWithoutIntegration
  <1>2. /\ up' = [up EXCEPT ![w] = "down"] /\ job' = job \ ({w} \X Conn)
        /\ run' = [s \in Run |-> IF run[s].at = w THEN NoRun ELSE run[s]]
        /\ api' = [a \in Api |-> IF api[a].at = w THEN NoCall ELSE api[a]]
        /\ past' = [i \in Conn |-> past[i] \cup Left(i)] /\ UNCHANGED <<used, row>>
    BY DEF Crash
  <1> HIDE DEF Left
  <1>3. TypeOK'
    BY <1>1, <1>2, Constants DEF IInv, TypeOK
  <1>4. Bound'
    BY <1>2, Constants DEF IInv, Bound
  <1>5. LogInv'
    BY <1>1, <1>2, Constants DEF IInv, LogInv, NoLogWithoutIntegration, Exists
  <1> QED
    BY <1>3, <1>4, <1>5 DEF IInv

LEMMA InvInit == Init => IInv
  BY Constants DEF Init, IInv, TypeOK, Bound, LogInv, NoLogWithoutIntegration

LEMMA InvNext == IInv /\ [Next]_vars => IInv'
  <1> SUFFICES ASSUME IInv, [Next]_vars PROVE IInv'
    OBVIOUS
  <1>1. ASSUME NEW a \in Api, ApiStep(a) PROVE IInv'
    BY <1>1, UpdateCommitStep, RefreshRowStep, ScheduleStep, UnscheduleStep, DeleteRowStep
       DEF ApiStep
  <1>2. ASSUME NEW w \in Worker, NEW i \in Conn, NEW t \in Task, TriggerSync(w, i, t) PROVE IInv'
    BY <1>2, QueueStep DEF TriggerSync, Run
  <1>3. ASSUME NEW w \in Worker, NEW i \in Conn, Fire(w, i) PROVE IInv'
    BY <1>3, QueueStep DEF Fire, Run
  <1>4. CASE UNCHANGED vars
    BY <1>4 DEF vars, IInv, TypeOK, Bound, LogInv, NoLogWithoutIntegration, Exists
  <1> QED
    BY <1>1, <1>2, <1>3, <1>4, CreateStep, LoadStep, RunStepStep, PurgeStep, StartStep, CrashStep
       DEF Next

LEMMA Inductive == Spec => []IInv
  BY InvInit, InvNext, PTL DEF Spec

-----------------------------------------------------------------------------
(* The theorems *)

\* The integration, log, job and run state is well typed in every state.
THEOREM TypeCorrect == Spec => []TypeOK
  <1>1. IInv => TypeOK
    BY DEF IInv
  <1> QED
    BY <1>1, Inductive, PTL

\* A sync log never outlives its integration, whatever crashes, database errors
\* and overlapping runs and requests there are.
THEOREM LogsBelong == Spec => []NoLogWithoutIntegration
  <1>1. IInv => NoLogWithoutIntegration
    BY DEF IInv, LogInv
  <1> QED
    BY <1>1, Inductive, PTL

-----------------------------------------------------------------------------
(* What becomes of a log that was begun *)

\* A begun log is completed, or goes with its integration, or is left open by
\* the death of its worker or by a run that has met a database error; nothing
\* else that requests, other runs, other workers and the purge do comes between
\* a run and its log.
THEOREM LogsAreCompleted == Spec => LogOfEveryRun
  <1>1. ASSUME IInv, [Next]_vars, NEW s \in Run, run[s].log = "open", run'[s].log # "open"
        PROVE  \/ run[s].outcome \in past'[run[s].int]
               \/ run'[s].log = "deleted" /\ row'[run[s].int] = None
               \/ "open" \in past'[run[s].int] /\ (up'[run[s].at] = "down" \/ run[s].outcome = "db_error")
    <2>1. /\ run \in [Run -> RunState] /\ past \in [Conn -> SUBSET (Outcome \cup {"open"})]
          /\ row \in [Conn -> Row \cup {None}] /\ up \in [Worker -> {"down", "up", "unscheduled"}]
      BY <1>1 DEF IInv, TypeOK
    <2>2. run[s].pc \in {"running", "worked"} /\ run[s].int \in Conn
      BY <1>1 DEF IInv, LogInv, Bound
    <2>3. run'[s] # run[s]
      BY <1>1
    <2>4. ASSUME NEW a \in Api, DeleteRow(a)
          PROVE  run'[s].log = "deleted" /\ row'[run[s].int] = None
      <3>1. /\ run' = [t \in Run |-> IF run[t].int = api[a].int /\ run[t].log = "open"
                                     THEN [run[t] EXCEPT !.log = "deleted"] ELSE run[t]]
            /\ row' = [row EXCEPT ![api[a].int] = None]
        BY <2>4 DEF DeleteRow
      <3>2. run[s].int = api[a].int /\ run'[s] = [run[s] EXCEPT !.log = "deleted"]
        BY <2>3, <3>1
      <3> QED
        BY <2>1, <2>2, <3>1, <3>2 DEF RunState
    <2>5. ASSUME NEW t \in Run, RunStep(t)
          PROVE  \/ run[s].outcome \in past'[run[s].int]
                 \/ "open" \in past'[run[s].int] /\ run[s].outcome = "db_error"
      <3>1. t = s
        BY <2>1, <2>3, <2>5 DEF RunStep, Dispatch, LoadIntegration, BeginLog, Work, FinalizeLog,
           UpdateStatus, EndRun
      <3>2. ~Work(s)
        BY <1>1, <2>1 DEF Work, RunState
      <3>3. FinalizeLog(s)
        BY <2>2, <2>5, <3>1, <3>2 DEF RunStep, Dispatch, LoadIntegration, BeginLog, UpdateStatus
      <3>4. CASE run[s].outcome # "db_error"
        BY <1>1, <2>1, <2>2, <3>3, <3>4 DEF FinalizeLog
      <3>5. CASE run[s].outcome = "db_error"
        BY <1>1, <2>1, <2>2, <3>3, <3>5 DEF FinalizeLog, Abandoned
      <3> QED
        BY <3>4, <3>5
    <2>6. ASSUME NEW w \in Worker, Crash(w)
          PROVE  "open" \in past'[run[s].int] /\ up'[run[s].at] = "down"
      <3>1. run[s].at = w
        BY <2>3, <2>6 DEF Crash
      <3>2. up'[w] = "down"
        BY <2>1, <2>6 DEF Crash
      <3>3. "open" \in Abandoned(s)
        BY <1>1 DEF Abandoned
      <3>4. past'[run[s].int] = past[run[s].int] \cup
              UNION {Abandoned(x) : x \in {t \in Run : run[t].at = w /\ run[t].int = run[s].int}}
        BY <2>2, <2>6 DEF Crash
      <3> QED
        BY <3>1, <3>2, <3>3, <3>4
    <2>7. ASSUME NEW w \in Worker, NEW i \in Conn, NEW t \in Run, run[t].pc = "idle",
                 run' = [run EXCEPT ![t] = Queued(w, i)]
          PROVE  FALSE
      BY <2>1, <2>2, <2>3, <2>7
    <2>8. CASE run' = run
      BY <2>3, <2>8
    <2> QED
      BY <1>1, <2>4, <2>5, <2>6, <2>7, <2>8
         DEF Next, vars, ApiStep, CreateIntegration, UpdateLoad, DeleteLoad, UpdateCommit, RefreshRow,
             ScheduleIntegration, UnscheduleIntegration, TriggerSync, Fire, Start, PurgeSyncLogs, Run
  <1>2. IInv /\ [Next]_vars =>
          [\A s \in Run : LET i == run[s].int IN
             run[s].log = "open" /\ run'[s].log # "open" =>
               \/ run[s].outcome \in past'[i]
               \/ run'[s].log = "deleted" /\ row'[i] = None
               \/ "open" \in past'[i] /\ (up'[run[s].at] = "down" \/ run[s].outcome = "db_error")]_vars
    BY <1>1
  <1> QED
    BY <1>2, Inductive, PTL DEF Spec, LogOfEveryRun

-----------------------------------------------------------------------------
(* Jobs and integrations, with one request at a time *)

OneAdministrator == \A a, b \in Api : a = b

HasJob(i) == \E w \in Worker : <<w, i>> \in job

\* What the single request knows about its integration at each of its steps.
SoloInv ==
  /\ \A a \in Api : api[a].pc = "idle" => api[a].int = None
  /\ \A i \in Conn : Settled(i) /\ Enabled(i) => HasJob(i)
  /\ \A a \in Api : LET i == api[a].int IN
       /\ api[a].pc \in {"committed", "refreshed"} => Exists(i)
       /\ api[a].pc = "refreshed" => api[a].enabled = row[i].enabled

LEMMA SoloStep ==
  ASSUME OneAdministrator, IInv, SoloInv, [Next]_vars
  PROVE  SoloInv'
  <1> USE DEF SoloInv, Settled, Enabled, Exists, HasJob, OneAdministrator
  <1>1. /\ row \in [Conn -> Row \cup {None}] /\ api \in [Api -> ApiState]
        /\ run \in [Run -> RunState] /\ job \subseteq Worker \X Conn
        /\ up \in [Worker -> {"down", "up", "unscheduled"}]
        /\ \A x \in Row : x.enabled \in BOOLEAN /\ x # None
        /\ \A a \in Api : api[a].pc # "idle" => api[a].int \in Conn /\ api[a].at \in Worker
        /\ \A a \in Api, i \in Conn : api[a].pc = "idle" => api[a].int # i
    BY SyncJobsAssumption DEF IInv, TypeOK, Bound, JobOK, Row
  \* A step of the one request leaves all other integrations settled.
  <1>2. ASSUME NEW a \in Api, NEW i \in Conn,
               api[a].pc = "idle" \/ api[a].int = i,
               api' = [api EXCEPT ![a] = api'[a]], up' = up,
               api'[a].int \in {i, None},
               \A k \in Conn \ {i} : row'[k] = row[k] /\ (HasJob(k)' <=> HasJob(k)),
               \/ api'[a] = NoCall /\ (Enabled(i)' => HasJob(i)')
               \/ /\ api'[a].pc # "idle" /\ api'[a].int = i
                  /\ api'[a].pc \in {"committed", "refreshed"} => Exists(i)'
                  /\ api'[a].pc = "refreshed" => api'[a].enabled = row'[i].enabled
        PROVE  SoloInv'
    <2>1. \A b \in Api : b = a
      OBVIOUS
    <2>2. \A k \in Conn \ {i} : Settled(k)' => Settled(k)
      BY <1>1, <1>2, <2>1
    <2>3. \A k \in Conn \ {i} : Settled(k)' /\ Enabled(k)' => HasJob(k)'
      BY <1>2, <2>2
    <2>4. Settled(i)' /\ Enabled(i)' => HasJob(i)'
      BY <1>2, <2>1
    <2> HIDE DEF HasJob, Settled
    <2> QED
      BY <1>1, <1>2, <2>1, <2>3, <2>4, Constants
  <1>4. ASSUME NEW a \in Api, NEW w \in Worker, NEW i \in Conn, NEW e \in BOOLEAN,
               CreateIntegration(a, w, i, e)
        PROVE  SoloInv'
    <2>1. [enabled |-> e, status |-> "disabled"] # None
      BY SyncJobsAssumption DEF Row, Status
    <2>2. /\ api' = [api EXCEPT ![a] = api'[a]] /\ row'[i] # None /\ UNCHANGED <<up, job>>
          /\ api'[a].pc = "committed" /\ api'[a].int = i /\ api[a].pc = "idle"
          /\ \A k \in Conn \ {i} : row'[k] = row[k]
      BY <1>1, <1>4, <2>1 DEF CreateIntegration
    <2> QED
      BY <1>2, <2>2
  <1>5. ASSUME NEW a \in Api, NEW w \in Worker, NEW i \in Conn,
               UpdateLoad(a, w, i) \/ DeleteLoad(a, w, i)
        PROVE  SoloInv'
    <2>1. /\ api[a].pc = "idle" /\ api' = [api EXCEPT ![a] = api'[a]]
          /\ api'[a].pc \in {"loaded", "deleting"} /\ api'[a].int = i
          /\ UNCHANGED <<up, row, job>>
      BY <1>1, <1>5 DEF UpdateLoad, DeleteLoad
    <2> QED
      BY <1>2, <2>1
  <1>6. ASSUME NEW a \in Api, ApiStep(a) PROVE SoloInv'
    <2>0. api[a].pc # "idle" /\ up' = up
      BY <1>6 DEF ApiStep, UpdateCommit, RefreshRow, ScheduleIntegration,
         UnscheduleIntegration, DeleteRow
    <2> PICK i \in Conn : i = api[a].int
      BY <1>1, <2>0
    <2>1. api[a].pc # "idle" /\ api[a].int = i /\ api[a].at \in Worker /\ up' = up
      BY <1>1, <2>0
    <2>3. ASSUME NEW e \in BOOLEAN, UpdateCommit(a, e) PROVE SoloInv'
      <3>1. CASE Exists(i)
        <4>1. [row[i] EXCEPT !.enabled = e] # None
          BY <1>1, <2>1, <3>1, SyncJobsAssumption DEF Row
        <4>2. /\ api' = [api EXCEPT ![a] = api'[a]] /\ job' = job
              /\ api'[a].pc = "committed" /\ api'[a].int = i
              /\ \A k \in Conn \ {i} : row'[k] = row[k]
          BY <1>1, <2>1, <2>3, <3>1 DEF UpdateCommit, ApiState
        <4>3. \/ row' = row \/ row' = [row EXCEPT ![i] = [row[i] EXCEPT !.enabled = e]]
          BY <2>1, <2>3, <3>1 DEF UpdateCommit
        <4>4. row'[i] # None
          BY <1>1, <2>1, <3>1, <4>1, <4>3
        <4>5. \A k \in Conn : HasJob(k)' <=> HasJob(k)
          BY <4>2
        <4>6. Exists(i)'
          BY <4>4
        <4> HIDE DEF HasJob, Exists, Enabled, Settled, SoloInv
        <4> QED
          BY <1>2, <2>1, <4>2, <4>5, <4>6
      <3>2. CASE ~Exists(i)
        <4>1. /\ api' = [api EXCEPT ![a] = api'[a]] /\ api'[a] = NoCall /\ UNCHANGED <<row, job>>
          BY <1>1, <2>1, <2>3, <3>2 DEF UpdateCommit, EndCall
        <4>2. ~Enabled(i)' /\ \A k \in Conn : HasJob(k)' <=> HasJob(k)
          BY <3>2, <4>1
        <4> HIDE DEF HasJob, Exists, Enabled, Settled, SoloInv
        <4> QED
          BY <1>2, <2>1, <4>1, <4>2, Constants
      <3> QED
        BY <3>1, <3>2
    <2>4. CASE RefreshRow(a)
      <3>1. Exists(i)
        BY <2>1, <2>4 DEF RefreshRow
      <3>2. /\ api' = [api EXCEPT ![a] = api'[a]] /\ UNCHANGED <<row, job>>
            /\ api'[a].pc = "refreshed" /\ api'[a].int = i /\ api'[a].enabled = row[i].enabled
        BY <1>1, <2>1, <2>4, <3>1 DEF RefreshRow, ApiState
      <3> QED
        BY <1>2, <2>1, <3>1, <3>2
    <2>5. CASE ScheduleIntegration(a)
      <3>1. /\ row' = row /\ row[i] # None /\ api[a].enabled = row[i].enabled
            /\ api' = [api EXCEPT ![a] = api'[a]] /\ api'[a] = NoCall
        BY <1>1, <2>1, <2>5 DEF ScheduleIntegration, EndCall
      <3>2. /\ \A v \in Worker, k \in Conn \ {i} : <<v, k>> \in job' <=> <<v, k>> \in job
            /\ api[a].enabled => <<api[a].at, i>> \in job'
        BY <2>1, <2>5 DEF ScheduleIntegration, JobOf
      <3>3. (\A k \in Conn \ {i} : HasJob(k)' <=> HasJob(k)) /\ (row[i].enabled => HasJob(i)')
        BY <2>1, <3>1, <3>2
      <3>4. Exists(i)' /\ (Enabled(i)' => HasJob(i)')
        BY <3>1, <3>3
      <3>5. \A k \in Conn \ {i} : row'[k] = row[k]
        BY <3>1
      <3>6. api'[a].int \in {i, None}
        BY <3>1, Constants
      <3> HIDE DEF HasJob, Enabled, Exists, SoloInv, Settled
      <3> QED
        BY <1>2, <2>1, <3>1, <3>3, <3>4, <3>5, <3>6
    <2>6. CASE UnscheduleIntegration(a)
      <3>0. /\ row' = row /\ <<api[a].at, i>> \notin job'
            /\ \A v \in Worker, k \in Conn \ {i} : <<v, k>> \in job' <=> <<v, k>> \in job
            /\ \A v \in Worker : <<v, i>> \in job' => <<v, i>> \in job
        BY <2>1, <2>6 DEF UnscheduleIntegration, JobOf
      <3>1. /\ \A k \in Conn \ {i} : HasJob(k)' <=> HasJob(k)
            /\ HasJob(i)' => HasJob(i)
        BY <3>0
      <3>2. /\ api' = [api EXCEPT ![a] = api'[a]] /\ api'[a].int = i
            /\ api'[a].pc = "unscheduled"
        BY <1>1, <2>1, <2>6 DEF UnscheduleIntegration, ApiState
      <3> HIDE DEF HasJob
      <3> QED
        BY <1>1, <1>2, <2>1, <3>0, <3>1, <3>2
    <2>7. CASE DeleteRow(a)
      <3>1. /\ api' = [api EXCEPT ![a] = api'[a]] /\ api'[a] = NoCall /\ job' = job
            /\ row'[i] = None /\ \A k \in Conn \ {i} : row'[k] = row[k]
            /\ api[a].pc = "unscheduled"
        BY <1>1, <2>1, <2>7 DEF DeleteRow, EndCall
      <3>2. api'[a].int \in {i, None} /\ ~Enabled(i)'
        BY <3>1, Constants
      <3>4. \A k \in Conn \ {i} : HasJob(k)' <=> HasJob(k)
        BY <3>1
      <3> HIDE DEF HasJob, Enabled, Exists, SoloInv, Settled
      <3> QED
        BY <1>2, <2>1, <3>1, <3>2, <3>4
    <2> QED
      BY <1>6, <2>3, <2>4, <2>5, <2>6, <2>7 DEF ApiStep
  <1>7. ASSUME UNCHANGED <<up, job, api>>,
               \A i \in Conn : (Exists(i)' <=> Exists(i)) /\
                               (Exists(i) => row'[i].enabled = row[i].enabled)
        PROVE  SoloInv'
    <2>1. \A a \in Api : api[a].pc \in {"committed", "refreshed"} => api[a].int \in Conn
      BY <1>1
    <2> QED
      BY <1>1, <1>7, <2>1
  <1>8. ASSUME NEW s \in Run, RunStep(s) PROVE SoloInv'
    <2>1. CASE UpdateStatus(s)
      <3>1. \A x \in Row, y \in Status : [x EXCEPT !.status = y] \in Row
        BY DEF Row
      <3>2. StatusOf(run[s].outcome) \in Status
        BY DEF StatusOf, Status
      <3>3. \A i \in Conn : (Exists(i)' <=> Exists(i)) /\
                            (Exists(i) => row'[i].enabled = row[i].enabled)
        BY <1>1, <2>1, <3>1, <3>2 DEF UpdateStatus, Row
      <3> QED
        BY <1>7, <2>1, <3>3 DEF UpdateStatus
    <2>2. CASE ~UpdateStatus(s)
      BY <1>7, <1>8, <2>2
         DEF RunStep, Dispatch, LoadIntegration, BeginLog, Work, FinalizeLog
    <2> QED
      BY <2>1, <2>2
  <1>9. ASSUME NEW w \in Worker, Start(w) PROVE SoloInv'
    <2>1. /\ \/ job' = job \cup ({w} \X {i \in Conn : Enabled(i)})
             \/ up'[w] = "unscheduled" /\ job' = job
          /\ up[w] = "down" /\ UNCHANGED <<row, api>>
      BY <1>1, <1>9 DEF Start
    <2>2. \A i \in Conn : Settled(i)' /\ Enabled(i)' => HasJob(i)'
      BY <2>1
    <2> HIDE DEF HasJob, Settled
    <2> QED
      BY <1>1, <2>1, <2>2
  <1>10. ASSUME NEW w \in Worker, Crash(w) PROVE SoloInv'
    <2>1. /\ up'[w] = "down" /\ row' = row
          /\ api' = [a \in Api |-> IF api[a].at = w THEN NoCall ELSE api[a]]
      BY <1>1, <1>10 DEF Crash
    <2>2. \A i \in Conn : ~Settled(i)'
      BY <2>1
    <2> HIDE DEF HasJob, Settled
    <2> QED
      BY <1>1, <2>1, <2>2, Constants
  <1>11. ASSUME NEW w \in Worker, NEW i \in Conn, NEW t, TriggerSync(w, i, t) \/ Fire(w, i)
         PROVE  SoloInv'
    BY <1>7, <1>11 DEF TriggerSync, Fire
  <1>13. ASSUME NEW i \in Conn, NEW k, PurgeSyncLogs(i, k) PROVE SoloInv'
    BY <1>7, <1>13 DEF PurgeSyncLogs
  <1>12. CASE UNCHANGED vars
    BY <1>7, <1>12 DEF vars
  <1> HIDE DEF SoloInv, Settled, Enabled, Exists, HasJob, OneAdministrator
  <1> QED
    BY <1>4, <1>5, <1>6, <1>8, <1>9, <1>10, <1>11, <1>12, <1>13 DEF Next

LEMMA SoloInductive ==
  ASSUME OneAdministrator
  PROVE  Spec => []SoloInv
  <1>1. Init => SoloInv
    BY Constants DEF Init, SoloInv, Settled, Enabled, Exists, HasJob
  <1>2. IInv /\ SoloInv /\ [Next]_vars => SoloInv'
    BY SoloStep
  <1> QED
    BY <1>1, <1>2, Inductive, PTL DEF Spec

\* When the integration endpoints are used one request at a time, an enabled
\* integration always has its job in some worker, whichever workers answer the
\* requests, crash and start: overlapping requests, and a startup that cannot read
\* the integrations, are the only ways to lose a job.
THEOREM EnabledIntegrationsHaveJobs ==
  ASSUME OneAdministrator
  PROVE  Spec => []EnabledHasJob
  <1>1. SoloInv => EnabledHasJob
    BY DEF SoloInv, EnabledHasJob, HasJob
  <1> QED
    BY <1>1, SoloInductive, PTL
=============================================================================
