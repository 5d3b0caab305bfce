# Verification of the datacenter manager

TLA+ models of the concurrent core of the backend and of the frontend's session
and editors, checked with TLC on small instances; every safety property of the
passing runs is also proved with TLAPS for every value of the constants. Paths are those of the repository under `src/`; `backend/app/` and
`frontend/src/` are left out where the file is clear.

## 1. The system

A FastAPI backend (`backend/`) over PostgreSQL, a React frontend (`frontend/`)
and a set of containers. All requests and scheduled jobs of one backend process
are coroutines of one event loop: they interleave at each `await`, in practice
at each database or network round trip, and nowhere else. The production image
runs two such processes (`backend/Dockerfile:25`, `--workers 2`); they share the
database and nothing else. Each request or job has its own database session at
isolation READ COMMITTED. In a browser everything runs on one thread, but answers
arrive in any order, late, or not at all, while the user goes on clicking; tabs
share the refresh cookie and nothing else.

| Component | State | Operations | Modelled in |
|---|---|---|---|
| Authentication (`endpoints/auth.py`, `core/security.py`) | users.is_active, token_revocations; live tokens are stateless JWTs | login, refresh, logout, change-password, current-user dependency, daily purge | `AuthTokens`, abstractly `TokenLedger` |
| Integrations, scheduler (`endpoints/integrations.py`, `tasks/scheduler.py`) | integrations; per process: APScheduler jobs | create, update, delete, trigger, startup | `SyncJobs` |
| Sync jobs, sync logs (`tasks/sync_jobs.py`, `tasks/cleanup_jobs.py`) | sync_logs, integration status | dispatch, begin and finalize log, retention purge | `SyncJobs` |
| Sync engine, xClarity (`services/sync_engine.py`, `services/xclarity.py`) | devices, device_servers, audit_logs, alerts | upsert per node, deactivate what is missing | `SyncEngine` |
| Alerts (`endpoints/alerts.py`, `crud/alert.py`) | alerts | post, acknowledge, delete | `SyncEngine` |
| Topology cache (`services/topology.py`, `endpoints/links.py`) | network_links; per process: graph, flag, lock | path, create, update and delete a link | `TopologyCache`, abstractly `PathService` |
| Session client (`api/index.ts`, `api/auth.ts`, `store/authStore.ts`, `App.tsx`) | per tab: access token, refresh in flight, calls; shared: the cookie | call, retry after 401, refresh, login, logout, change password, reload | `SessionClient` over `TokenLedger` |
| List pages (19 files of `pages/` with their hooks in `api/`) | cached list pages, dialog, form, deletion target | page, create, edit, delete, acknowledge, reset a password | `EntityPages` |
| Rack editors (`components/topology/...`) | cached elevation, gesture, Add Device dialog | drag, resize, add a device | `RackEditor` |
| Device page (`pages/Devices.tsx`) | cached list and details, one form for all types, chassis blades | create, edit, switch type, delete, add a blade | `DeviceForm` |
| Users, bootstrap; inventory CRUD; virtualization sync; IP scan; collectors; views; deployment | see section 7 | | in part, or not |

How they interact: the scheduler's jobs and the trigger endpoint both start a sync
run; a run calls the engine, which writes inventory, audit log and alerts;
operators change the same rows through the endpoints, from pages that decide on
cached copies of them; deleting an integration unschedules its job and cascades to
its logs while a run may be writing them; link endpoints invalidate the graph that
path requests read; every call of the frontend carries a token that the backend
may have revoked or exchanged for another tab.

What is hard: handlers that check, await and then write; sessions that stay
unusable after a database error; jobs, graphs and locks that live in the memory
of one of two processes; runs of different integrations over the same tables; a
purge that races with token expiry; answers that arrive after the dialog they
belong to was closed, or reopened for another row; caches that count as fresh
without a change that was answered. `hazards` in `PROJECT.json` lists each with its
line and the properties that would catch it.

What makes each component correct is the list of properties in section 4.

## 2. Backend modules

Every handler is a small state machine: one action for each stretch of code
between two database round trips, its guard from the code's conditions and early
returns. Exceptions end the request and keep what was committed. Process death
(`Crash`) drops coroutines and module globals and keeps tables. Variables marked
*history* in the modules are read by properties only. Operators whose comment
begins with "Mutant:" are seeded bugs: `PROJECT.json` says which definition each
replaces and which property then fails; no specification uses them.

### TokenLedger
The abstract specification of the token endpoints: a token is unsigned, live,
spent or dead; signing makes a pair of live ones, spending is final, a spent token
is exchanged for at most one pair. It knows no requests, clock or tables. Two
modules use it: `AuthTokens` implements it, `SessionClient` runs against it.

### AuthTokens
State: the clock, `active` users, the claims of every signed `token`, the denylist
`revoked`, and the coroutine of each request. Actions follow the awaits of `login`
(`LoginVerify`, `LoginIssue`), `refresh_tokens` (`RefreshCheck`, `RefreshLoadUser`,
`RefreshRevoke`, `RefreshIssue`), the dependency `get_current_user` (`AuthCheck`,
`AuthLoadUser`) and `logout` (`LogoutRevokeAccess`, `LogoutRevokeRefresh`,
`LogoutFinish`). The INSERT of a `jti` that is already there fails, as the primary
key makes it; `exp` is truncated to whole seconds and compared that way, while the
purge compares with a finer clock. `ImplementsLedger` is the refinement: the fate
of a token (`Fate`) is a function of its claims, the clock and the denylist.

### SyncJobs
State: which workers are `up`, the `integrations` rows, the kinds of ended
`sync_logs`, the `job`s in each worker's scheduler, each run's coroutine with the
state of its log, and the requests. `Outcome` and `Status` are those of the code;
what a run does to the inventory is abstracted to its outcome. `CONSTANT Faults`
chooses what may fail: process death, a database error inside a sync, a startup
that cannot reach the database.

### SyncEngine
State: what each source reports, devices (serial, uuid, one value for all synced
columns, status, and what the audit log last recorded), alerts, and the session of
each run with its flushed, uncommitted rows (`pend`). A flushed row is locked until
the commit. `RunStep` is one round trip: look up a node, update and flush, query the
open alert, commit, select the missing devices, deactivate them. `Env` chooses
operators' requests and failures.

### TopologyCache
State: `history`, every state the link table has been in (the last is the table),
and for each worker the graph, the dirty flag and the FIFO queue of the
`asyncio.Lock`. `GetPath` joins the queue; the holder answers from the cache or
runs `QueryLinks` and, after the await, `Rebuild`. Link writes commit, refresh and
then mark (`MarkDirty`). A graph keeps one link for a pair of devices, like
`nx.Graph`, and a path is any of the shortest ones.

### PathService
The abstract specification of path requests: links are written one at a time, a path
request is asked and answered, and an answer may be any shortest route of one state of
the links, no older than the worker's last answer and than the last write it has
noted. There is no graph, flag, lock, rebuild, failure or restart: `TopologyCache`
implements it (`ImplementsPathService`) with `AskOf` as the client's view of a
request; what is noted are the writes marked outside a rebuild, and a restart is
requests that leave.

## 3. Frontend modules

One action for each event the page handles: a click, a keystroke that matters, an
answer. The server is reduced to what the answers depend on, and serves a request in
a step of its own, so that requests overtake each other. Buttons that are disabled
are guards; buttons that are not (Cancel, the cross, the overlay) are always
enabled. A query of TanStack Query is a record: idle, sent, served (the snapshot is
taken), landed or failed. `invalidateQueries` marks it stale and fetches it again if
it is observed; a fetch under way is cancelled then only if the query has data: a first
fetch is joined, and lands as fresh even if it was served before the change.

### SessionClient
State: the server's tokens (the variables of `TokenLedger`), the cookie `jar` shared
by all tabs, each `tab`'s in-memory token and route, the API `call`s and the
`exchange` each may have started. `Await` is the interceptor's branch for a 401:
join the refresh under way (`refreshPromise`) or start one; `Refreshed` and
`RefreshFailed` settle the promise for all that wait; `LogoutDone` is `onSettled`;
`Reload` drops the tab's memory, but not the refresh at the server, whose answer
may still set the cookie (`OrphanAnswered`). Losses of requests and answers, expiry
and reloads are mishaps.

### EntityPages
The 19 list pages are one machine with three tables of differences, each row read
from its page: the hooks (verb, what is invalidated), the handlers (one dialog or
two, what the form keeps, which failures are caught) and the view (list size, pager,
dialogs, deletion). A form has a required and an optional field; a value says
whether it is the old one, typed here, written by somebody else, missing, or a default
that the form shows in its place (`FormOf`: colour and icon of a device type,
`Settings.tsx:56`). `Invalidate` restarts the shown page's fetch unless it is a first one
(`Restarted`). The tables show what no run can: every PATCH of a page but that of users is answered 405, lists of
more than 100 and the parents' lists of 200 and 500 are refused with 422, and a 422
whose detail is a list of objects crashes the page that renders it, which takes the
dialog and what was typed into it along (`Rendered`). The three dialogs of `Virtual.tsx`
share one error, and the pencil of a cluster does not clear it (`joint`, `clears`,
`FailedNextDoor`); a failed deletion of a device type closes the confirm dialog (`ends`).

### RackEditor
The four editors (elevation, floor plan panel, diagram, columns of the room view)
share press, move, drop and the Add Device dialog, and differ in what they draw,
when they can be clicked and how they open the dialog. The server stores what it is
sent. `sure` and `checked` are history: a change counts as checked if nothing
changed between the view it was decided on and the moment it was applied, and the
proposed place was a free one. Not modelled of them: the invalidation of other
caches (lists, tree). Seen while modelling: a PDU added in the dialog is always
refused with 422; `nextFreeSlot` falls back to U1 of a full rack; the answer of a
creation closes whatever dialog is open by then; a failed refetch of the elevation
unmounts its dialog with what was typed; a comment says PATCH on drop where PUT is
sent.

### DeviceForm
`DEVICE_FORM_CONFIG` is `Shown`, sections of the form stand for their fields, and a
value says whose it is, so that a value in the wrong device is visible. A save is
the chain of `handleSave`: the device, the wait for the caches it invalidated, the
extension tables in parallel, each of which may fail alone; the handler keeps the
form of the click (its closure), the dialog may change meanwhile. A null in a section
that the form shows with a default (height, face, flags) becomes that default
(`InForm`). The wait ends with the refetches that the save's invalidation started or
joined (`Refetch`, `Refetched`). `Populated` and
`DetailLands` are the effect that fills the extension forms. The chassis dropdown
and the list of blades ask for 200 rows and never arrive.

### Files
`MCx.tla` with its `.cfg` files instantiates module `x`; `xProofs.tla` extends it
with theorems. The theorems about `TokenLedger` are in `AuthTokensProofs` (it is
implemented) and `SessionClientProofs` (it is used, and what it guarantees), those about
`PathService` in `TopologyCacheProofs`.

## 4. Runs

| Run | Instance | Shows |
|---|---|---|
| `auth` | 1 user, 2 requests, 4 tokens, 2 clock ticks | `OneOwner`: of the requests that race for a refresh token one uses it up; `LogoutEndsSession`; `LoggedOutRefused`: until the token expires, whenever the purge runs; `ImplementsLedger` |
| `sync_jobs` | 2 workers, 1 integration, 1 administrator, all faults | `EnabledHasJob`; `NoLogWithoutIntegration`; `LogOfEveryRun`: a log is completed or goes with its integration, unless a crash or a database error ends the run |
| `sync_live` | 1 worker, scheduled and manual run, no faults | runs end (`RunEnds`) and polling goes on (`KeepsPolling`) |
| `engine_live` | 1 source, 1 run at a time, 2 machines, 2 devices | after a clean run the inventory mirrors the report (`MirrorsReport`, `OneDevicePerNode`); a machine that is reported again is not lost (`StaysMirrored`); what stays reported converges (`SyncConverges`) |
| `engine_audit` | 2 overlapping runs, 3 alerts, all failures | `AuditMatches`: audit log agrees with devices; `OneOpenAlert` per device |
| `engine_alert` | 2 overlapping runs, alerts posted by hand | `OverwriteIsAlerted`: every committed overwrite leaves an open alert |
| `topology` | 1 worker, 2 requests, 3 devices in a chain, 2 links, 4 states of the table, crashes and failing queries | `PathsAreReal`: answers are shortest paths of one state of the table; they never go back, see every write marked outside a rebuild; the lock is freed; `ImplementsPathService` |
| `session` | 2 tabs (one only changes its password), 2 calls, 4 tokens, 2 mishaps | `NoSelfRace`: a document never loses its session by racing itself; `WaitersAreServed`; `LogoutSticks`; `LogoutEndsBrowserSession`; `RetryUsesNewToken` |
| `rack` | 1 editor of each kind, a rack of 2 units, a server, a PDU, a new device; 2 writes, 1 mishap | `Fits`: checked changes never overlap or leave the rack; `OwnWritesShown`; `OneDevicePerDialog`; `ConflictIsDrawn` and `RedIsRefused`: what is drawn, what is red and what is refused agree |
| `pages` | each of the 19 pages, 2 rows, one page with two list pages, 2 changes, 1 mishap | `SavedAsSeen`: a save changes the row and the fields the user asked for, and blanks that the form fills; `OneSaveAtATime`; `OwnWritesShown`, but for what `Overlooked` names |
| `device_form` | a chassis, a server, devices that are created; 4 pieces of work, 1 failure | `OwnValues`: nothing of a device ends in another one; `SavedAsClicked`; `EditKeepsUntyped`, but for nulls that are shown with a default; `UnseenKept` |
| `device_community` (violated) | a switch with an SNMP community | see section 6 |

Names of bounds: `MaxTokens`, `MaxToken`, `MaxTables` and the sizes of `Dev`, `Alert`,
`Row` and `Device` bound what can be created; `MaxTime` the clock; `MaxWork` what a
user does (in `RackEditor` and `EntityPages` the writes sent, in `DeviceForm` dialogs,
entries and writes together); `MaxMishap` losses, failures, expiries and changes made
elsewhere; `Uses` the calls of each tab's user; `TotalU` the rack; `PageSize` rows of a
list page. Without bounds in the code, `Free` keeps dialogs from being opened after
the last answer to the last change.

Why the bounds suffice for what the runs claim. Two requests, runs or calls are the
smallest number that races, and the code has no rule about a third. One user, one
integration and one machine per race are enough because the code relates distinct
ones only where a run says so (two machines in the live run of the engine). Token
lifetimes in `auth` are zero: a token lives for the clock tick it was signed in, so
that expiry, the purge and a rotation that outlives its token all happen with two
ticks. Four tokens are a login and one rotation, or two logins; in `session` the
second rotation of a chain can begin and be refused or lost. Two mishaps let an
access token expire and the refresh that follows be lost, or a reload leave it
behind. Two writes let a request overtake another, and a dialog be reopened while
the first request of it is under way; the mishap is a refusal, a lost answer, a failed
fetch or a change made elsewhere in between. A rack of two units has every overlap
that a comparison of intervals can get wrong by one. The instances are larger than
the longest counterexample of any mutant. The proofs remove the bounds for what they
cover.

Fairness. Only `sync_live` and `engine_live` assume any: weak fairness of the steps of
a request or run that has begun (every remote call has a timeout, the event loop is
FIFO), of the scheduler's interval and of the restart of a dead worker (uvicorn's
supervisor); `engine_live` also strong fairness of `Begin`, since the scheduler
starts each integration's sync again and again and skips an interval only while a run
is in flight. No operator and no user is ever assumed to act. The frontend has no
timeout on a call, so nothing is assumed of its answers: that a waiting call is not
forgotten is stated as a safety property (`WaitersAreServed`).

Symmetry is used in safety runs only. Deadlock is checked in all runs but those of the
frontend: a user may stop, and with its bounds used up the page is at rest.

## 5. Proofs

All proofs hold for arbitrary constants under the assumption named in the module
(`AuthAssumption`, `SyncJobsAssumption`, `SyncEngineAssumption`,
`TopologyAssumption`, `SessionAssumption`, `RackAssumption`, `PagesAssumption`,
`DeviceAssumption`), which separates model values and types bounds. Four clauses say
more: the devices of the topology are finitely many (a shortest path exists then); the
rack that the editors open at first has no overlap (nothing in the code would repair
one); a list page has room for some row; and an instance that has chassis has blades,
which the chassis page creates. Each inductive invariant was first checked with TLC on the
instance of its run.

* **AuthTokensProofs.** `TypeCorrect`, `RotationExclusive`, `LogoutIsFinal`,
  `LogoutIsRemembered`, `InsertElectsOne`. A `RefreshIssue` in flight holds the unique
  denylist row that its own `RefreshRevoke` inserted; the invariant says that the row
  stays as long as the token decodes, because the purge only takes rows whose `exp`
  is past, so no other request or logout gets past the primary key.
  `LogoutEndsTheSession`: at any time a session is in one hand, a usable refresh token
  or the one request that has spent it and will sign its heir. `LedgerRefinement`:
  every behaviour of `AuthTokens` is one of `TokenLedger`; most steps stutter, the
  INSERT is `Spend`, the signing `SignIn` or `Exchange`, the clock `Die`.
* **SyncJobsProofs.** `TypeCorrect`, `LogsBelong` (the cascade marks the logs of
  running syncs deleted, and no later write brings one back), `LogsAreCompleted`
  (under all faults: only the step of a crash or of a database error ends a run whose
  log is open), `EnabledIntegrationsHaveJobs` (one administrator, any number of workers,
  a startup that succeeds). The last names its conditions as hypotheses: without them the
  code does not do it.
* **SyncEngineProofs.** `TypeCorrect`; `AlertsAreUpserted` and `AuditIsComplete`, as
  long as nobody posts alerts of the same type by hand: a run looks for an open alert
  only after it has flushed its change of the device, so it holds the row lock, and
  the invariant ties each session that found none to that lock.
  `OverwritesAreAlerted`, as long as nobody acknowledges or deletes an alert in
  between: a change that is flushed is committed with an open alert, or after it found
  one. `NoDuplicateDevice`, for overlapping runs with errors and crashes, as long as no
  two of them are about to insert the same new machine at once (`ApartInserts`): what a
  session has not committed is a version of the same machine's device, so serial numbers
  stay unique in the table and in the eyes of each run, and a run that is about to insert
  a machine knows that it has no device (`TidyInv`). The theorem says that this race is
  the only way to a duplicate. `RunMirrorsReport` and `MirroredStays`, as long as no two
  runs are in flight at once (`Alone`): what a run has dealt with mirrors its report
  (`MirrorInv`); a run without errors has nothing uncommitted but the device of the node at hand
  (`CleanInv`), so no commit takes back what the report repeats. The conditions are
  those of section 6: overlapping first syncs do create two devices of a machine.
* **TopologyCacheProofs.** `TypeCorrect`, `LockIsNeverLeft`, `QuietMarksAreSeen`,
  `AnswersAreMonotone`. The invariant: a queue holds running path requests of its
  worker, each once, and the one that waits for a query is its head; versions served
  and versions marked outside a rebuild are not ahead of a clean cache nor of the
  rows a rebuild holds. `PathsReal`: a clean graph is that of the version it was built
  from, and among the chains of finitely many devices there is a shortest one, if any.
  `ServesPaths`: every step is one of `PathService` or none. Rebuilds stutter; an answer
  is new enough because of the invariant on versions and right because of `PathsReal`.
  Through it, what the service guarantees holds of the cache: `PathAnswersAreRight` and
  `DeletedLinksAreGone` (an update that is overtaken by a delete fails).
* **SessionClientProofs.** `TypeCorrect`, `WaitersServed`, `LogoutIsKept`,
  `DocumentsDoNotRace`, for any number of tabs, calls and tokens. `Shape`: a refresh
  under way that still has its document belongs to the waiting call that started it,
  and a document has at most one. `Silent`: a logged-out document has no token and
  runs no call that could bring one. `Race`: the token in an answer under way was
  never sent to a refresh and is in no other answer (`Fresh`), so that a document in
  whose jar a spent token lies is still waiting for the exchange that spent it
  (`JarSpent`), and joins it instead of starting one. `RetriesAreFresh`: the access
  token that an answer brings is in no tab and no request yet (`Pairs`).
  `LogoutEndsIt`: each login has at most one active refresh token, live or being
  exchanged (`Sessions`). The composition with the backend goes through the ledger:
  `ServesTheLedger` (every step of this module is one of `TokenLedger` or none),
  `OneHeirEach` (what the ledger guarantees of exchanges) and from them
  `BrowserHasOneHeir`.
* **RackEditorProofs**, for any rack, any devices and any number of editors of the four
  kinds. `WritesShow`: an applied write that its editor does not show has its request
  still, or a fetch to come (`Lagging`). `DialogsMakeOne`: of the requests of one
  dialog one at most is pending, and none is once a device was made (`Numbered`).
  `ConflictsAreDrawn` and `RedRefused`: a grabbed tile that nothing has overtaken has
  the rack as it is under it (`Grabbed`), and the interval tests of drawing, painting
  and dropping mean the same. `CheckedFits`: every change of the rack makes the
  decisions under way unchecked, so those that are still checked were taken on the
  rack as it is (`Decided`); a drop that collides with no tile, and a place that
  `nextFreeSlot` found, fit.
* **EntityPagesProofs**, for each of the pages, any number of rows and changes and any
  page size. `TypesHold`; `ListsCatchUp`: a list page that lacks an applied change waits
  for its answer, or is fetched before it counts as fresh (`Lagging`; the exception
  `Overlooked` is in section 6); `SavesWhatWasSeen`: fields of a dialog that were not
  typed are as they were loaded, or the default in the place of a missing value, and so
  is a change from them when it is sent (`Edits`, `Sent`); `OneSave`: two changes of a
  kind, or of one shared dialog, are never under way together, since the button that
  would send the second is disabled in every dialog of the kind.
* **DeviceFormProofs**, for any devices, types, sections and stock. `TypesHold`;
  `ValuesAreOwn`: every value on the server, in the caches, in the form and in a change
  under way is nobody's or that of its device; `SavesAsClicked`: a change carries what
  the form was at the click, for the device the dialog was opened for or the one that
  the chain has created (`WriteOk`); `EditsKeepUntyped` and `KeepsUnseen`: the open
  form is what the list and the cached detail tell of its device but for defaults in
  the place of nulls and what was typed or blanked by a switch of the type
  (`Untouched`). This survives a newer detail
  only because a device never loses an extension table: the effect fills the sections
  of the tables that the detail has, and no others.

Model-checked only: liveness (`RunEnds`, `KeepsPolling`, `SyncConverges`), which is
out of the prover's reach. Of `SyncConverges` the safety half is proved: a machine
that is mirrored stays so (`MirroredStays`); that it gets there takes fairness. `CommunityKept` does not hold (section 6).

## 6. Disagreements

Where the code and its documents disagree. Shown by a run:

* `pages/Devices.tsx:476` sends a blank SNMP community as null, and the form is
  always blank, because the server never returns it (`schemas/device.py:157`) although
  the frontend's type says so (`types/index.ts:201`): any edit of a switch erases it
  (`device_community`).

The modules also define these properties, marked there as not holding; each can be
checked in the instance named:

* `auth.py:287` "Clear the httpOnly cookie regardless": a logout whose denylist insert
  meets an existing row (a concurrent logout or rotation) is a 500 and keeps the
  cookie (`LogoutClearsCookie`, `MCAuth.cfg`).
* `integrations.py:8` "also unschedules APScheduler job": the DELETE removes the job of
  the worker that answers it, the other worker keeps its own; and a PUT that is overtaken
  by the DELETE puts the job back. It fires until the worker restarts, and its runs end
  at the first look at the integrations table (`DeletedHasNoJob`, `MCSyncJobs.cfg`).
* `scheduler.py:93` "never overlap": two workers each have a scheduler, so two
  scheduled runs of one integration overlap (`ScheduledNeverOverlap`,
  `MCSyncJobs.cfg`).
* `topology.py:41` "must be rebuilt on the next request": a mark that comes while a
  rebuild awaits its query is overwritten by `_dirty = False`, and the old graph
  serves until the next link write (`MarkForcesRebuild`, `MCTopology.cfg`).
* `store/authStore.ts:7` "If the page is reloaded the app will silently call
  /auth/refresh": a reloaded tab has no token, the guard shows the login page, and
  nothing calls refresh (`ReloadKeepsSession`, `MCSession.cfg`).
* `sync_engine.py:7` "set status=inactive when missing from source": the select for
  missing devices spans all xClarity integrations, so two of them deactivate each
  other's devices for ever (`SyncConverges`, `MCEngineLive.cfg` with two sources).

Met while modelling, within a module's reach and excluded from a passing run by
the constant, the exception or the history variable named:

* two overlapping PUTs of one integration can leave it enabled without a job
  (`SyncJobs`, two requests);
* after a database error inside a sync the log stays open (`SyncJobs`, fault
  "database"), against `sync_engine.py:9`: `LogOfEveryRun` names the error as one of the
  two steps that may do this;
* overlapping first syncs of a new machine create two devices (`SyncEngine`, two
  runs; the hypothesis of `NoDuplicateDevice`), against `sync_engine.py:305`; later lookups of it raise;
* POST /alerts racing with a run gives a device two open alerts (`Env` "post"),
  against `sync_engine.py:209`, and the error this causes in the next run loses an
  audit entry; an acknowledgement between the engine's query and its commit hides
  an overwrite (`Env` "acknowledge"), against `sync_engine.py:182`;
* a device whose report puts it in maintenance is no longer `active` and is never
  deactivated when the machine goes (`sync_engine.py:488`);
* a password change revokes no token, although `models/token_revocation.py:3` lists
  it; the purge may drop a row within the second in which its token still decodes
  when the clock is finer than a second (`cleanup_jobs.py:41`; `TicksPerSecond` 2);
* a fetch of a list page that is no longer shown, or that is the first one of its page,
  is not cancelled when a change is answered and lands as fresh without the change
  (`EntityPages`, `Overlooked`);
* an edit writes more than was typed: a device type without colour or icon gets
  `#6b7280` and `generic` with any edit (`Settings.tsx:56`), a device without height or
  face becomes 1 unit high and faces the front, and flags that were never set become
  false (`Devices.tsx:327`, `376`): `SavedAsSeen` and `EditKeepsUntyped` allow these
  defaults, and no others;
* a save that is refused with a list of messages unmounts the page with what was typed
  (`EntityPages`, `Rendered`), so no property says that a failure keeps the form;
* an extension saved from `Devices.tsx` writes every column: drives and RAM slots,
  which no form has, are erased; saving before the detail has arrived erases the
  extension; a detail that was cached before the save is shown, and saved, again for
  30 seconds; a retry after a partial failure creates a second device (`DeviceForm`);
* a whole form is sent with every update, so a field that somebody else changed since
  the row was loaded is put back (`EntityPages`, all pages);
* a user whose password was reset keeps the "Force PW Change" mark of before the reset
  in the list, since the reset invalidates nothing; whoever deletes the last row of the
  last list page is left on a page past the end, without a pager (`EntityPages`).

## 7. Not modelled, and why

* **Users and bootstrap**: the first administrator is inserted in one commit and
  `must_change_password` set in a second (`main.py:46`): a crash between them leaves an
  administrator with the default password. User names, serial numbers and blade slots
  are looked up in one step and inserted in another; the unique constraint, where there
  is one, turns the race into a 500. One step of two requests each; only `SetActive` is
  in a module.
* **Audit entries of the endpoints**: a commit of their own after the change
  (`devices.py:188`), which a failure in between loses. The engine's entries, in the
  transaction of the change, are in `SyncEngine`.
* **Inventory CRUD beyond what the pages show**: cascades of a deletion (a room takes
  its corridors and racks along), power readings, LAG members, VLAN ranges.
* **Virtualization sync, SNMP and SSH collection**: mostly parsing of vendor output; in
  `SyncJobs` they are an outcome, and the rules for missing rows are those of
  `SyncEngine`.
* **IP scan**: scan jobs in the memory of one worker, polled at any of them.
* **Read-only parts**: views, search, dashboard, listing, export; pages that only show
  (tree, maps, diagrams, dashboard, audit log).
* **Pure functions**: password hashing, encryption of secrets, formatting, validation
  messages; roles. Schemas appear as the sets of values they allow, migrations, seed
  data, compose files, nginx and backup do not appear.
* **Mutations paused offline**: TanStack Query resumes them when the connection is back,
  with the row that the mutation was given; the pages' models send at once or fail.
