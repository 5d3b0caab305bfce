----------------------------- MODULE EntityPages -----------------------------
(***************************************************************************)
(* The frontend's pages of one kind of row each (data centers, rooms, ...) *)
(* with their query and mutation hooks, one of them open in a browser: a   *)
(* paged, cached list, a dialog that creates and edits rows from a form,   *)
(* and a confirmed deletion.  The pages are variations of one machine; the *)
(* tables below say for every page how its hooks, its handlers and its     *)
(* view differ.                                                            *)
(***************************************************************************)
EXTENDS Naturals, FiniteSets, FiniteSetsExt

CONSTANTS Pages,      \* the pages of an instance
          Row,        \* bound: rows that may ever exist, 1..n in list order
          First,      \* those that exist at the start
          PageSize,   \* rows of one list page of a paged list
          MaxWork,    \* bound: changes sent
          MaxMishap   \* bound: failures and changes made by others

None == 0

ASSUME PagesAssumption ==
  /\ Row \subseteq Nat \ {None} /\ Row # {} /\ First \subseteq Row /\ IsFiniteSet(Row)
  /\ PageSize \in [Pages -> Nat \ {0}] /\ MaxWork \in Nat /\ MaxMishap \in Nat

VARIABLES
  page,      \* the open page: its differences (see Config)
  rows,      \* the server's rows
  query,     \* the cached list pages and their fetches
  no,        \* the list page shown
  dialog,    \* the save dialog, its form and the row being edited
  draft,     \* the form a create dialog was left with
  error,     \* what the dialog has to say
  asking,    \* deleteTarget: the row the confirm dialog names
  writes,    \* changes under way
  crashed,   \* React has unmounted the page
  work, mishaps,
  lag        \* history: <<n, id>>, applied changes that cached page n lacks

vars == <<page, rows, query, no, dialog, draft, error, asking, writes, crashed, work, mishaps, lag>>
form == <<dialog, draft, error>>

-----------------------------------------------------------------------------
(* The hooks: the verb that an update is sent with, and the changes whose   *)
(* success invalidates every list of the kind.                              *)

Crud == {"create", "update", "delete"}

DataCentersHooks == [verb |-> "PUT", fresh |-> Crud]
RoomsHooks == [verb |-> "PUT", fresh |-> Crud]
CorridorsHooks == [verb |-> "PUT", fresh |-> Crud]
RacksHooks == [verb |-> "PUT", fresh |-> Crud]
VLANsHooks == [verb |-> "PATCH", fresh |-> Crud]
FabricsHooks == [verb |-> "PATCH", fresh |-> Crud]
LicensesHooks == [verb |-> "PATCH", fresh |-> Crud]
SubnetsHooks == [verb |-> "PATCH", fresh |-> Crud]
AddressesHooks == [verb |-> "PATCH", fresh |-> Crud]
LinksHooks == [verb |-> "PATCH", fresh |-> Crud]
LAGsHooks == [verb |-> "none", fresh |-> {"create", "delete"}]
InterfacesHooks == [verb |-> "PATCH", fresh |-> Crud]
IntegrationsHooks == [verb |-> "PATCH", fresh |-> Crud]
TypesHooks == [verb |-> "PUT", fresh |-> Crud]
ClustersHooks == [verb |-> "PATCH", fresh |-> Crud]
HostsHooks == [verb |-> "PATCH", fresh |-> Crud]
VMsHooks == [verb |-> "PATCH", fresh |-> Crud]

\* A password reset invalidates nothing.
UsersHooks == [verb |-> "PATCH", fresh |-> {"create", "update"}]
AlertsHooks == [verb |-> "none", fresh |-> {"ack"}]

Hooks(p) ==
  CASE p = "datacenters" -> DataCentersHooks [] p = "rooms" -> RoomsHooks
    [] p = "corridors" -> CorridorsHooks [] p = "racks" -> RacksHooks
    [] p = "vlans" -> VLANsHooks [] p = "fabrics" -> FabricsHooks
    [] p = "licenses" -> LicensesHooks [] p = "subnets" -> SubnetsHooks
    [] p = "addresses" -> AddressesHooks [] p = "links" -> LinksHooks
    [] p = "lags" -> LAGsHooks [] p = "interfaces" -> InterfacesHooks
    [] p = "integrations" -> IntegrationsHooks [] p = "types" -> TypesHooks
    [] p = "clusters" -> ClustersHooks [] p = "hosts" -> HostsHooks [] p = "vms" -> VMsHooks
    [] p = "users" -> UsersHooks [] p = "alerts" -> AlertsHooks

-----------------------------------------------------------------------------
(* The handlers:                                                            *)
(*   modals   "shared": one dialog creates and edits; "apart": one for each *)
(*   form     the create form is "fresh" when opened, "kept" until it was   *)
(*            saved, or "stays" as it is                                    *)
(*   parents  size asked of the list a required parent is chosen from, or 0 *)
(*   shows    the saves whose failure is caught and shown                   *)
(*   clears   those whose dialog is opened with setError("")                *)
(*   joint    the error belongs to other dialogs of the page as well        *)
(*   fills    an optional field that has no value is shown, and so sent,    *)
(*            with a default                                                *)
(*   ends     a deletion closes the confirm dialog however it ends          *)

Shared == [modals |-> "shared", form |-> "fresh", parents |-> 0,
           shows |-> {"create", "update"}, clears |-> {"create", "update"},
           joint |-> FALSE, fills |-> FALSE, ends |-> FALSE]
CreateOnly == [Shared EXCEPT !.modals = "apart", !.shows = {"create"}, !.clears = {"create"}]

DataCentersHandlers == Shared
RoomsHandlers == [Shared EXCEPT !.parents = 200]
CorridorsHandlers == [Shared EXCEPT !.parents = 200]
RacksHandlers == [Shared EXCEPT !.parents = 200]
VLANsHandlers == Shared
FabricsHandlers == Shared
LicensesHandlers == Shared
SubnetsHandlers == Shared
IntegrationsHandlers == Shared

\* openEdit: color ?? "#6b7280", icon_key ?? "generic"; a finally in handleDelete.
TypesHandlers == [Shared EXCEPT !.fills = TRUE, !.ends = TRUE]

\* The pencil of a cluster leaves the error that a dialog of the page, for a
\* cluster, a host or a virtual machine, ended with.
ClustersHandlers == [Shared EXCEPT !.clears = {"create"}, !.joint = TRUE]
HostsHandlers == CreateOnly
VMsHandlers == [CreateOnly EXCEPT !.form = "stays"]

\* Both need a device, or interfaces, from lists of 500.
LinksHandlers == [CreateOnly EXCEPT !.form = "kept", !.parents = 500]
LAGsHandlers == [CreateOnly EXCEPT !.form = "kept", !.parents = 500]

\* Nothing is caught when an address or an interface is added, or when a user
\* is edited.
AddressesHandlers == [CreateOnly EXCEPT !.form = "kept", !.shows = {}]
InterfacesHandlers == [CreateOnly EXCEPT !.form = "kept", !.shows = {}]
UsersHandlers == [CreateOnly EXCEPT !.form = "kept", !.clears = {}]
AlertsHandlers == CreateOnly

Handlers(p) ==
  CASE p = "datacenters" -> DataCentersHandlers [] p = "rooms" -> RoomsHandlers
    [] p = "corridors" -> CorridorsHandlers [] p = "racks" -> RacksHandlers
    [] p = "vlans" -> VLANsHandlers [] p = "fabrics" -> FabricsHandlers
    [] p = "licenses" -> LicensesHandlers [] p = "subnets" -> SubnetsHandlers
    [] p = "addresses" -> AddressesHandlers [] p = "links" -> LinksHandlers
    [] p = "lags" -> LAGsHandlers [] p = "interfaces" -> InterfacesHandlers
    [] p = "integrations" -> IntegrationsHandlers [] p = "types" -> TypesHandlers
    [] p = "clusters" -> ClustersHandlers [] p = "hosts" -> HostsHandlers [] p = "vms" -> VMsHandlers
    [] p = "users" -> UsersHandlers [] p = "alerts" -> AlertsHandlers

-----------------------------------------------------------------------------
(* The views: the size of the list asked for and whether it is paged, the   *)
(* dialogs a row or the page can open, how a row is deleted, and whether a  *)
(* row has an Acknowledge button.  "url": the page's address may name the   *)
(* parent of what is created.                                               *)

Plain == [asks |-> 50, paged |-> TRUE, opens |-> {"create", "edit"}, delete |-> "confirm",
          ack |-> FALSE, url |-> FALSE]

DataCentersView == Plain
RoomsView == [Plain EXCEPT !.url = TRUE]
CorridorsView == [Plain EXCEPT !.url = TRUE]
RacksView == [Plain EXCEPT !.url = TRUE]
VLANsView == [Plain EXCEPT !.asks = 100]
FabricsView == Plain
LicensesView == Plain
SubnetsView == Plain

\* The rows of these two lists never arrive (see MaxListSize), so the delete
\* buttons in them, which ask nothing, are out of reach.
AddressesView == [Plain EXCEPT !.asks = 200, !.paged = FALSE, !.opens = {"create"}, !.delete = "none"]
InterfacesView == [Plain EXCEPT !.asks = 200, !.paged = FALSE, !.opens = {"create"}, !.delete = "none"]

LinksView == [Plain EXCEPT !.opens = {"create"}]
LAGsView == [Plain EXCEPT !.asks = 100, !.paged = FALSE, !.opens = {"create"}]
IntegrationsView == Plain
ClustersView == [Plain EXCEPT !.asks = 100, !.paged = FALSE]
HostsView == [Plain EXCEPT !.asks = 200, !.paged = FALSE, !.opens = {"create"}]
VMsView == [Plain EXCEPT !.asks = 200, !.paged = FALSE, !.opens = {"create"}]

\* The whole list of device types; the one at the end may be built in.
TypesView == [Plain EXCEPT !.asks = 0, !.paged = FALSE]
UsersView == [Plain EXCEPT !.opens = {"create", "edit", "reset"}, !.delete = "none"]
AlertsView == [Plain EXCEPT !.opens = {}, !.delete = "none", !.ack = TRUE]

View(p) ==
  CASE p = "datacenters" -> DataCentersView [] p = "rooms" -> RoomsView
    [] p = "corridors" -> CorridorsView [] p = "racks" -> RacksView
    [] p = "vlans" -> VLANsView [] p = "fabrics" -> FabricsView
    [] p = "licenses" -> LicensesView [] p = "subnets" -> SubnetsView
    [] p = "addresses" -> AddressesView [] p = "links" -> LinksView
    [] p = "lags" -> LAGsView [] p = "interfaces" -> InterfacesView
    [] p = "integrations" -> IntegrationsView [] p = "types" -> TypesView
    [] p = "clusters" -> ClustersView [] p = "hosts" -> HostsView [] p = "vms" -> VMsView
    [] p = "users" -> UsersView [] p = "alerts" -> AlertsView

-----------------------------------------------------------------------------
(* The server's side *)

\* A list of more than 100 is refused (422).
MaxListSize == 100

\* Only users are updated with PATCH; elsewhere it is answered with 405.
UpdateVerb(p) == IF p = "users" THEN "PATCH" ELSE "PUT"

\* The rows with something below them that keeps them from being deleted.
Restricted == {"corridors", "types", "interfaces"}

Config(p, named, held) ==
  [modals |-> Handlers(p).modals, form |-> Handlers(p).form, shows |-> Handlers(p).shows,
   clears |-> Handlers(p).clears, joint |-> Handlers(p).joint, fills |-> Handlers(p).fills,
   ends |-> Handlers(p).ends, fresh |-> Hooks(p).fresh,
   opens |-> View(p).opens, delete |-> View(p).delete, ack |-> View(p).ack,
   size |-> IF View(p).paged THEN PageSize[p] ELSE Cardinality(Row),
   listed |-> View(p).asks <= MaxListSize,
   parent |-> Handlers(p).parents <= MaxListSize \/ named,
   updates |-> Hooks(p).verb = UpdateVerb(p),
   held |-> held]

Configs == {Config(p, named, held) : p \in Pages, named \in BOOLEAN, held \in {{}, {Min(First)}}}
ConfigOf(p) == {Config(p, named, held) : named \in {b \in BOOLEAN : b => View(p).url},
                                         held \in {{}, IF p \in Restricted THEN {Min(First)} ELSE {}}}

Field == {"x", "y"}   \* x: the required fields of a form, y: the optional ones
Value == {"blank", "default", "old", "mine", "theirs"}
Content == [Field -> Value]
Filled(v) == [f \in Field |-> v]
Empty == Filled("blank")
Absent == Filled("absent")
Gone == Filled("gone")

There == {r \in Row : rows[r] \notin {Absent, Gone}}
Unborn == {r \in Row : rows[r] = Absent}

\* Page n of the list, in the server's order.
OnPage(n) == {r \in There : LET k == Cardinality({s \in There : s < r})
                            IN k >= (n - 1) * page.size /\ k < n * page.size}
NoList == [rows |-> [r \in {} |-> Empty], total |-> 0]
Served(n) == [rows |-> [r \in OnPage(n) |-> rows[r]], total |-> Cardinality(There)]

-----------------------------------------------------------------------------
(* The list *)

PageNo == 1..(Cardinality(Row) + page.size - 1) \div page.size
Unasked == [st |-> "idle", has |-> FALSE, stale |-> FALSE, data |-> NoList, snap |-> NoList, covers |-> {}]

Work == work < MaxWork /\ work' = work + 1
Mishap == mishaps < MaxMishap /\ mishaps' = mishaps + 1

Fetching(q) == [q EXCEPT !.st = "sent", !.snap = NoList, !.covers = {}]

Listed == IF query[no].has THEN DOMAIN query[no].data.rows ELSE {}
TotalPages == LET t == query[no].data.total IN IF t = 0 THEN 1 ELSE (t + page.size - 1) \div page.size

\* Modals cover the page.
Uncovered == ~crashed /\ dialog.open = "none" /\ asking = None

\* Bound: no dialog is opened after the last answer to the last change.
Free == Uncovered /\ (work < MaxWork \/ writes # {})

\* The arrows of the pager; without more than one page there are none.
GoPage(n) ==
  /\ Uncovered /\ TotalPages > 1
  /\ n \in PageNo /\ \/ n = no - 1
                     \/ n = no + 1 /\ n <= TotalPages
  /\ no' = n
  /\ query' = IF query[n].st \in {"sent", "served"} \/ (query[n].has /\ ~query[n].stale) THEN query
              ELSE [query EXCEPT ![n] = Fetching(@)]
  /\ UNCHANGED <<page, rows, form, asking, writes, crashed, work, mishaps, lag>>

FetchServed(n) ==
  /\ ~crashed /\ query[n].st = "sent" /\ page.listed
  /\ query' = [query EXCEPT ![n].st = "served", ![n].snap = Served(n), ![n].covers = lag]
  /\ UNCHANGED <<page, rows, no, form, asking, writes, crashed, work, mishaps, lag>>

FetchLands(n) ==
  /\ ~crashed /\ query[n].st = "served"
  /\ query' = [query EXCEPT ![n] = [Unasked EXCEPT !.has = TRUE, !.data = query[n].snap]]
  /\ lag' = lag \ {l \in query[n].covers : l[1] = n}
  /\ UNCHANGED <<page, rows, no, form, asking, writes, crashed, work, mishaps>>

\* Always, when the list is too long for the server.
FetchFails(n) ==
  /\ ~crashed /\ query[n].st = "sent"
  /\ IF page.listed THEN Mishap ELSE UNCHANGED mishaps
  /\ query' = [query EXCEPT ![n].st = "failed"]
  /\ UNCHANGED <<page, rows, no, form, asking, writes, crashed, work, lag>>

\* The window gets the focus back and the data are stale.
Refocus ==
  /\ ~crashed /\ page.listed
  /\ query[no].st = "failed" \/ (query[no].st = "idle" /\ query[no].data # Served(no))
  /\ query' = [query EXCEPT ![no] = Fetching(@)]
  /\ UNCHANGED <<page, rows, no, form, asking, writes, crashed, work, mishaps, lag>>

\* Mutant: the other cached pages stay fresh.
InvalidateShown == query' = [query EXCEPT ![no] = Fetching(@)]

\* Query.fetch: a fetch under way is cancelled only if data are there already;
\* a first fetch is joined.
Restarted(n) == n = no /\ ~crashed /\ (query[n].has \/ query[n].st \notin {"sent", "served"})

\* invalidateQueries: every list page is stale, and the one that is shown is
\* fetched again.
Invalidate ==
  query' = [n \in PageNo |-> IF Restarted(n) THEN Fetching([query[n] EXCEPT !.stale = TRUE])
                             ELSE [query[n] EXCEPT !.stale = query[n].st # "idle" \/ query[n].has]]

\* A fetch that is not restarted goes on, and what lands counts as fresh: it may
\* lack the change.  So a page that is no longer shown, or was never loaded,
\* goes without it.
Overlooked(w) == {<<n, w.id>> : n \in {m \in PageNo : query[m].st = "served" /\ ~Restarted(m)}}

-----------------------------------------------------------------------------
(* The save dialog *)

NoDialog == [open |-> "none", row |-> None, form |-> Empty,
             asked |-> None, typed |-> {}, base |-> Empty]   \* history: since it was opened

Pending(op) == \E w \in writes : w.op = op

\* The form of a row, or of the empty row: optional fields without a value may
\* get a default.
FormOf(c) == IF page.fills /\ c["y"] = "blank" THEN [c EXCEPT !["y"] = "default"] ELSE c

\* Whether an error is on the screen with the dialog d.
OnScreen(d) == CASE d.open = "none" -> FALSE
                 [] page.modals = "shared" -> TRUE
                 [] OTHER -> d.open \in page.shows

\* What is rendered of a 422's list of messages are its objects: React throws
\* and unmounts the page, its dialogs and what was typed into them.
Rendered(d, dr, ask, e) ==
  LET throws == e = "list" /\ OnScreen(d) IN
  /\ crashed' = (crashed \/ throws) /\ error' = e
  /\ IF throws THEN dialog' = NoDialog /\ draft' = Empty /\ asking' = None
     ELSE dialog' = d /\ draft' = dr /\ asking' = ask

\* The dialog is opened, with the error that is left or without one.
Opened(d, op) == Rendered(d, draft, asking, IF op \in page.clears THEN "none" ELSE error)

CreateForm == IF page.form = "fresh" THEN FormOf(Empty) ELSE draft

\* Mutant: the row edited last is still being edited.
OpenCreateKeepsEditing ==
  /\ Free /\ "create" \in page.opens
  /\ Opened([NoDialog EXCEPT !.open = "create", !.row = dialog.row, !.form = CreateForm], "create")
  /\ UNCHANGED <<page, rows, query, no, writes, work, mishaps, lag>>

\* openCreate.
OpenCreate ==
  /\ Free /\ "create" \in page.opens
  /\ Opened([NoDialog EXCEPT !.open = "create",
                             !.row = IF page.modals = "apart" THEN dialog.row ELSE None,
                             !.form = CreateForm], "create")
  /\ UNCHANGED <<page, rows, query, no, writes, work, mishaps, lag>>

\* openEdit: the form shows the cached row.
OpenEdit(r) ==
  /\ Free /\ "edit" \in page.opens /\ r \in Listed
  /\ LET cached == query[no].data.rows[r]
     IN Opened([NoDialog EXCEPT !.open = "edit", !.row = r, !.asked = r,
                                !.form = FormOf(cached), !.base = cached], "update")
  /\ UNCHANGED <<page, rows, query, no, writes, work, mishaps, lag>>

\* openReset: a form for a new password.
OpenReset(r) ==
  /\ Free /\ "reset" \in page.opens /\ r \in Listed
  /\ dialog' = [NoDialog EXCEPT !.open = "reset", !.row = r, !.asked = r]
  /\ UNCHANGED <<page, rows, query, no, draft, error, asking, writes, crashed, work, mishaps, lag>>

\* A value is typed, or an optional field cleared.  Bounds: nothing is typed that
\* cannot be sent, the required fields come first, and fields are cleared where
\* an empty one is not like any other.
Type(f, v) ==
  /\ work < MaxWork /\ (f = "y" => dialog.form["x"] # "blank")
  /\ v = "mine" \/ (v = "blank" /\ f = "y" /\ page.fills)
  /\ ~crashed /\ dialog.open # "none" /\ dialog.form[f] # v
  /\ dialog' = [dialog EXCEPT !.form[f] = v, !.typed = @ \cup {f}]
  /\ UNCHANGED <<page, rows, query, no, draft, error, asking, writes, crashed, work, mishaps, lag>>

\* What is in the form of a closed create dialog stays, where the next one
\* shows it.
Closed(d) == [NoDialog EXCEPT !.row = IF page.modals = "shared" THEN d.row ELSE None]
\* Nobody reads an error that the next dialog starts by clearing.
Noted(e, d) == IF d.open = "none" /\ page.shows \subseteq page.clears THEN "none" ELSE e
Left(d) == IF d.open = "create" /\ page.form # "fresh" THEN d.form ELSE draft

\* Cancel, the cross and the overlay are never disabled.
Close ==
  /\ ~crashed /\ dialog.open # "none"
  /\ dialog' = Closed(dialog) /\ draft' = Left(dialog) /\ error' = Noted(error, dialog')
  /\ UNCHANGED <<page, rows, query, no, asking, writes, crashed, work, mishaps, lag>>

\* What the dialog saves with: the row it edits decides, where it is shared.
SaveOp == CASE dialog.open = "reset" -> "reset"
            [] dialog.open = "create" /\ (page.modals = "apart" \/ dialog.row = None) -> "create"
            [] OTHER -> "update"

\* Mutant: only the mutation that the dialog would use is looked at.
SaveEnabledByKind ==
  /\ ~crashed /\ dialog.open # "none" /\ ~Pending(SaveOp)
  /\ SaveOp = "reset" => dialog.form["x"] # "blank"

\* isPending belongs to the page's mutations, not to the dialog.
SaveEnabled ==
  /\ ~crashed /\ dialog.open # "none"
  /\ ~Pending(SaveOp) /\ (page.modals = "shared" => ~Pending("create") /\ ~Pending("update"))
  /\ SaveOp = "reset" => dialog.form["x"] # "blank"

Missing == dialog.form["x"] = "blank" \/ (SaveOp = "create" /\ ~page.parent)

\* handleSave: a form that lacks something is refused here.
SaveRefused ==
  /\ SaveEnabled /\ SaveOp # "reset" /\ Missing /\ error # "text" /\ SaveOp \in page.shows
  /\ error' = "text"
  /\ UNCHANGED <<page, rows, query, no, dialog, draft, asking, writes, crashed, work, mishaps, lag>>

\* handleSave: the whole form is sent.
Save ==
  /\ SaveEnabled
  /\ SaveOp \in page.shows => ~Missing
  /\ SaveOp = "create" => Cardinality(Unborn) > Cardinality({w \in writes : w.op = "create"})
  /\ Work
  /\ error' = IF SaveOp \in page.shows THEN "none" ELSE error
  /\ writes' = writes \cup {[id |-> work', op |-> SaveOp, st |-> "sent", row |-> dialog.row,
                             body |-> dialog.form, asked |-> dialog.asked,
                             typed |-> dialog.typed, base |-> dialog.base]}
  /\ UNCHANGED <<page, rows, query, no, dialog, draft, asking, crashed, mishaps, lag>>

-----------------------------------------------------------------------------
(* Deleting and acknowledging *)

Request(op, r) ==
  /\ Work
  /\ writes' = writes \cup {[id |-> work', op |-> op, st |-> "sent", row |-> r, body |-> Empty,
                             asked |-> r, typed |-> {}, base |-> Empty]}

AskDelete(r) ==
  /\ Free /\ page.delete = "confirm" /\ r \in Listed
  /\ asking' = r
  /\ UNCHANGED <<page, rows, query, no, form, writes, crashed, work, mishaps, lag>>

CancelDelete ==
  /\ ~crashed /\ asking # None
  /\ asking' = None
  /\ UNCHANGED <<page, rows, query, no, form, writes, crashed, work, mishaps, lag>>

\* The confirm dialog closes with the click, before the answer.
ConfirmDelete ==
  /\ ~crashed /\ asking # None
  /\ Request("delete", asking)
  /\ asking' = None
  /\ UNCHANGED <<page, rows, query, no, form, crashed, mishaps, lag>>

Acknowledge(r) ==
  /\ Free /\ page.ack /\ r \in Listed /\ query[no].data.rows[r].x # "mine"
  /\ ~Pending("ack")
  /\ Request("ack", r)
  /\ UNCHANGED <<page, rows, query, no, form, asking, crashed, mishaps, lag>>

-----------------------------------------------------------------------------
(* The server and the answers *)

Accepted(w) ==
  CASE w.op = "create" -> TRUE
    [] w.op = "update" -> page.updates /\ w.row \in There
    [] w.op = "delete" -> w.row \in There \ page.held
    [] OTHER -> w.row \in There

Written(w) ==
  CASE w.op = "create" -> [rows EXCEPT ![Min(Unborn)] = w.body]
    [] w.op = "update" -> [rows EXCEPT ![w.row] = w.body]
    [] w.op = "delete" -> [rows EXCEPT ![w.row] = Gone]
    [] w.op = "ack" -> [rows EXCEPT ![w.row].x = "mine"]
    [] OTHER -> rows

\* From here on only the kind of the change matters.
Turn(w, st) ==
  writes' = (writes \ {w}) \cup {[id |-> w.id, op |-> w.op, st |-> st, row |-> None, body |-> Empty,
                                   asked |-> None, typed |-> {}, base |-> Empty]}

\* A change is applied, or refused for what it is: 404, 405 or 500.
Serve(w) ==
  /\ w.st = "sent"
  /\ IF Accepted(w)
     THEN /\ Turn(w, "done") /\ rows' = Written(w)
          /\ lag' = IF w.op \in page.fresh THEN lag \cup ({n \in PageNo : query[n].has \/ query[n].st = "served"} \X {w.id})
                    ELSE lag
     ELSE Turn(w, "text") /\ UNCHANGED <<rows, lag>>
  /\ UNCHANGED <<page, query, no, form, asking, crashed, work, mishaps>>

\* A change is refused by its rights or its content (422: the detail is a list
\* of messages), or the connection breaks, before or after it is applied.
Fail(w) ==
  /\ w.st \in {"sent", "done"} /\ Mishap
  /\ \/ Turn(w, "text")
     \/ w.st = "sent" /\ w.op \in {"create", "update"} /\ Turn(w, "list")
  /\ lag' = {l \in lag : l[2] # w.id}
  /\ UNCHANGED <<page, rows, query, no, form, asking, crashed, work>>

\* Whether the answer to w closes the dialog: any that is open, where it is
\* shared.
Closes(w) == IF page.modals = "shared" THEN w.op \in {"create", "update"}
             ELSE dialog.open = (IF w.op = "update" THEN "edit" ELSE w.op)

SavedForm(w) == IF w.op = "create" /\ page.form = "kept" THEN Empty
                ELSE IF Closes(w) THEN Left(dialog) ELSE draft

Done(w) ==
  /\ w.st = "done"
  /\ writes' = writes \ {w}
  /\ IF w.op \in page.fresh THEN Invalidate ELSE UNCHANGED query
  /\ dialog' = IF Closes(w) /\ ~crashed THEN Closed(dialog) ELSE dialog
  /\ draft' = SavedForm(w)
  /\ error' = Noted(error, dialog')
  /\ asking' = IF w.op = "delete" THEN None ELSE asking
  /\ lag' = lag \ Overlooked(w)
  /\ UNCHANGED <<page, rows, no, crashed, work, mishaps>>

\* A caught failure is shown in the dialog, the one that is open now.
Failed(w) ==
  /\ w.st \in {"text", "list"}
  /\ writes' = writes \ {w}
  /\ Rendered(dialog, draft, IF w.op = "delete" /\ page.ends THEN None ELSE asking,
              Noted(IF w.op \in page.shows THEN w.st ELSE error, dialog))
  /\ UNCHANGED <<page, rows, query, no, work, mishaps, lag>>

\* A save of another kind of row, whose dialog has the same error, has failed
\* and the dialog was closed.
FailedNextDoor ==
  /\ page.joint /\ Free /\ Mishap
  /\ error' \in {"text", "list"}
  /\ UNCHANGED <<page, rows, query, no, dialog, draft, asking, writes, crashed, work, lag>>

\* Another user changes or deletes a row.
Elsewhere(r) ==
  /\ r \in There /\ Mishap
  /\ \/ rows[r].y # "theirs" /\ rows' = [rows EXCEPT ![r].y = "theirs"]
     \/ rows' = [rows EXCEPT ![r] = Gone]
  /\ UNCHANGED <<page, query, no, form, asking, writes, crashed, work, lag>>

-----------------------------------------------------------------------------
\* A row of the start: its optional fields have no value where that matters.
Stocked == [x |-> "old", y |-> IF page.fills THEN "blank" ELSE "old"]

Init ==
  /\ \E p \in Pages : page \in ConfigOf(p)
  /\ rows = [r \in Row |-> IF r \in First THEN Stocked ELSE Absent]
  /\ query = [n \in PageNo |-> IF n = 1 THEN Fetching(Unasked) ELSE Unasked]
  /\ no = 1 /\ dialog = NoDialog /\ draft = Empty /\ error = "none" /\ asking = None
  /\ writes = {} /\ crashed = FALSE /\ work = 0 /\ mishaps = 0 /\ lag = {}

User == \/ \E n \in PageNo : GoPage(n)
        \/ OpenCreate \/ Close \/ SaveRefused \/ Save \/ CancelDelete \/ ConfirmDelete
        \/ \E f \in Field, v \in Value : Type(f, v)
        \/ \E r \in Row : \/ OpenEdit(r) \/ OpenReset(r) \/ AskDelete(r)
                          \/ Acknowledge(r)

Network == \/ \E n \in PageNo : FetchServed(n) \/ FetchLands(n) \/ FetchFails(n)
           \/ \E w \in writes : Serve(w) \/ Fail(w) \/ Done(w) \/ Failed(w)

Next == User \/ Network \/ Refocus \/ FailedNextDoor \/ \E r \in Row : Elsewhere(r)

Spec == Init /\ [][Next]_vars

-----------------------------------------------------------------------------
(* Properties *)

Op == {"create", "update", "delete", "reset", "ack"}
Id == 1..MaxWork

TypeOK ==
  /\ page \in Configs
  /\ rows \in [Row -> Content \cup {Absent, Gone}]
  /\ \A n \in PageNo : /\ query[n].st \in {"idle", "sent", "served", "failed"}
                        /\ query[n].has \in BOOLEAN /\ query[n].stale \in BOOLEAN
                        /\ DOMAIN query[n].data.rows \subseteq Row
                        /\ ~query[n].has => query[n].data = NoList
                        /\ query[n].covers \subseteq PageNo \X Id
  /\ no \in PageNo
  /\ dialog.open \in {"none"} \cup page.opens /\ dialog.row \in Row \cup {None}
  /\ dialog.form \in Content /\ dialog.typed \subseteq Field /\ draft \in Content
  /\ error \in {"none", "text", "list"} /\ asking \in Row \cup {None}
  /\ \A w \in writes : /\ w.id \in Id /\ w.op \in Op /\ w.row \in Row \cup {None}
                        /\ w.st \in {"sent", "done", "text", "list"} /\ w.body \in Content
                        /\ w.op # "create" /\ w.st = "sent" => w.row # None
  /\ crashed \in BOOLEAN /\ work \in 0..MaxWork /\ mishaps \in 0..MaxMishap
  /\ lag \subseteq PageNo \X Id

\* A list that is shown, or may be shown without being fetched, has all of the
\* browser's own changes that were answered.  (onSuccess invalidates the lists
\* by their common prefix, which also cancels the fetch of a loaded page that is
\* shown; what escapes it is named in Overlooked.)
OwnWritesShown ==
  \A l \in lag : (\A w \in writes : w.id # l[2]) =>
    LET q == query[l[1]] IN
    IF l[1] = no THEN q.st # "idle" \/ crashed ELSE ~q.has \/ q.stale \/ q.st # "idle"

\* A save changes what the user asked for and nothing else: an edit the row
\* whose pencil was clicked, and of it, if nobody else changed it since it was
\* loaded, only the fields that were typed, and those that had no value where
\* the form fills them; a new row only itself.  (editing and form across
\* openCreate, openEdit, Cancel and late answers.)
SavedAsSeen ==
  [][\A w \in writes :
       w.op \in {"create", "update"} /\ w \notin writes' /\ rows' # rows =>
         /\ \A r \in There : rows'[r] # rows[r] => r = w.asked
         /\ (w.op = "update" /\ rows[w.row] = w.base) =>
              \A f \in Field : rows'[w.row][f] # rows[w.row][f] =>
                \/ f \in w.typed
                \/ page.fills /\ rows[w.row][f] = "blank" /\ rows'[w.row][f] = "default"]_vars

\* No two saves of the same kind are under way, nor two of one shared dialog,
\* whatever dialogs are closed and opened while an answer is due: no form is sent
\* twice before it is answered, and two edits of a row cannot overtake each other.
\* (disabled={createMut.isPending || updateMut.isPending}.)
OneSaveAtATime ==
  \A u, w \in writes : u # w =>
    /\ u.op = w.op => u.op = "delete"
    /\ page.modals = "shared" => {u.op, w.op} # {"create", "update"}

=============================================================================
