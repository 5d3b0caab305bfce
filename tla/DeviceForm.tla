----------------------------- MODULE DeviceForm -----------------------------
(***************************************************************************)
(* The page of all devices (frontend/src/pages/Devices.tsx) with its hooks *)
(* and the endpoints it calls.  One dialog creates and edits devices of    *)
(* every type.  A save is a chain of requests: the device itself, a wait   *)
(* for the caches to be fetched again, then its extension tables in        *)
(* parallel; each of them may fail alone.  The form of the extensions is   *)
(* filled by an effect whenever the detail of the device arrives.          *)
(***************************************************************************)
EXTENDS Naturals, FiniteSets

CONSTANTS Device,     \* bound: devices that may ever exist, positive numbers
          Stock,      \* those that exist at the start: [devices -> [kind, tables, lacks]],
              \* lacks: the sections without a value
          Kinds,      \* the device types an instance tells apart
          Section,    \* the form sections an instance tells apart
          MaxWork,    \* bound: dialogs opened, entries made in them, changes sent
          MaxMishap   \* bound: requests that fail

None == 0
First == DOMAIN Stock

AllKinds == {"server", "blade_chassis", "blade", "switch", "router", "firewall", "load_balancer",
             "pdu", "storage", "kvm", "patch_panel", "cable_manager", "other"}

BaseSections == {"identity", "status", "rack", "power", "dates", "mgmt", "snmp", "community", "ssh", "password"}

\* The extension tables and their sections; "drives" stands for the columns
\* that no form has.
Extensions == {"server", "network", "pdu"}
SectionsOf(t) == CASE t = "server" -> {"hardware", "placement", "capacity", "drives"}
                   [] t = "network" -> {"network"} [] t = "pdu" -> {"pdu"}
ExtSections == UNION {SectionsOf(t) : t \in Extensions}

ASSUME DeviceAssumption ==
  /\ Device \subseteq Nat \ {None} /\ IsFiniteSet(Device) /\ First \subseteq Device
  /\ "server" \in Kinds /\ Kinds \subseteq AllKinds
  /\ "blade_chassis" \in Kinds => "blade" \in Kinds
  /\ Section \subseteq BaseSections \cup ExtSections
  /\ Stock \in [First -> [kind : Kinds, tables : SUBSET Extensions, lacks : SUBSET (Section \ {"status"})]]
  /\ {"status", "placement"} \subseteq Section
  /\ MaxWork \in Nat /\ MaxMishap \in Nat

VARIABLES
  devices,   \* the server's rows
  list,      \* the cached list of devices and its fetch
  detail,    \* the cached details, by device, and their fetches
  dialog,    \* the save dialog, its form and the device being edited
  blade,     \* the Add Blade dialog inside it
  asking,    \* deleteTarget
  writes,    \* changes under way
  work, mishaps

vars == <<devices, list, detail, dialog, blade, asking, writes, work, mishaps>>

-----------------------------------------------------------------------------
(* What the form of a type shows: DEVICE_FORM_CONFIG *)

Always == {"identity", "status"}
Snmp == {"snmp", "community"}
Ssh == {"ssh", "password"}
Plain == Always \cup {"rack", "power", "dates", "mgmt"} \cup Snmp \cup Ssh

Shown(k) == Section \cap
  CASE k = "server" -> (Plain \ Snmp) \cup {"hardware"}
    [] k = "blade_chassis" -> (Plain \ Snmp) \cup {"hardware", "capacity"}
    [] k = "blade" -> Always \cup {"mgmt"} \cup Ssh \cup {"hardware", "placement"}
    [] k \in {"switch", "router", "firewall", "load_balancer"} -> Plain \cup {"network"}
    [] k = "pdu" -> (Plain \ Ssh) \cup {"pdu"}
    [] k = "kvm" -> Plain \ Snmp
    [] k \in {"patch_panel", "cable_manager"} -> Always \cup {"rack"}
    [] OTHER -> Plain

\* A value says whose it is: what was stored for a device at first, or typed
\* into the dialog that was opened for it (or for none).
Blank == <<None, "blank">>
Stored(r) == <<r, "stored">>
Typed(r) == <<r, "typed">>
Off == <<None, "off">>
Default == <<None, "default">>
Value == {Blank, Off, Default} \cup ((Device \cup {None}) \X {"stored", "typed"})
Values == [Section -> Value]
Nothing == [s \in Section |-> Blank]

\* Sections whose form is never without a value: the status, a height of 1 and
\* the front face, and flags that are true or false.  What is null in the row is
\* shown, and so sent, with the default.
Defaulted == {"status", "rack", "network", "pdu"}
InForm(s, v) == IF v = Blank /\ s \in Defaulted THEN Default ELSE v
EmptyForm == [s \in Section |-> InForm(s, Blank)]

\* The kind of the devices that do not exist.
Unborn == [kind |-> "none", val |-> Nothing, tables |-> {}]
There == {r \in Device : devices[r] # Unborn}

\* What the server tells of a device: the secrets are never in a response.
Secret == {"community", "password"}
Read(r) == [devices[r] EXCEPT !.val = [s \in Section |-> IF s \in Secret THEN Blank ELSE @[s]]]

\* The list has no inactive devices.
Listing == [r \in Device |-> IF devices[r].val["status"] = Off THEN Unborn ELSE Read(r)]

-----------------------------------------------------------------------------
(* The caches *)

\* by: the changes that wait for a fetch; has: the list was loaded.
Unasked == [st |-> "idle", by |-> {}, stale |-> FALSE, data |-> Unborn, snap |-> Unborn]
NoDevices == [r \in Device |-> Unborn]
Fetch(q, ids) == [q EXCEPT !.st = "sent", !.by = ids]
Busy(q) == q.st \in {"sent", "served"}

\* Query.fetch: a fetch under way is cancelled only if data are there already;
\* a first fetch is joined.
Refetch(q, has, id) == IF Busy(q) /\ ~has THEN [q EXCEPT !.by = @ \cup {id}] ELSE Fetch(q, {id})

Work == work < MaxWork /\ work' = work + 1
Mishap == mishaps < MaxMishap /\ mishaps' = mishaps + 1

\* invalidateQueries(["devices"]) by the change with this number: what is
\* observed is fetched again, the details of other devices are stale.  The
\* change waits for the fetches that it caused or joined.
Invalidate(id) ==
  /\ list' = Refetch(list, list.has, id)
  /\ detail' = [r \in Device |-> IF r = dialog.row
                                 THEN Refetch([detail[r] EXCEPT !.stale = TRUE], detail[r].data # Unborn, id)
                                 ELSE [detail[r] EXCEPT !.stale = detail[r].data # Unborn]]

Refetched(w) == w.id \notin list.by /\ \A r \in Device : w.id \notin detail[r].by

\* The effect: the extension forms take what the detail has of each table.
Filled(val, rec) ==
  [s \in Section |-> IF \E t \in rec.tables : s \in SectionsOf(t)
                     THEN InForm(s, rec.val[s]) ELSE val[s]]

ListServed ==
  /\ list.st = "sent"
  /\ list' = [list EXCEPT !.st = "served", !.snap = Listing]
  /\ UNCHANGED <<devices, detail, dialog, blade, asking, writes, work, mishaps>>

ListLands ==
  /\ list.st = "served"
  /\ list' = [st |-> "idle", by |-> {}, has |-> TRUE, data |-> list.snap, snap |-> NoDevices]
  /\ UNCHANGED <<devices, detail, dialog, blade, asking, writes, work, mishaps>>

DetailServed(r) ==
  /\ detail[r].st = "sent"
  /\ detail' = [detail EXCEPT ![r].st = "served", ![r].snap = Read(r)]
  /\ UNCHANGED <<devices, list, dialog, blade, asking, writes, work, mishaps>>

\* Data that are equal to the cached ones keep their identity, and the effect
\* does not run.
DetailLands(r) ==
  LET rec == detail[r].snap IN
  /\ detail[r].st = "served"
  /\ detail' = [detail EXCEPT ![r] = [Unasked EXCEPT !.data = rec]]
  /\ dialog' = IF dialog.open /\ dialog.row = r /\ rec # detail[r].data
               THEN [dialog EXCEPT !.val = Filled(@, rec)] ELSE dialog
  /\ UNCHANGED <<devices, list, blade, asking, writes, work, mishaps>>

\* Data older than 30 s are fetched again when the window gets the focus.
Refocus ==
  /\ \/ /\ list.st = "idle" /\ list.data # Listing
        /\ list' = Fetch(list, {}) /\ UNCHANGED detail
     \/ \E r \in Device \cap {dialog.row} :
          /\ ~Busy(detail[r]) /\ detail[r].data # Read(r)
          /\ detail' = [detail EXCEPT ![r] = Fetch(@, {})] /\ UNCHANGED list
  /\ UNCHANGED <<devices, dialog, blade, asking, writes, work, mishaps>>

-----------------------------------------------------------------------------
(* The dialog *)

Uncovered == ~dialog.open /\ asking = None

\* Bound: no dialog is opened after the last answer to the last change.
Free == Uncovered /\ (work < MaxWork \/ writes # {})

\* typed, reset and base are history: the sections typed into since the dialog
\* was opened, whether the type was switched, and what it was opened with.
Dialog(r, kind, val, base) ==
  [open |-> TRUE, row |-> r, kind |-> kind, val |-> val, asked |-> r,
   typed |-> {}, reset |-> FALSE, base |-> base]

\* openCreate
OpenCreate ==
  /\ Free /\ Work
  /\ dialog' = Dialog(None, "server", EmptyForm, Unborn)
  /\ UNCHANGED <<devices, list, detail, blade, asking, writes, mishaps>>

\* Mutant: the extension forms keep what they had.
FormKept(r) == [s \in Section |-> IF s \in BaseSections THEN InForm(s, list.data[r].val[s]) ELSE dialog.val[s]]

\* The form of a row of the cached list, with empty extensions.
FormOf(r) == [s \in Section |-> InForm(s, IF s \in BaseSections THEN list.data[r].val[s] ELSE Blank)]

\* Mutant: the effect depends on the detail only.
PopulatedOnce(r) == IF r = dialog.row THEN FormOf(r) ELSE Filled(FormOf(r), detail[r].data)

\* The effect runs when the dialog is opened, too: the detail may be cached.
Populated(r) == Filled(FormOf(r), detail[r].data)

\* openEdit
OpenEdit(r) ==
  LET rec == list.data[r] IN
  /\ Free /\ Work /\ rec # Unborn
  /\ dialog' = Dialog(r, rec.kind, Populated(r), rec)
  /\ detail' = IF Busy(detail[r]) \/ (detail[r].data # Unborn /\ ~detail[r].stale) THEN detail
               ELSE [detail EXCEPT ![r] = Fetch(@, {})]
  /\ UNCHANGED <<devices, list, blade, asking, writes, mishaps>>

\* The chassis of a blade is chosen from a list of 200, which the server
\* refuses (422): only a blade that has one can be given another slot.
Type(s) ==
  /\ dialog.open /\ ~blade /\ s \in Shown(dialog.kind) /\ dialog.val[s] # Typed(dialog.asked)
  /\ Work
  /\ s = "placement" => dialog.val[s] # Blank
  /\ dialog' = [dialog EXCEPT !.val[s] = Typed(dialog.asked), !.typed = @ \cup {s}]
  /\ UNCHANGED <<devices, list, detail, blade, asking, writes, mishaps>>

\* The blade list under the form is shown for a chassis that exists, and
\* forgets its dialog and its request when it disappears.
BladesShown(d) == d.open /\ d.kind = "blade_chassis" /\ d.row # None
Orphaned(ws) == {IF w.op = "blade" THEN [w EXCEPT !.orphan = TRUE] ELSE w : w \in ws}

\* handleDeviceTypeChange
SwitchKind(k) ==
  /\ dialog.open /\ ~blade /\ k # dialog.kind /\ Work
  /\ dialog' = [dialog EXCEPT !.kind = k, !.reset = TRUE,
                              !.val = [s \in Section |-> IF s \in BaseSections THEN @[s] ELSE EmptyForm[s]]]
  /\ writes' = Orphaned(writes)
  /\ UNCHANGED <<devices, list, detail, blade, asking, mishaps>>

\* editing is not reset: the device's detail goes on being observed.  Of the
\* forms, openCreate and openEdit overwrite that of the device for certain.
Shut(d) == [Dialog(d.row, "server", [s \in Section |-> IF s \in BaseSections THEN Blank ELSE d.val[s]], Unborn)
              EXCEPT !.open = FALSE]

Close ==
  /\ dialog.open /\ ~blade
  /\ dialog' = Shut(dialog)
  /\ writes' = Orphaned(writes)
  /\ UNCHANGED <<devices, list, detail, blade, asking, work, mishaps>>

-----------------------------------------------------------------------------
(* Save *)

\* Mutant: the hidden sections are sent too.
ToBodyAll(kind, val) == (Section \cap BaseSections) \ (IF val["password"] = Blank THEN {"password"} ELSE {})

\* toBody: the sections of the device that are sent.  A blank community is sent
\* as null, a blank password is not.
ToBody(kind, val) ==
  {s \in Shown(kind) \cap BaseSections : s = "password" => val[s] # Blank}

\* toServerExtBody, toNetworkExtBody, toPduExtBody: the tables that are sent,
\* with every section that is shown of them.
ToExtension(kind) == {t \in Extensions : Shown(kind) \cap SectionsOf(t) # {}}

\* createMut.isPending || updateMut.isPending: the chain goes on after it.
SaveDisabled == \E w \in writes : w.op \in {"create", "update"} /\ w.st \in {"sent", "done", "waiting"}

Write(op) == [id |-> work + 1, op |-> op, row |-> dialog.row, st |-> "sent", orphan |-> FALSE,
              kind |-> dialog.kind, val |-> dialog.val, todo |-> ToExtension(dialog.kind), bad |-> FALSE,
              asked |-> dialog.asked, seen |-> dialog.val, base |-> dialog.base,
              loaded |-> IF dialog.row = None THEN Unborn ELSE detail[dialog.row].data,
              typed |-> dialog.typed, reset |-> dialog.reset]

\* handleSave.  A blade has to have its chassis and slot; what else validate
\* refuses only changes messages.
Save ==
  /\ dialog.open /\ ~blade /\ ~SaveDisabled /\ Work
  /\ "placement" \in Shown(dialog.kind) => dialog.val["placement"] # Blank
  /\ writes' = writes \cup {Write(IF dialog.row = None THEN "create" ELSE "update")}
  /\ UNCHANGED <<devices, list, detail, dialog, blade, asking, mishaps>>

Becomes(w, v) == writes' = (writes \ {w}) \cup {v}

\* update_device, and soft_delete; the rest of a row stays.
Changed(w) ==
  IF w.op = "delete" THEN [devices[w.row] EXCEPT !.val["status"] = Off]
  ELSE [devices[w.row] EXCEPT !.kind = w.kind,
                              !.val = [s \in Section |-> IF s \in ToBody(w.kind, w.val) THEN w.val[s] ELSE @[s]]]

\* create_device; a blade is created with its name and type.
Created(w) ==
  [Unborn EXCEPT !.kind = w.kind,
                 !.val = [s \in Section |-> IF s \in ToBody(w.kind, w.val) THEN w.val[s] ELSE Blank]]

Serve(w) ==
  /\ w.st = "sent"
  /\ IF w.op \in {"create", "blade"}
     THEN \E r \in Device : /\ r \notin There /\ \A q \in Device \ There : r <= q
                            /\ devices' = [devices EXCEPT ![r] = Created(w)]
                            /\ Becomes(w, [w EXCEPT !.st = "done", !.row = r])
     ELSE /\ devices' = [devices EXCEPT ![w.row] = Changed(w)]
          /\ Becomes(w, [w EXCEPT !.st = "done"])
  /\ UNCHANGED <<list, detail, dialog, blade, asking, work, mishaps>>

\* Refused (a serial number that is taken) or lost: the dialog says so and stays.
Fail(w) ==
  /\ w.st = "sent" /\ Mishap
  /\ writes' = writes \ {w}
  /\ UNCHANGED <<devices, list, detail, dialog, blade, asking, work>>

\* onSuccess.  The mutation waits for the fetches, and the handler for it.
Done(w) ==
  /\ w.st = "done"
  /\ Invalidate(w.id) /\ Becomes(w, [w EXCEPT !.st = "waiting"])
  /\ UNCHANGED <<devices, dialog, blade, asking, work, mishaps>>

\* Mutant: the extension forms are read when they are sent.
ExtensionNow(w) == IF w.op = "blade" THEN w.val ELSE dialog.val

\* The handler goes on with the form it was called with.
ExtensionBody(w) == w.val

\* A finished handler closes what is open by now.
Finish(w) ==
  /\ writes' = (IF w.op \in {"create", "update"} THEN Orphaned(writes \ {w}) ELSE writes \ {w})
  /\ dialog' = IF w.op \in {"create", "update"} THEN Shut(dialog) ELSE dialog
  /\ blade' = IF w.op \in {"create", "update"} \/ (w.op = "blade" /\ ~w.orphan) THEN FALSE ELSE blade
  /\ asking' = IF w.op = "delete" THEN None ELSE asking

SendExtensions(w) ==
  /\ w.st = "waiting" /\ Refetched(w) /\ w.todo # {}
  /\ Becomes(w, [w EXCEPT !.st = "ext", !.val = ExtensionBody(w)])
  /\ UNCHANGED <<devices, list, detail, dialog, blade, asking, work, mishaps>>

\* upsert_..._detail writes every column of the table: what was not sent is null.
Upserted(rec, w, t) ==
  [rec EXCEPT !.tables = @ \cup {t},
              !.val = [s \in Section |-> IF s \notin SectionsOf(t) THEN @[s]
                                         ELSE IF s \in Shown(w.kind) \ (IF w.op = "blade" THEN {"hardware"} ELSE {})
                                              THEN w.val[s] ELSE Blank]]

ServeExtension(w, t) ==
  /\ w.st = "ext" /\ t \in w.todo
  /\ devices' = [devices EXCEPT ![w.row] = Upserted(@, w, t)]
  /\ Becomes(w, [w EXCEPT !.todo = @ \ {t}])
  /\ UNCHANGED <<list, detail, dialog, blade, asking, work, mishaps>>

\* One of them is refused (a slot that is taken) or lost; the others go on.
FailExtension(w, t) ==
  /\ w.st = "ext" /\ t \in w.todo /\ Mishap
  /\ Becomes(w, [w EXCEPT !.todo = @ \ {t}, !.bad = TRUE])
  /\ UNCHANGED <<devices, list, detail, dialog, blade, asking, work>>

\* The last answer.  With all of them good the dialog is closed; the
\* extensions invalidate nothing.
Saved(w) ==
  /\ w.todo = {} /\ \/ w.st = "ext"
                    \/ w.st = "waiting" /\ Refetched(w)
  /\ IF w.bad THEN writes' = writes \ {w} /\ UNCHANGED <<dialog, blade, asking>> ELSE Finish(w)
  /\ UNCHANGED <<devices, list, detail, work, mishaps>>

-----------------------------------------------------------------------------
(* Deletion, and blades *)

AskDelete(r) ==
  /\ Free /\ Work /\ list.data[r] # Unborn
  /\ asking' = r
  /\ UNCHANGED <<devices, list, detail, dialog, blade, writes, mishaps>>

CancelDelete ==
  /\ asking # None /\ asking' = None
  /\ UNCHANGED <<devices, list, detail, dialog, blade, writes, work, mishaps>>

ConfirmDelete ==
  /\ asking # None /\ Work
  /\ writes' = writes \cup {[Write("delete") EXCEPT !.row = asking, !.asked = asking, !.todo = {}]}
  /\ UNCHANGED <<devices, list, detail, dialog, blade, asking, mishaps>>

\* The blade's name and slot are typed; without them the button does nothing.
OpenBlade ==
  /\ BladesShown(dialog) /\ ~blade /\ Work
  /\ blade' = TRUE
  /\ UNCHANGED <<devices, list, detail, dialog, asking, writes, mishaps>>

CancelBlade ==
  /\ blade /\ blade' = FALSE
  /\ UNCHANGED <<devices, list, detail, dialog, asking, writes, work, mishaps>>

SavingBlade == \E w \in writes : w.op = "blade" /\ ~w.orphan

\* handleAddBlade.  The list that tells which slots are taken asks for 200
\* blades and never arrives.
AddBlade ==
  /\ blade /\ ~SavingBlade /\ Work
  /\ writes' = writes \cup {[Write("blade") EXCEPT
                               !.row = None, !.kind = "blade", !.todo = {"server"}, !.asked = None,
                               !.val = [Nothing EXCEPT !["status"] = Typed(None), !["placement"] = Typed(dialog.row)],
                               !.seen = [Nothing EXCEPT !["status"] = Typed(None), !["placement"] = Typed(dialog.row)]]}
  /\ UNCHANGED <<devices, list, detail, dialog, blade, asking, mishaps>>

-----------------------------------------------------------------------------
Had(r, s) == /\ s \notin Stock[r].lacks
             /\ \/ s \in Shown(Stock[r].kind) \cap BaseSections
                \/ \E t \in Stock[r].tables : s \in SectionsOf(t)

Init ==
  /\ devices = [r \in Device |-> IF r \notin First THEN Unborn
                                 ELSE [kind |-> Stock[r].kind, tables |-> Stock[r].tables,
                                       val |-> [s \in Section |-> IF Had(r, s) THEN Stored(r) ELSE Blank]]]
  /\ list = [st |-> "sent", by |-> {}, has |-> FALSE, data |-> NoDevices, snap |-> NoDevices]
  /\ detail = [r \in Device |-> Unasked]
  /\ dialog = [Dialog(None, "server", EmptyForm, Unborn) EXCEPT !.open = FALSE]
  /\ blade = FALSE /\ asking = None /\ writes = {} /\ work = 0 /\ mishaps = 0

User == \/ OpenCreate \/ Close \/ Save \/ CancelDelete \/ ConfirmDelete
        \/ OpenBlade \/ CancelBlade \/ AddBlade
        \/ \E r \in Device : OpenEdit(r) \/ AskDelete(r)
        \/ \E s \in Section : Type(s)
        \/ \E k \in Kinds : SwitchKind(k)

Network == \/ ListServed \/ ListLands \/ Refocus
           \/ \E r \in Device : DetailServed(r) \/ DetailLands(r)
           \/ \E w \in writes : \/ Serve(w) \/ Fail(w) \/ Done(w) \/ SendExtensions(w) \/ Saved(w)
                               \/ \E t \in w.todo : ServeExtension(w, t) \/ FailExtension(w, t)

Next == User \/ Network

Spec == Init /\ [][Next]_vars

-----------------------------------------------------------------------------
(* Properties *)

Rec == [kind : Kinds \cup {"none"}, val : Values, tables : SUBSET Extensions]

TypeOK ==
  /\ devices \in [Device -> Rec]
  /\ list.st \in {"idle", "sent", "served"} /\ list.by \subseteq 1..MaxWork /\ list.has \in BOOLEAN
  /\ list.data \in [Device -> Rec] /\ list.snap \in [Device -> Rec]
  /\ \A r \in Device : /\ detail[r].st \in {"idle", "sent", "served"}
                        /\ detail[r].by \subseteq 1..MaxWork /\ detail[r].stale \in BOOLEAN
                        /\ detail[r].data \in Rec /\ detail[r].snap \in Rec
  /\ dialog.open \in BOOLEAN /\ dialog.kind \in Kinds /\ dialog.val \in Values
  /\ dialog.row \in There \cup {None} /\ (dialog.open => dialog.row = dialog.asked)
  /\ blade \in BOOLEAN /\ (blade => BladesShown(dialog))
  /\ asking \in Device \cup {None}
  /\ \A w \in writes : /\ w.id \in 1..MaxWork /\ w.op \in {"create", "update", "delete", "blade"}
                        /\ w.row \in There \cup {None} /\ w.st \in {"sent", "done", "waiting", "ext"}
                        /\ w.val \in Values /\ w.todo \subseteq Extensions
                        /\ (w.op = "update" \/ w.st # "sent" => w.row # None)
  /\ work \in 0..MaxWork /\ mishaps \in 0..MaxMishap

\* A device holds nothing that was another one's: neither stored for it nor
\* typed into its dialog.  (The one form that all devices share is blanked by
\* openEdit, openCreate and a switch of the type, and filled by an effect that
\* runs when an answer arrives.)
OwnValues ==
  \A r \in There : \A s \in Section \ {"placement"} :
    devices[r].val[s] \in {Blank, Off, Default} \/ devices[r].val[s][1] \in {r, None}

\* This step applies w to the server's rows.
Applies(w) == w \notin writes' /\ devices' # devices

\* However long the chain of a save takes, and whatever the user does with the
\* dialog meanwhile, each request of it changes the device that the dialog was
\* opened for, or the one that the chain has created, and writes what the form
\* showed at the click.  (The closure of handleSave against the state.)
SavedAsClicked ==
  [][\A w \in writes : Applies(w) =>
       \A r \in Device : devices'[r] # devices[r] =>
         /\ IF w.asked # None THEN r = w.asked ELSE r \notin There \/ (w.st = "ext" /\ r = w.row)
         /\ w.op # "delete" => \A s \in Section :
              devices'[r].val[s] \in {devices[r].val[s], w.seen[s], Blank}]_vars

\* What was loaded of a section when an edit was saved.
Loaded(w, s) == IF s \in BaseSections THEN w.base.val[s] ELSE w.loaded.val[s]

\* An edit changes only what the user typed, or blanked by switching the type,
\* of every section that it sends and that nobody has changed since the page
\* loaded it, but for what was null and the form shows with a default.  (Not of
\* the secrets, which are never loaded.  The effect has to fill the form again
\* whenever openEdit has blanked it.)
EditKeepsUntyped ==
  [][\A w \in writes : Applies(w) /\ w.op = "update" =>
       \A s \in Shown(w.kind) \ Secret :
         devices'[w.row].val[s] # devices[w.row].val[s] =>
           \/ s \in w.typed \/ (w.reset /\ s \in ExtSections)
           \/ devices[w.row].val[s] # Loaded(w, s)
           \/ devices[w.row].val[s] = Blank /\ s \in Defaulted /\ devices'[w.row].val[s] = Default]_vars

\* A save leaves alone what its form did not show of the device, and a password
\* that was left blank.  (The placeholder "leave blank to keep existing".)
UnseenKept ==
  [][\A w \in writes : Applies(w) /\ w.op = "update" =>
       \A s \in Section \cap BaseSections :
         devices'[w.row].val[s] # devices[w.row].val[s] =>
           s \in Shown(w.kind) /\ (s = "password" => s \in w.typed)]_vars

\* The same of the community, which the type DeviceRead of the frontend lists
\* among what the server tells of a device.
CommunityKept ==
  [][\A w \in writes : Applies(w) /\ w.op = "update" =>
       \A s \in Section \cap {"community"} :
         devices'[w.row].val[s] # devices[w.row].val[s] => s \in w.typed]_vars

=============================================================================
