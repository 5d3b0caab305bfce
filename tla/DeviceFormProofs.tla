--------------------------- MODULE DeviceFormProofs ---------------------------
(***************************************************************************)
(* Proofs about DeviceForm, for any number of devices, any types, sections *)
(* and stock, and any number of changes and failures: its types, that no   *)
(* device gets another one's values, and what a save and its chain of      *)
(* requests may change.                                                    *)
(*                                                                         *)
(* The argument: every value on the server, in the caches, in the form and *)
(* in a change under way is nobody's or that of the device it is there for *)
(* (Server, ListOk, DetailOk, FormOk, WriteOk).  The form of an open       *)
(* dialog is what the list and the cached detail tell of its device, but   *)
(* for defaults in the place of nulls and what was typed or blanked by a   *)
(* switch of the type (Untouched); when a newer detail arrives the effect  *)
(* fills the form again, which is enough because a device never loses an   *)
(* extension table (Grown), so that no section of the form goes on showing *)
(* one that is gone.  A change carries on what the form was at the click,  *)
(* to the device the dialog was opened for or to the one that it has       *)
(* created itself (WriteOk).                                               *)
(***************************************************************************)
EXTENDS DeviceForm, TLAPS

-----------------------------------------------------------------------------
(* The inductive invariant *)

\* What an extension section of a record holds belongs to a table it has.
Clean(x) == \A s \in Section \cap ExtSections :
              x.val[s] # Blank => \E t \in x.tables : s \in SectionsOf(t)

Recs == {x \in Rec : (x.kind = "none" => x = Unborn) /\ Clean(x)}

Lists == [st : {"idle", "sent", "served"}, by : SUBSET (1..MaxWork), has : BOOLEAN,
          data : [Device -> Recs], snap : [Device -> Recs]]

Details == [st : {"idle", "sent", "served"}, by : SUBSET (1..MaxWork), stale : BOOLEAN,
            data : Recs, snap : Recs]

Dialogs == [open : BOOLEAN, row : Device \cup {None}, kind : Kinds, val : Values,
            asked : Device \cup {None}, typed : SUBSET Section, reset : BOOLEAN, base : Recs]

Writes == [id : 1..MaxWork, op : {"create", "update", "delete", "blade"},
           row : Device \cup {None}, st : {"sent", "done", "waiting", "ext"}, orphan : BOOLEAN,
           kind : Kinds, val : Values, todo : SUBSET Extensions, bad : BOOLEAN,
           asked : Device \cup {None}, seen : Values, base : Recs, loaded : Recs,
           typed : SUBSET Section, reset : BOOLEAN]

Types ==
  /\ devices \in [Device -> Recs] /\ list \in Lists /\ detail \in [Device -> Details]
  /\ dialog \in Dialogs /\ blade \in BOOLEAN /\ asking \in Device \cup {None}
  /\ writes \subseteq Writes
  /\ work \in 0..MaxWork /\ mishaps \in 0..MaxMishap

\* Every value of a device is nobody's or its own.
Owned(val, r) == \A s \in Section \ {"placement"} : val[s][1] \in {r, None}

Server == \A r \in Device : Owned(devices[r].val, r)

\* The caches know no device that does not exist, no value of another one, no
\* secret, and no more tables than there are.
Told(x, r) ==
  /\ x # Unborn => r \in There
  /\ Owned(x.val, r)
  /\ \A s \in Section \cap Secret : x.val[s] = Blank

ListOk == \A r \in Device : Told(list.data[r], r) /\ Told(list.snap[r], r)

DetailOk ==
  \A r \in Device :
    /\ Owned(detail[r].data.val, r) /\ Owned(detail[r].snap.val, r)
    /\ detail[r].data.tables \subseteq devices[r].tables
    /\ detail[r].st = "served" => /\ detail[r].data.tables \subseteq detail[r].snap.tables
                                   /\ detail[r].snap.tables \subseteq devices[r].tables

\* A form is what was loaded, shown with its defaults, but for what was typed or
\* blanked by a switch of the type.
Untouched(val, typed, reset, base, loaded) ==
  /\ \A s \in Section \cap Secret : base.val[s] = Blank
  /\ \A s \in (Section \cap BaseSections) \ typed : val[s] = InForm(s, base.val[s])
  /\ ~reset => \A s \in (Section \cap ExtSections) \ typed : val[s] = InForm(s, loaded.val[s])

\* The dialogs are about devices that exist; the one for a blade is shown in
\* that of its chassis.
DialogsOk ==
  /\ dialog.row \in There \cup {None} /\ asking \in There \cup {None}
  /\ blade => BladesShown(dialog)

FormOk ==
  dialog.open =>
    /\ dialog.row = dialog.asked /\ Owned(dialog.val, dialog.row)
    /\ dialog.row # None => Untouched(dialog.val, dialog.typed, dialog.reset, dialog.base,
                                      detail[dialog.row].data)

\* A change is for the device its dialog was opened for, and sends what the
\* form showed at the click.
WriteOk(w) ==
  /\ w.row \in There \cup {None} /\ w.val = w.seen
  /\ w.op \in {"update", "delete"} => w.row # None /\ w.asked = w.row
  /\ w.op \in {"create", "blade"} => w.asked = None /\ (w.st = "sent" => w.row = None)
  /\ w.st # "sent" => w.row # None
  /\ w.op = "delete" => w.todo = {}
  /\ w.op # "delete" => Owned(w.val, w.row)
  /\ w.op = "update" => Untouched(w.val, w.typed, w.reset, w.base, w.loaded)

WritesOk == \A w \in writes : WriteOk(w)

-----------------------------------------------------------------------------
(* Steps *)

LEMMA Steps ==
  ASSUME Next
  PROVE  \/ OpenCreate \/ Close \/ Save \/ CancelDelete \/ ConfirmDelete
         \/ OpenBlade \/ CancelBlade \/ AddBlade \/ ListServed \/ ListLands \/ Refocus
         \/ \E r \in Device : OpenEdit(r) \/ AskDelete(r) \/ DetailServed(r) \/ DetailLands(r)
         \/ \E s \in Section : Type(s)
         \/ \E k \in Kinds : SwitchKind(k)
         \/ \E w \in writes : Serve(w) \/ Fail(w) \/ Done(w) \/ SendExtensions(w) \/ Saved(w)
         \/ \E w \in writes : \E t \in w.todo : ServeExtension(w, t) \/ FailExtension(w, t)
  BY DEF Next, User, Network

-----------------------------------------------------------------------------
(* Sections and values *)

LEMMA Sections ==
  /\ BaseSections \cap ExtSections = {} /\ Secret \subseteq BaseSections
  /\ \A t \in Extensions : SectionsOf(t) \subseteq ExtSections
  /\ \A t, u \in Extensions : t # u => SectionsOf(t) \cap SectionsOf(u) = {}
  /\ Section \subseteq BaseSections \cup ExtSections
  <1>1. /\ SectionsOf("server") = {"hardware", "placement", "capacity", "drives"}
        /\ SectionsOf("network") = {"network"} /\ SectionsOf("pdu") = {"pdu"}
    BY DEF SectionsOf
  <1>2. ExtSections = {"hardware", "placement", "capacity", "drives"} \cup {"network"} \cup {"pdu"}
    BY <1>1 DEF ExtSections, Extensions
  <1>3. BaseSections \cap ExtSections = {} /\ Secret \subseteq BaseSections
    BY <1>2 DEF BaseSections, Secret
  <1>4. \A t \in Extensions : SectionsOf(t) \subseteq ExtSections
    BY DEF ExtSections
  <1>5. \A t, u \in Extensions : t # u => SectionsOf(t) \cap SectionsOf(u) = {}
    BY <1>1 DEF Extensions
  <1> QED
    BY <1>3, <1>4, <1>5, DeviceAssumption

LEMMA ValueFacts ==
  /\ Blank \in Value /\ Off \in Value /\ Nothing \in Values
  /\ Blank[1] = None /\ Off[1] = None /\ Default \in Value /\ Default[1] = None
  /\ \A r \in Device \cup {None} : /\ Typed(r) \in Value /\ Typed(r)[1] = r
                                   /\ Stored(r) \in Value /\ Stored(r)[1] = r
  /\ "status" \in Section /\ "placement" \in Section
  BY DeviceAssumption DEF Blank, Off, Default, Typed, Stored, Value, Values, Nothing

\* A default is nobody's.
LEMMA Shows ==
  /\ \A s : \A v \in Value : InForm(s, v) \in Value /\ InForm(s, v)[1] \in {v[1], None}
  /\ \A s \in Secret : \A v : InForm(s, v) = v
  <1>1. \A s : \A v \in Value : InForm(s, v) \in Value /\ InForm(s, v)[1] \in {v[1], None}
    BY ValueFacts DEF InForm
  <1>2. \A s \in Secret : s \notin Defaulted
    BY DEF Secret, Defaulted
  <1> QED
    BY <1>1, <1>2 DEF InForm

LEMMA EmptyMade ==
  /\ EmptyForm \in Values /\ \A s \in Section : EmptyForm[s] = InForm(s, Blank)
  /\ \A r : Owned(EmptyForm, r)
  <1>1. \A s \in Section : EmptyForm[s] = InForm(s, Blank)
    BY DEF EmptyForm
  <1>2. \A s \in Section : EmptyForm[s] \in Value /\ EmptyForm[s][1] = None
    BY <1>1, ValueFacts, Shows
  <1>3. EmptyForm \in Values
    BY <1>2 DEF EmptyForm, Values
  <1> QED
    BY <1>1, <1>2, <1>3 DEF Owned

LEMMA UnbornRec ==
  /\ Unborn \in Recs /\ Unborn.val = Nothing /\ Unborn.tables = {} /\ Unborn.kind = "none"
  /\ \A r : Owned(Nothing, r)
  /\ \A s \in Section : Nothing[s] = Blank
  <1>1. Unborn \in Rec
    BY ValueFacts DEF Unborn, Rec
  <1>2. Clean(Unborn)
    BY DEF Clean, Unborn, Nothing
  <1>3. \A s \in Section : Nothing[s] = Blank
    BY DEF Nothing
  <1>4. \A r : Owned(Nothing, r)
    BY <1>3, ValueFacts DEF Owned
  <1> QED
    BY <1>1, <1>2, <1>3, <1>4 DEF Recs, Unborn

LEMMA KindFacts ==
  /\ "none" \notin Kinds /\ "server" \in Kinds
  BY DeviceAssumption DEF AllKinds

LEMMA RecFields ==
  ASSUME NEW x \in Recs
  PROVE  /\ x.kind \in Kinds \cup {"none"} /\ x.val \in Values /\ x.tables \in SUBSET Extensions
         /\ Clean(x) /\ (x.kind = "none" => x = Unborn)
         /\ x = [kind |-> x.kind, val |-> x.val, tables |-> x.tables]
  BY DEF Recs, Rec

\* A record with a kind of its own, and some other values.
LEMMA RecMade ==
  ASSUME NEW k \in Kinds, NEW v \in Values, NEW ts \in SUBSET Extensions,
         \A s \in Section \cap ExtSections : v[s] # Blank => \E t \in ts : s \in SectionsOf(t)
  PROVE  [kind |-> k, val |-> v, tables |-> ts] \in Recs
  BY KindFacts DEF Recs, Rec, Clean

LEMMA ReadRec ==
  ASSUME Types, NEW r \in Device
  PROVE  /\ Read(r) \in Recs
         /\ Read(r).tables = devices[r].tables /\ Read(r).kind = devices[r].kind
         /\ \A s \in Section : /\ Read(r).val[s] \in {Blank, devices[r].val[s]}
                               /\ s \in Secret => Read(r).val[s] = Blank
         /\ Read(r) # Unborn => r \in There
  <1> DEFINE x == devices[r]
             v == [s \in Section |-> IF s \in Secret THEN Blank ELSE x.val[s]]
  <1>1. x \in Recs
    BY DEF Types
  <1>2. /\ x.kind \in Kinds \cup {"none"} /\ x.val \in Values /\ x.tables \in SUBSET Extensions
        /\ Clean(x) /\ (x.kind = "none" => x = Unborn)
        /\ x = [kind |-> x.kind, val |-> x.val, tables |-> x.tables]
    BY <1>1, RecFields
  <1>3. Read(r) = [kind |-> x.kind, val |-> v, tables |-> x.tables]
    BY <1>2 DEF Read
  <1>4. v \in Values
    BY <1>2, ValueFacts DEF Values
  <1>5. \A s \in Section : v[s] \in {Blank, x.val[s]} /\ (s \in Secret => v[s] = Blank)
    OBVIOUS
  <1>6. CASE x.kind = "none"
    <2>1. x = Unborn
      BY <1>2, <1>6
    <2>2. v = Nothing
      BY <2>1, UnbornRec DEF Nothing
    <2>3. Read(r) = Unborn
      BY <1>3, <2>1, <2>2, UnbornRec DEF Unborn
    <2> QED
      BY <1>3, <1>5, <2>3, UnbornRec
  <1>7. CASE x.kind # "none"
    <2>1. \A s \in Section \cap ExtSections : v[s] # Blank => \E t \in x.tables : s \in SectionsOf(t)
      BY <1>2 DEF Clean
    <2>2. Read(r) \in Recs
      BY <1>2, <1>3, <1>4, <1>7, <2>1, RecMade
    <2>3. r \in There
      BY <1>7, UnbornRec DEF There
    <2> QED
      BY <1>3, <1>5, <2>2, <2>3
  <1> QED
    BY <1>6, <1>7

LEMMA ListingRecs ==
  ASSUME Types
  PROVE  /\ Listing \in [Device -> Recs]
         /\ \A r \in Device : Listing[r] \in {Unborn, Read(r)}
  BY ReadRec, UnbornRec DEF Listing

LEMMA DetailFields ==
  ASSUME Types, NEW r \in Device
  PROVE  /\ detail[r] \in Details /\ detail[r].data \in Recs /\ detail[r].snap \in Recs
         /\ detail[r].st \in {"idle", "sent", "served"}
  BY DEF Types, Details

LEMMA FilledValues ==
  ASSUME NEW v \in Values, NEW x \in Recs
  PROVE  /\ Filled(v, x) \in Values
         /\ \A s \in Section : Filled(v, x)[s] \in {v[s], InForm(s, x.val[s])}
         /\ \A s \in Section \cap BaseSections : Filled(v, x)[s] = v[s]
  <1>1. x.val \in Values /\ x.tables \in SUBSET Extensions
    BY RecFields
  <1>2. \A s \in Section : v[s] \in Value /\ InForm(s, x.val[s]) \in Value
    BY <1>1, Shows DEF Values
  <1>3. Filled(v, x) \in Values /\ \A s \in Section : Filled(v, x)[s] \in {v[s], InForm(s, x.val[s])}
    BY <1>2 DEF Filled, Values
  <1>4. \A s \in Section \cap BaseSections : ~\E t \in x.tables : s \in SectionsOf(t)
    BY <1>1, Sections
  <1>5. \A s \in Section \cap BaseSections : Filled(v, x)[s] = v[s]
    BY <1>4 DEF Filled
  <1> QED
    BY <1>3, <1>5

LEMMA DialogMade ==
  ASSUME NEW r \in Device \cup {None}, NEW k \in Kinds, NEW v \in Values, NEW b \in Recs
  PROVE  /\ Dialog(r, k, v, b) \in Dialogs
         /\ Dialog(r, k, v, b).open = TRUE /\ Dialog(r, k, v, b).row = r /\ Dialog(r, k, v, b).kind = k
         /\ Dialog(r, k, v, b).val = v /\ Dialog(r, k, v, b).asked = r
         /\ Dialog(r, k, v, b).typed = {} /\ Dialog(r, k, v, b).reset = FALSE
         /\ Dialog(r, k, v, b).base = b
  BY DEF Dialog, Dialogs

LEMMA ShutMade ==
  ASSUME NEW d \in Dialogs
  PROVE  Shut(d) \in Dialogs /\ Shut(d).open = FALSE /\ Shut(d).row = d.row
  <1> DEFINE v == [s \in Section |-> IF s \in BaseSections THEN Blank ELSE d.val[s]]
  <1>1. d.row \in Device \cup {None} /\ d.val \in Values
    BY DEF Dialogs
  <1>2. v \in Values
    BY <1>1, ValueFacts DEF Values
  <1> HIDE DEF v
  <1>b. "server" \in Kinds /\ Unborn \in Recs
    BY KindFacts, UnbornRec
  <1>a. /\ Dialog(d.row, "server", v, Unborn) \in Dialogs
        /\ Dialog(d.row, "server", v, Unborn).row = d.row
    BY <1>1, <1>2, <1>b DEF Dialog, Dialogs
  <1>3. PICK x \in Dialogs : x = Dialog(d.row, "server", v, Unborn) /\ x.row = d.row
    BY <1>a
  <1>4. Shut(d) = [x EXCEPT !.open = FALSE]
    BY <1>3 DEF Shut, v
  <1> QED
    BY <1>3, <1>4 DEF Dialogs

LEMMA FetchMade ==
  ASSUME NEW q \in Details, NEW ids \in SUBSET (1..MaxWork)
  PROVE  /\ Fetch(q, ids) \in Details /\ Fetch(q, ids).st = "sent"
         /\ Fetch(q, ids).data = q.data /\ Fetch(q, ids).snap = q.snap
  BY DEF Fetch, Details

\* A fetch that is begun again or joined has what it had.
LEMMA RefetchMade ==
  ASSUME NEW q \in Details, NEW has \in BOOLEAN, NEW id \in 1..MaxWork
  PROVE  /\ Refetch(q, has, id) \in Details /\ Refetch(q, has, id).st \in {"sent", q.st}
         /\ Refetch(q, has, id).data = q.data /\ Refetch(q, has, id).snap = q.snap
  <1>1. [q EXCEPT !.by = @ \cup {id}] = [q EXCEPT !.by = q.by \cup {id}] /\ q.by \cup {id} \in SUBSET (1..MaxWork)
    BY DEF Details
  <1>2. CASE Busy(q) /\ ~has
    BY <1>1, <1>2 DEF Refetch, Details
  <1>3. CASE ~(Busy(q) /\ ~has)
    BY <1>3, FetchMade DEF Refetch
  <1> QED
    BY <1>2, <1>3

\* A request that loses its dialog differs in nothing else.
LEMMA OrphanedMade ==
  ASSUME NEW ws, ws \subseteq Writes
  PROVE  /\ Orphaned(ws) \subseteq Writes
         /\ \A v \in Orphaned(ws) : \E w \in ws : v = w \/ v = [w EXCEPT !.orphan = TRUE]
  <1>1. \A w \in Writes : [w EXCEPT !.orphan = TRUE] \in Writes
    BY DEF Writes
  <1> QED
    BY <1>1 DEF Orphaned

LEMMA OrphanOk ==
  ASSUME NEW w \in Writes, WriteOk(w)
  PROVE  WriteOk([w EXCEPT !.orphan = TRUE])
  <1> DEFINE v == [w EXCEPT !.orphan = TRUE]
  <1>1. /\ v.row = w.row /\ v.val = w.val /\ v.seen = w.seen /\ v.op = w.op /\ v.asked = w.asked
        /\ v.st = w.st /\ v.todo = w.todo /\ v.typed = w.typed /\ v.reset = w.reset
        /\ v.base = w.base /\ v.loaded = w.loaded
    BY DEF Writes
  <1> HIDE DEF v
  <1> QED
    BY <1>1 DEF WriteOk

LEMMA OrphanedOk ==
  ASSUME Types, WritesOk, NEW ws \in SUBSET writes, NEW v \in Orphaned(ws)
  PROVE  v \in Writes /\ WriteOk(v)
  <1>1. ws \subseteq Writes
    BY DEF Types
  <1>2. PICK w \in ws : v = w \/ v = [w EXCEPT !.orphan = TRUE]
    BY <1>1, OrphanedMade
  <1>3. w \in Writes /\ WriteOk(w)
    BY <1>1 DEF WritesOk
  <1> QED
    BY <1>1, <1>2, <1>3, OrphanOk, OrphanedMade

-----------------------------------------------------------------------------
(* What the server writes *)

LEMMA BodySections ==
  ASSUME NEW k, NEW v
  PROVE  ToBody(k, v) \subseteq Shown(k) \cap BaseSections
  BY DEF ToBody

LEMMA CreatedRec ==
  ASSUME NEW w \in Writes
  PROVE  /\ Created(w) \in Recs /\ Created(w).kind = w.kind /\ Created(w).tables = {}
         /\ \A s \in Section : Created(w).val[s] \in {w.val[s], Blank}
  <1> DEFINE v == [s \in Section |-> IF s \in ToBody(w.kind, w.val) THEN w.val[s] ELSE Blank]
  <1>1. w.kind \in Kinds /\ w.val \in Values
    BY DEF Writes
  <1>2. Created(w) = [kind |-> w.kind, val |-> v, tables |-> {}]
    <2>1. Created(w) = [Unborn EXCEPT !.kind = w.kind, !.val = v]
      BY DEF Created
    <2> HIDE DEF v
    <2> QED
      BY <2>1 DEF Unborn
  <1>3. v \in Values
    BY <1>1, ValueFacts DEF Values
  <1>4. \A s \in Section \cap ExtSections : v[s] = Blank
    BY BodySections, Sections
  <1>5. \A s \in Section : v[s] \in {w.val[s], Blank}
    OBVIOUS
  <1> HIDE DEF v
  <1>6. [kind |-> w.kind, val |-> v, tables |-> {}] \in Recs
    BY <1>1, <1>3, <1>4, RecMade
  <1> QED
    BY <1>2, <1>5, <1>6

LEMMA ChangedRec ==
  ASSUME Types, NEW w \in Writes, w.row \in There
  PROVE  /\ Changed(w) \in Recs /\ Changed(w).kind \in Kinds
         /\ Changed(w).tables = devices[w.row].tables
         /\ w.op = "delete" => \A s \in Section : Changed(w).val[s] \in {devices[w.row].val[s], Off}
         /\ w.op # "delete" => \A s \in Section :
              Changed(w).val[s] = IF s \in ToBody(w.kind, w.val) THEN w.val[s] ELSE devices[w.row].val[s]
  <1> DEFINE x == devices[w.row]
  <1>1. w.row \in Device /\ x \in Recs /\ x # Unborn
    BY DEF Types, There
  <1>2. /\ x.kind \in Kinds /\ x.val \in Values /\ x.tables \in SUBSET Extensions /\ Clean(x)
        /\ x = [kind |-> x.kind, val |-> x.val, tables |-> x.tables]
    BY <1>1, RecFields
  <1>3. w.kind \in Kinds /\ w.val \in Values
    BY DEF Writes
  <1>4. CASE w.op = "delete"
    <2> DEFINE v == [x.val EXCEPT !["status"] = Off]
    <2>1. Changed(w) = [kind |-> x.kind, val |-> v, tables |-> x.tables]
      BY <1>2, <1>4 DEF Changed
    <2>2. v \in Values /\ \A s \in Section : v[s] \in {x.val[s], Off} /\ (s # "status" => v[s] = x.val[s])
      BY <1>2, ValueFacts DEF Values
    <2>3. "status" \in BaseSections
      BY DEF BaseSections
    <2>4. \A s \in Section \cap ExtSections : v[s] # Blank => \E t \in x.tables : s \in SectionsOf(t)
      BY <1>2, <2>2, <2>3, Sections DEF Clean
    <2> HIDE DEF v
    <2>5. [kind |-> x.kind, val |-> v, tables |-> x.tables] \in Recs
      BY <1>2, <2>2, <2>4, RecMade
    <2> QED
      BY <1>2, <1>4, <2>1, <2>2, <2>5
  <1>5. CASE w.op # "delete"
    <2> DEFINE v == [s \in Section |-> IF s \in ToBody(w.kind, w.val) THEN w.val[s] ELSE x.val[s]]
    <2>1. Changed(w) = [kind |-> w.kind, val |-> v, tables |-> x.tables]
      BY <1>2, <1>5 DEF Changed
    <2>2. v \in Values
      BY <1>2, <1>3 DEF Values
    <2>3. \A s \in Section : v[s] = IF s \in ToBody(w.kind, w.val) THEN w.val[s] ELSE x.val[s]
      OBVIOUS
    <2>4. \A s \in Section \cap ExtSections : v[s] = x.val[s]
      BY BodySections, Sections
    <2> HIDE DEF v
    <2>5. \A s \in Section \cap ExtSections : v[s] # Blank => \E t \in x.tables : s \in SectionsOf(t)
      BY <1>2, <2>4 DEF Clean
    <2>6. [kind |-> w.kind, val |-> v, tables |-> x.tables] \in Recs
      BY <1>2, <1>3, <2>2, <2>5, RecMade
    <2> QED
      BY <1>3, <1>5, <2>1, <2>3, <2>6
  <1> QED
    BY <1>4, <1>5

LEMMA UpsertedRec ==
  ASSUME Types, NEW w \in Writes, w.row \in There, NEW t \in Extensions
  PROVE  LET y == Upserted(devices[w.row], w, t) IN
         /\ y \in Recs /\ y.kind \in Kinds
         /\ y.tables = devices[w.row].tables \cup {t}
         /\ \A s \in Section \ SectionsOf(t) : y.val[s] = devices[w.row].val[s]
         /\ \A s \in Section \cap SectionsOf(t) : y.val[s] \in {w.val[s], Blank}
         /\ w.op # "blade" => \A s \in Section \cap SectionsOf(t) : s \in Shown(w.kind) => y.val[s] = w.val[s]
  <1> DEFINE x == devices[w.row]
             v == [s \in Section |-> IF s \notin SectionsOf(t) THEN x.val[s]
                                     ELSE IF s \in Shown(w.kind) \ (IF w.op = "blade" THEN {"hardware"} ELSE {})
                                          THEN w.val[s] ELSE Blank]
  <1>1. w.row \in Device /\ x \in Recs /\ x # Unborn
    BY DEF Types, There
  <1>2. /\ x.kind \in Kinds /\ x.val \in Values /\ x.tables \in SUBSET Extensions /\ Clean(x)
        /\ x = [kind |-> x.kind, val |-> x.val, tables |-> x.tables]
    BY <1>1, RecFields
  <1>3. w.val \in Values
    BY DEF Writes
  <1>4. Upserted(x, w, t) = [kind |-> x.kind, val |-> v, tables |-> x.tables \cup {t}]
    <2>1. Upserted(x, w, t) = [x EXCEPT !.tables = x.tables \cup {t}, !.val = v]
      BY DEF Upserted
    <2> HIDE DEF v
    <2> QED
      BY <1>2, <2>1
  <1>5. v \in Values
    BY <1>2, <1>3, ValueFacts DEF Values
  <1>6. /\ \A s \in Section \ SectionsOf(t) : v[s] = x.val[s]
        /\ \A s \in Section \cap SectionsOf(t) : v[s] \in {w.val[s], Blank}
        /\ w.op # "blade" => \A s \in Section \cap SectionsOf(t) : s \in Shown(w.kind) => v[s] = w.val[s]
    OBVIOUS
  <1> HIDE DEF v
  <1>7. \A s \in Section \cap ExtSections : v[s] # Blank => \E u \in x.tables \cup {t} : s \in SectionsOf(u)
    BY <1>2, <1>6 DEF Clean
  <1>8. [kind |-> x.kind, val |-> v, tables |-> x.tables \cup {t}] \in Recs
    BY <1>2, <1>5, <1>7, RecMade
  <1> QED
    BY <1>2, <1>4, <1>6, <1>8

-----------------------------------------------------------------------------
(* The server's rows *)

LEMMA WriteHere ==
  ASSUME Types, WritesOk, NEW w \in writes
  PROVE  w \in Writes /\ WriteOk(w)
  BY DEF Types, WritesOk

\* The three ways in which a request changes a row.
LEMMA ServeCases ==
  ASSUME Types, WritesOk, NEW w \in writes, Serve(w)
  PROVE  \/ /\ w.op \in {"create", "blade"}
            /\ \E r \in Device : /\ r \notin There
                                 /\ devices' = [devices EXCEPT ![r] = Created(w)]
                                 /\ Becomes(w, [w EXCEPT !.st = "done", !.row = r])
         \/ /\ w.op \in {"update", "delete"} /\ w.row \in There
            /\ devices' = [devices EXCEPT ![w.row] = Changed(w)]
            /\ Becomes(w, [w EXCEPT !.st = "done"])
  <1>1. w \in Writes /\ WriteOk(w)
    BY WriteHere
  <1>2. w.op \in {"create", "update", "delete", "blade"}
    BY <1>1 DEF Writes
  <1>3. w.op \in {"update", "delete"} => w.row \in There
    BY <1>1 DEF WriteOk
  <1> QED
    BY <1>2, <1>3 DEF Serve

LEMMA ExtensionHere ==
  ASSUME Types, WritesOk, NEW w \in writes, w.st = "ext", NEW t \in w.todo
  PROVE  w.row \in There /\ t \in Extensions /\ w.op # "delete"
  BY WriteHere DEF WriteOk, Writes

LEMMA DeviceSteps ==
  ASSUME Next, devices' # devices
  PROVE  \E w \in writes : Serve(w) \/ \E t \in w.todo : ServeExtension(w, t)
  <1>1. CASE OpenCreate \/ Close \/ Save \/ CancelDelete \/ ConfirmDelete
    BY <1>1 DEF OpenCreate, Close, Save, CancelDelete, ConfirmDelete
  <1>2. CASE OpenBlade \/ CancelBlade \/ AddBlade \/ ListServed \/ ListLands \/ Refocus
    BY <1>2 DEF OpenBlade, CancelBlade, AddBlade, ListServed, ListLands, Refocus
  <1>3. ASSUME NEW r \in Device, OpenEdit(r) \/ AskDelete(r) \/ DetailServed(r) \/ DetailLands(r)
        PROVE  FALSE
    BY <1>3 DEF OpenEdit, AskDelete, DetailServed, DetailLands
  <1>4. ASSUME NEW s \in Section, Type(s) PROVE FALSE
    BY <1>4 DEF Type
  <1>5. ASSUME NEW k \in Kinds, SwitchKind(k) PROVE FALSE
    BY <1>5 DEF SwitchKind
  <1>6. ASSUME NEW w \in writes, Fail(w) \/ Done(w) \/ SendExtensions(w) \/ Saved(w) PROVE FALSE
    BY <1>6 DEF Fail, Done, SendExtensions, Saved
  <1>7. ASSUME NEW w \in writes, NEW t \in w.todo, FailExtension(w, t) PROVE FALSE
    BY <1>7 DEF FailExtension
  <1> QED
    BY <1>1, <1>2, <1>3, <1>4, <1>5, <1>6, <1>7, Steps

\* Rows stay, with the tables they have, and get only what is theirs.
Grown == \A r \in Device : /\ r \in There => r \in There'
                           /\ devices[r].tables \subseteq devices'[r].tables

LEMMA GrownSame ==
  ASSUME devices' = devices
  PROVE  Grown
  BY DEF Grown, There

LEMMA ThereKind ==
  ASSUME Types, NEW r \in Device
  PROVE  devices[r].kind \in Kinds => r \in There
  BY UnbornRec, KindFacts DEF There, Types

LEMMA DevicesStep ==
  ASSUME Types, Server, WritesOk, [Next]_vars
  PROVE  devices' \in [Device -> Recs] /\ Server' /\ Grown
  <1>t. devices \in [Device -> Recs]
    BY DEF Types
  <1>s. ASSUME NEW r \in Device, NEW y \in Recs, devices' = [devices EXCEPT ![r] = y],
               y.kind \in Kinds, devices[r].tables \subseteq y.tables, Owned(y.val, r)
        PROVE  devices' \in [Device -> Recs] /\ Server' /\ Grown
    <2>1. devices' \in [Device -> Recs]
      BY <1>t, <1>s
    <2>2. \A q \in Device : devices'[q] = IF q = r THEN y ELSE devices[q]
      BY <1>t, <1>s
    <2>3. y # Unborn
      BY <1>s, KindFacts, UnbornRec
    <2>4. Server'
      BY <1>s, <2>2 DEF Server
    <2>5. Grown
      BY <1>s, <2>2, <2>3 DEF Grown, There
    <2> QED
      BY <2>1, <2>4, <2>5
  <1>1. CASE devices' = devices
    BY <1>t, <1>1, GrownSame DEF Server
  <1>2. ASSUME NEW w \in writes, Serve(w)
        PROVE  devices' \in [Device -> Recs] /\ Server' /\ Grown
    <2>w. w \in Writes /\ WriteOk(w) /\ w.kind \in Kinds
      BY WriteHere DEF Writes
    <2>1. CASE w.op \in {"create", "blade"}
      <3>1. PICK r \in Device : r \notin There /\ devices' = [devices EXCEPT ![r] = Created(w)]
        BY <1>2, <2>1, ServeCases
      <3>2. devices[r] = Unborn
        BY <3>1 DEF There
      <3>3. /\ Created(w) \in Recs /\ Created(w).kind \in Kinds
            /\ \A s \in Section : Created(w).val[s] \in {w.val[s], Blank}
        BY <2>w, CreatedRec
      <3>4. w.row = None
        <4>1. w.st = "sent"
          BY <1>2 DEF Serve
        <4> QED
          BY <2>w, <2>1, <4>1 DEF WriteOk, Writes
      <3>5. Owned(Created(w).val, r)
        BY <2>w, <2>1, <3>3, <3>4, ValueFacts DEF WriteOk, Owned
      <3>6. devices[r].tables \subseteq Created(w).tables
        BY <3>2, UnbornRec
      <3> QED
        BY <1>s, <3>1, <3>3, <3>5, <3>6
    <2>2. CASE w.op \notin {"create", "blade"}
      <3>1. w.op \in {"update", "delete"} /\ w.row \in There /\ devices' = [devices EXCEPT ![w.row] = Changed(w)]
        BY <1>2, <2>2, ServeCases
      <3>2. w.row \in Device
        BY <3>1 DEF There
      <3>3. \A s \in Section : Changed(w).val[s] \in {devices[w.row].val[s], Off}
                               \/ (w.op # "delete" /\ Changed(w).val[s] = w.val[s])
        BY <2>w, <3>1, ChangedRec
      <3>4. Owned(devices[w.row].val, w.row) /\ (w.op # "delete" => Owned(w.val, w.row))
        BY <2>w, <3>2 DEF Server, WriteOk
      <3>5. Owned(Changed(w).val, w.row)
        BY <3>3, <3>4, ValueFacts DEF Owned
      <3>6. /\ Changed(w) \in Recs /\ Changed(w).kind \in Kinds
            /\ devices[w.row].tables \subseteq Changed(w).tables
        BY <2>w, <3>1, ChangedRec
      <3> QED
        BY <1>s, <3>1, <3>2, <3>5, <3>6
    <2> QED
      BY <2>1, <2>2
  <1>3. ASSUME NEW w \in writes, NEW t \in w.todo, ServeExtension(w, t)
        PROVE  devices' \in [Device -> Recs] /\ Server' /\ Grown
    <2>1. w \in Writes /\ WriteOk(w) /\ w.row \in There /\ w.row \in Device /\ t \in Extensions /\ w.op # "delete"
      BY <1>3, WriteHere, ExtensionHere DEF ServeExtension, There
    <2> DEFINE y == Upserted(devices[w.row], w, t)
    <2>2. devices' = [devices EXCEPT ![w.row] = y]
      BY <1>3, <1>t, <2>1 DEF ServeExtension
    <2>3. /\ y \in Recs /\ y.kind \in Kinds /\ devices[w.row].tables \subseteq y.tables
          /\ \A s \in Section : y.val[s] \in {devices[w.row].val[s], w.val[s], Blank}
      BY <2>1, UpsertedRec
    <2>4. Owned(devices[w.row].val, w.row) /\ Owned(w.val, w.row)
      BY <2>1 DEF Server, WriteOk
    <2> HIDE DEF y
    <2>5. Owned(y.val, w.row)
      BY <2>3, <2>4, ValueFacts DEF Owned
    <2> QED
      BY <1>s, <2>1, <2>2, <2>3, <2>5
  <1> QED
    BY <1>1, <1>2, <1>3, DeviceSteps DEF vars
-----------------------------------------------------------------------------
(* The caches *)

LEMMA CacheSteps ==
  ASSUME Next
  PROVE  \/ UNCHANGED <<list, detail>> \/ ListServed \/ ListLands \/ Refocus
         \/ \E r \in Device : OpenEdit(r) \/ DetailServed(r) \/ DetailLands(r)
         \/ \E w \in writes : Done(w)
  <1>1. CASE OpenCreate \/ Close \/ Save \/ CancelDelete \/ ConfirmDelete
    BY <1>1 DEF OpenCreate, Close, Save, CancelDelete, ConfirmDelete
  <1>2. CASE OpenBlade \/ CancelBlade \/ AddBlade
    BY <1>2 DEF OpenBlade, CancelBlade, AddBlade
  <1>3. ASSUME NEW r \in Device, AskDelete(r) PROVE UNCHANGED <<list, detail>>
    BY <1>3 DEF AskDelete
  <1>4. ASSUME NEW s \in Section, Type(s) PROVE UNCHANGED <<list, detail>>
    BY <1>4 DEF Type
  <1>5. ASSUME NEW k \in Kinds, SwitchKind(k) PROVE UNCHANGED <<list, detail>>
    BY <1>5 DEF SwitchKind
  <1>6. ASSUME NEW w \in writes, Serve(w) \/ Fail(w) \/ SendExtensions(w) \/ Saved(w)
        PROVE  UNCHANGED <<list, detail>>
    BY <1>6 DEF Serve, Fail, SendExtensions, Saved
  <1>7. ASSUME NEW w \in writes, NEW t \in w.todo, ServeExtension(w, t) \/ FailExtension(w, t)
        PROVE  UNCHANGED <<list, detail>>
    BY <1>7 DEF ServeExtension, FailExtension
  <1> QED
    BY <1>1, <1>2, <1>3, <1>4, <1>5, <1>6, <1>7, Steps

LEMMA ListFields ==
  ASSUME Types
  PROVE  /\ list \in Lists /\ list.data \in [Device -> Recs]
         /\ list.snap \in [Device -> Recs]
  BY DEF Types, Lists

\* Read of a device is what may be told of it.
LEMMA ListingTold ==
  ASSUME Types, Server, NEW r \in Device
  PROVE  Told(Listing[r], r)
  <1>1. CASE Listing[r] = Unborn
    BY <1>1, UnbornRec DEF Told
  <1>2. CASE Listing[r] = Read(r)
    <2>1. Owned(devices[r].val, r)
      BY DEF Server
    <2>2. Owned(Read(r).val, r)
      BY <2>1, ReadRec, ValueFacts DEF Owned
    <2> QED
      BY <1>2, <2>2, ReadRec DEF Told
  <1> QED
    BY <1>1, <1>2, ListingRecs

LEMMA ListStep ==
  ASSUME Types, Server, ListOk, Grown, [Next]_vars
  PROVE  list' \in Lists /\ ListOk'
  <1>l. /\ list \in Lists /\ list.data \in [Device -> Recs] /\ list.snap \in [Device -> Recs]
    BY ListFields
  <1>t. ASSUME NEW x, NEW r \in Device, Told(x, r)
        PROVE  /\ x # Unborn => r \in There'
               /\ Owned(x.val, r) /\ \A s \in Section \cap Secret : x.val[s] = Blank
    BY <1>t DEF Told, Grown
  <1>k. ASSUME list'.data = list.data, list'.snap = list.snap PROVE ListOk'
    BY <1>k, <1>t DEF ListOk, Told
  <1>f. ASSUME NEW ids \in SUBSET (1..MaxWork)
        PROVE  /\ Fetch(list, ids) \in Lists /\ Fetch(list, ids).data = list.data
               /\ Fetch(list, ids).snap = list.snap
    BY <1>l DEF Fetch, Lists
  <1>1. CASE ListServed
    <2>1. list' = [list EXCEPT !.st = "served", !.snap = Listing] /\ devices' = devices
      BY <1>1 DEF ListServed
    <2>2. Listing \in [Device -> Recs]
      BY ListingRecs
    <2>3. list' \in Lists /\ list'.data = list.data /\ list'.snap = Listing
      BY <1>l, <2>1, <2>2 DEF Lists
    <2>4. \A r \in Device : Told(list.data[r], r) /\ Told(Listing[r], r)
      BY ListingTold DEF ListOk
    <2> QED
      BY <1>t, <2>3, <2>4 DEF ListOk, Told
  <1>2. CASE ListLands
    <2>1. /\ list' = [st |-> "idle", by |-> {}, has |-> TRUE, data |-> list.snap, snap |-> NoDevices]
      BY <1>2 DEF ListLands
    <2>2. NoDevices \in [Device -> Recs] /\ \A r \in Device : NoDevices[r] = Unborn
      BY UnbornRec DEF NoDevices
    <2>3. list' \in Lists /\ list'.data = list.snap /\ list'.snap = NoDevices
      BY <1>l, <2>1, <2>2 DEF Lists
    <2>4. \A r \in Device : Told(list.snap[r], r) /\ Told(NoDevices[r], r)
      BY <2>2, UnbornRec DEF ListOk, Told
    <2> QED
      BY <1>t, <2>3, <2>4 DEF ListOk, Told
  <1>3. CASE Refocus
    <2>1. list' = list \/ list' = Fetch(list, {})
      BY <1>3 DEF Refocus
    <2> QED
      BY <1>l, <1>k, <1>f, <2>1
  <1>4. ASSUME NEW w \in writes, Done(w) PROVE list' \in Lists /\ ListOk'
    <2>1. w.id \in 1..MaxWork
      BY DEF Types, Writes
    <2>2. list' = Refetch(list, list.has, w.id)
      BY <1>4 DEF Done, Invalidate
    <2>3. CASE Busy(list) /\ ~list.has
      <3>1. list' = [list EXCEPT !.by = list.by \cup {w.id}]
        BY <1>l, <2>2, <2>3 DEF Refetch, Lists
      <3>2. list' \in Lists /\ list'.data = list.data /\ list'.snap = list.snap
        BY <1>l, <2>1, <3>1 DEF Lists
      <3> QED
        BY <1>k, <3>2
    <2>4. CASE ~(Busy(list) /\ ~list.has)
      <3>1. list' = Fetch(list, {w.id}) /\ {w.id} \in SUBSET (1..MaxWork)
        BY <2>1, <2>2, <2>4 DEF Refetch
      <3> QED
        BY <1>k, <1>f, <3>1
    <2> QED
      BY <2>3, <2>4
  <1>5. ASSUME NEW r \in Device, OpenEdit(r) \/ DetailServed(r) \/ DetailLands(r)
        PROVE  list' = list
    BY <1>5 DEF OpenEdit, DetailServed, DetailLands
  <1>6. list' = list => list' \in Lists /\ ListOk'
    BY <1>l, <1>k
  <1> QED
    BY <1>1, <1>2, <1>3, <1>4, <1>5, <1>6, CacheSteps DEF vars

\* A fetch begins, or a cached detail is marked: what is cached stays.
LEMMA DetailKept ==
  ASSUME DetailOk, Grown,
         \A r \in Device : /\ detail'[r].data = detail[r].data /\ detail'[r].snap = detail[r].snap
                           /\ detail'[r].st = "served" => detail[r].st = "served"
  PROVE  DetailOk'
  BY DEF DetailOk, Grown

LEMMA DetailFetch ==
  ASSUME Types, DetailOk, Grown, NEW r \in Device, detail' = [detail EXCEPT ![r] = Fetch(@, {})]
  PROVE  /\ detail' \in [Device -> Details] /\ DetailOk'
         /\ \A q \in Device : detail'[q].data = detail[q].data
  <1>1. detail \in [Device -> Details] /\ {} \in SUBSET (1..MaxWork)
    BY DEF Types
  <1>2. PICK y \in Details : /\ y = Fetch(detail[r], {}) /\ y.st = "sent"
                             /\ y.data = detail[r].data /\ y.snap = detail[r].snap
    BY <1>1, FetchMade
  <1>3. detail' = [detail EXCEPT ![r] = y]
    BY <1>1, <1>2
  <1>4. detail' \in [Device -> Details] /\ \A q \in Device : detail'[q] = IF q = r THEN y ELSE detail[q]
    BY <1>1, <1>3
  <1>5. \A q \in Device : /\ detail'[q].data = detail[q].data /\ detail'[q].snap = detail[q].snap
                          /\ detail'[q].st = "served" => detail[q].st = "served"
    BY <1>2, <1>4
  <1> QED
    BY <1>4, <1>5, DetailKept

LEMMA DetailInvalidate ==
  ASSUME Types, DetailOk, Grown, NEW w \in writes, Done(w)
  PROVE  /\ detail' \in [Device -> Details] /\ DetailOk'
         /\ \A q \in Device : detail'[q].data = detail[q].data
  <1>1. detail \in [Device -> Details] /\ w.id \in 1..MaxWork
    BY DEF Types, Writes
  <1>2. detail' = [r \in Device |-> IF r = dialog.row
                                    THEN Refetch([detail[r] EXCEPT !.stale = TRUE], detail[r].data # Unborn, w.id)
                                    ELSE [detail[r] EXCEPT !.stale = detail[r].data # Unborn]]
    BY DEF Done, Invalidate
  <1>3. ASSUME NEW r \in Device
        PROVE  /\ detail'[r] \in Details
               /\ detail'[r].data = detail[r].data /\ detail'[r].snap = detail[r].snap
               /\ detail'[r].st = "served" => detail[r].st = "served"
    <2>1. detail[r] \in Details
      BY <1>1
    <2>2. CASE r = dialog.row
      <3>1. PICK x \in Details : /\ x = [detail[r] EXCEPT !.stale = TRUE]
                                 /\ x.data = detail[r].data /\ x.snap = detail[r].snap
                                 /\ x.st = detail[r].st
        <4>1. [detail[r] EXCEPT !.stale = TRUE] \in Details
          BY <2>1 DEF Details
        <4> QED
          BY <2>1, <4>1 DEF Details
      <3>2. PICK has \in BOOLEAN : has = (detail[r].data # Unborn)
        OBVIOUS
      <3>3. detail'[r] = Refetch(x, has, w.id)
        BY <1>2, <2>2, <3>1, <3>2
      <3>4. /\ Refetch(x, has, w.id) \in Details /\ Refetch(x, has, w.id).st \in {"sent", x.st}
            /\ Refetch(x, has, w.id).data = x.data /\ Refetch(x, has, w.id).snap = x.snap
        BY <1>1, RefetchMade
      <3> QED
        BY <3>1, <3>3, <3>4
    <2>3. CASE r # dialog.row
      <3>1. PICK b \in BOOLEAN : b = (detail[r].data # Unborn)
        OBVIOUS
      <3>2. detail'[r] = [detail[r] EXCEPT !.stale = b]
        BY <1>2, <2>3, <3>1
      <3> QED
        BY <2>1, <3>2 DEF Details
    <2> QED
      BY <2>2, <2>3
  <1>4. detail' \in [Device -> Details]
    BY <1>2, <1>3
  <1> QED
    BY <1>3, <1>4, DetailKept

LEMMA DetailReads ==
  ASSUME Types, Server, DetailOk, Grown, NEW r \in Device, DetailServed(r)
  PROVE  /\ detail' \in [Device -> Details] /\ DetailOk'
         /\ \A q \in Device : detail'[q].data = detail[q].data
  <1>1. detail \in [Device -> Details] /\ detail[r] \in Details /\ Read(r) \in Recs
    BY ReadRec DEF Types
  <1>2. PICK y \in Details : /\ y = [detail[r] EXCEPT !.st = "served", !.snap = Read(r)]
                             /\ y.data = detail[r].data /\ y.snap = Read(r)
    <2>1. [detail[r] EXCEPT !.st = "served", !.snap = Read(r)] \in Details
      BY <1>1 DEF Details
    <2> QED
      BY <1>1, <2>1 DEF Details
  <1>3. detail' = [detail EXCEPT ![r] = y]
    BY <1>1, <1>2 DEF DetailServed
  <1>4. detail' \in [Device -> Details] /\ \A q \in Device : detail'[q] = IF q = r THEN y ELSE detail[q]
    BY <1>1, <1>3
  <1>5. Owned(Read(r).val, r) /\ Read(r).tables = devices[r].tables
    BY ReadRec, ValueFacts DEF Server, Owned
  <1>6. devices' = devices
    BY DEF DetailServed
  <1>7. ASSUME NEW q \in Device
        PROVE  /\ Owned(detail'[q].data.val, q) /\ Owned(detail'[q].snap.val, q)
               /\ detail'[q].data.tables \subseteq devices[q].tables
               /\ detail'[q].st = "served" => /\ detail'[q].data.tables \subseteq detail'[q].snap.tables
                                               /\ detail'[q].snap.tables \subseteq devices[q].tables
    <2>1. CASE q = r
      BY <1>2, <1>4, <1>5, <2>1 DEF DetailOk
    <2>2. CASE q # r
      BY <1>4, <2>2 DEF DetailOk
    <2> QED
      BY <2>1, <2>2
  <1> QED
    BY <1>2, <1>4, <1>6, <1>7 DEF DetailOk

LEMMA DetailArrives ==
  ASSUME Types, DetailOk, NEW r \in Device, DetailLands(r)
  PROVE  /\ detail' \in [Device -> Details] /\ DetailOk'
         /\ detail'[r].data = detail[r].snap /\ detail[r].data.tables \subseteq detail[r].snap.tables
         /\ \A q \in Device \ {r} : detail'[q].data = detail[q].data
  <1>1. /\ detail \in [Device -> Details] /\ detail[r].snap \in Recs /\ {} \in SUBSET (1..MaxWork)
        /\ detail[r].st = "served" /\ devices' = devices
    BY DetailFields DEF Types, DetailLands
  <1>u. Unborn \in Recs
    BY UnbornRec
  <1>y. [Unasked EXCEPT !.data = detail[r].snap] \in Details
    BY <1>1, <1>u DEF Details, Unasked
  <1>2. PICK y \in Details : /\ y = [Unasked EXCEPT !.data = detail[r].snap]
                             /\ y.data = detail[r].snap /\ y.snap = Unborn /\ y.st = "idle"
    BY <1>y DEF Unasked
  <1>3. detail' = [detail EXCEPT ![r] = y]
    BY <1>1, <1>2 DEF DetailLands
  <1>4. detail' \in [Device -> Details] /\ \A q \in Device : detail'[q] = IF q = r THEN y ELSE detail[q]
    BY <1>1, <1>3
  <1>5. ASSUME NEW q \in Device
        PROVE  /\ Owned(detail'[q].data.val, q) /\ Owned(detail'[q].snap.val, q)
               /\ detail'[q].data.tables \subseteq devices[q].tables
               /\ detail'[q].st = "served" => /\ detail'[q].data.tables \subseteq detail'[q].snap.tables
                                               /\ detail'[q].snap.tables \subseteq devices[q].tables
    <2>1. CASE q = r
      BY <1>1, <1>2, <1>4, <2>1, UnbornRec DEF DetailOk
    <2>2. CASE q # r
      BY <1>4, <2>2 DEF DetailOk
    <2> QED
      BY <2>1, <2>2
  <1>6. DetailOk'
    BY <1>1, <1>5 DEF DetailOk
  <1> QED
    BY <1>1, <1>2, <1>4, <1>6 DEF DetailOk

LEMMA DetailStep ==
  ASSUME Types, Server, DetailOk, Grown, [Next]_vars
  PROVE  detail' \in [Device -> Details] /\ DetailOk'
  <1>1. CASE detail' = detail
    <2>1. detail' \in [Device -> Details]
      BY <1>1 DEF Types
    <2> QED
      BY <1>1, <2>1, DetailKept
  <1>2. CASE Refocus
    BY <1>1, <1>2, DetailFetch DEF Refocus
  <1>3. ASSUME NEW r \in Device, OpenEdit(r) \/ DetailServed(r) \/ DetailLands(r)
        PROVE  detail' \in [Device -> Details] /\ DetailOk'
    <2>1. CASE OpenEdit(r)
      BY <1>1, <2>1, DetailFetch DEF OpenEdit
    <2>2. CASE DetailServed(r) \/ DetailLands(r)
      BY <2>2, DetailReads, DetailArrives
    <2> QED
      BY <1>3, <2>1, <2>2
  <1>4. CASE ListServed \/ ListLands
    BY <1>1, <1>4 DEF ListServed, ListLands
  <1> QED
    BY <1>1, <1>2, <1>3, <1>4, CacheSteps, DetailInvalidate DEF vars
-----------------------------------------------------------------------------
(* The dialogs *)

LEMMA DialogSteps ==
  ASSUME Next
  PROVE  \/ UNCHANGED <<dialog, blade>> /\ asking' \in {asking, None}
         \/ OpenCreate \/ Close \/ OpenBlade \/ CancelBlade
         \/ \E r \in Device : OpenEdit(r) \/ AskDelete(r) \/ DetailLands(r)
         \/ \E s \in Section : Type(s)
         \/ \E k \in Kinds : SwitchKind(k)
         \/ \E w \in writes : Saved(w) /\ Finish(w)
  <1> DEFINE Same == UNCHANGED <<dialog, blade>> /\ asking' \in {asking, None}
  <1>1. CASE Save \/ CancelDelete \/ ConfirmDelete \/ AddBlade \/ ListServed \/ ListLands \/ Refocus
    BY <1>1 DEF Save, CancelDelete, ConfirmDelete, AddBlade, ListServed, ListLands, Refocus
  <1>2. ASSUME NEW r \in Device, DetailServed(r) PROVE Same
    BY <1>2 DEF DetailServed
  <1>3. ASSUME NEW w \in writes, Serve(w) \/ Fail(w) \/ Done(w) \/ SendExtensions(w)
        PROVE  Same
    BY <1>3 DEF Serve, Fail, Done, SendExtensions
  <1>4. ASSUME NEW w \in writes, NEW t \in w.todo, ServeExtension(w, t) \/ FailExtension(w, t)
        PROVE  Same
    BY <1>4 DEF ServeExtension, FailExtension
  <1>5. ASSUME NEW w \in writes, Saved(w) PROVE Same \/ (Saved(w) /\ Finish(w))
    BY <1>5 DEF Saved
  <1> HIDE DEF Same
  <1>6. \/ Same
        \/ OpenCreate \/ Close \/ OpenBlade \/ CancelBlade
        \/ \E r \in Device : OpenEdit(r) \/ AskDelete(r) \/ DetailLands(r)
        \/ \E s \in Section : Type(s)
        \/ \E k \in Kinds : SwitchKind(k)
        \/ \E w \in writes : Saved(w) /\ Finish(w)
    <2>1. CASE Save \/ CancelDelete \/ ConfirmDelete \/ AddBlade \/ ListServed \/ ListLands \/ Refocus
      BY <1>1, <2>1 DEF Same
    <2> QED
      BY <1>2, <1>3, <1>4, <1>5, <2>1, Steps
  <1> QED
    BY <1>6 DEF Same

\* What openEdit shows.
LEMMA FormMade ==
  ASSUME Types, ListOk, DetailOk, NEW r \in Device
  PROVE  /\ list.data[r] \in Recs /\ Populated(r) \in Values /\ Owned(Populated(r), r)
         /\ Untouched(Populated(r), {}, FALSE, list.data[r], detail[r].data)
  <1> DEFINE x == list.data[r]
             y == detail[r].data
             f == FormOf(r)
  <1>1. x \in Recs /\ y \in Recs /\ x.val \in Values /\ y.val \in Values /\ Clean(y)
        /\ y.tables \in SUBSET Extensions
    BY ListFields, DetailFields, RecFields
  <1>2. /\ f \in Values
        /\ \A s \in Section : f[s] = InForm(s, IF s \in BaseSections THEN x.val[s] ELSE Blank)
    <2>1. \A s \in Section : (IF s \in BaseSections THEN x.val[s] ELSE Blank) \in Value
      BY <1>1, ValueFacts DEF Values
    <2> QED
      BY <2>1, Shows DEF FormOf, Values
  <1>3. Populated(r) = Filled(f, y)
    BY DEF Populated
  <1> HIDE DEF f
  <1>4. /\ Filled(f, y) \in Values
        /\ \A s \in Section : Filled(f, y)[s] \in {f[s], InForm(s, y.val[s])}
        /\ \A s \in Section \cap BaseSections : Filled(f, y)[s] = f[s]
    BY <1>1, <1>2, FilledValues
  <1>5. Owned(x.val, r) /\ Owned(y.val, r) /\ \A s \in Section \cap Secret : x.val[s] = Blank
    BY DEF ListOk, Told, DetailOk
  <1>6. Owned(Filled(f, y), r)
    <2> SUFFICES ASSUME NEW s \in Section \ {"placement"} PROVE Filled(f, y)[s][1] \in {r, None}
      BY DEF Owned
    <2>1. x.val[s] \in Value /\ y.val[s] \in Value /\ x.val[s][1] \in {r, None} /\ y.val[s][1] \in {r, None}
      BY <1>1, <1>5 DEF Values, Owned
    <2>2. PICK v \in Value : v[1] \in {r, None} /\ Filled(f, y)[s] = InForm(s, v)
      BY <1>2, <1>4, <2>1, ValueFacts
    <2> QED
      BY <2>2, Shows
  <1>7. \A s \in Section \cap ExtSections : Filled(f, y)[s] = InForm(s, y.val[s])
    <2> TAKE s \in Section \cap ExtSections
    <2>1. s \notin BaseSections
      BY Sections
    <2>2. f[s] = InForm(s, Blank)
      BY <1>2, <2>1
    <2> QED
      BY <1>1, <2>2 DEF Filled, Clean
  <1> QED
    BY <1>1, <1>2, <1>3, <1>4, <1>5, <1>6, <1>7 DEF Untouched

LEMMA DialogType ==
  ASSUME Types, ListOk, DetailOk, [Next]_vars
  PROVE  dialog' \in Dialogs /\ blade' \in BOOLEAN
  <1>d. dialog \in Dialogs /\ blade \in BOOLEAN /\ dialog.val \in Values /\ dialog.typed \in SUBSET Section
        /\ dialog.asked \in Device \cup {None}
    BY DEF Types, Dialogs
  <1>1. CASE UNCHANGED <<dialog, blade>>
    BY <1>d, <1>1
  <1>2. CASE OpenCreate
    <2>1. /\ "server" \in Kinds /\ Unborn \in Recs /\ EmptyForm \in Values /\ None \in Device \cup {None}
          /\ {} \in SUBSET Section
      BY KindFacts, UnbornRec, EmptyMade
    <2>2. dialog' = Dialog(None, "server", EmptyForm, Unborn) /\ blade' = blade
      BY <1>2 DEF OpenCreate
    <2>3. Dialog(None, "server", EmptyForm, Unborn) \in Dialogs
      BY <2>1 DEF Dialog, Dialogs
    <2> QED
      BY <1>d, <2>2, <2>3
  <1>3. CASE Close
    BY <1>d, <1>3, ShutMade DEF Close
  <1>4. CASE OpenBlade \/ CancelBlade
    BY <1>d, <1>4 DEF OpenBlade, CancelBlade
  <1>5. ASSUME NEW r \in Device, OpenEdit(r) PROVE dialog' \in Dialogs /\ blade' \in BOOLEAN
    <2>1. /\ dialog' = Dialog(r, list.data[r].kind, Populated(r), list.data[r]) /\ blade' = blade
          /\ list.data[r] # Unborn
      BY <1>5 DEF OpenEdit
    <2>2. list.data[r] \in Recs /\ Populated(r) \in Values
      BY FormMade
    <2>3. list.data[r].kind \in Kinds
      BY <2>1, <2>2, RecFields
    <2> QED
      BY <1>d, <2>1, <2>2, <2>3, DialogMade
  <1>6. ASSUME NEW r \in Device, DetailLands(r) PROVE dialog' \in Dialogs /\ blade' \in BOOLEAN
    <2>1. Filled(dialog.val, detail[r].snap) \in Values
      BY <1>d, DetailFields, FilledValues
    <2>2. dialog' = dialog \/ dialog' = [dialog EXCEPT !.val = Filled(dialog.val, detail[r].snap)]
      BY <1>6 DEF DetailLands
    <2> QED
      BY <1>d, <1>6, <2>1, <2>2 DEF DetailLands, Dialogs
  <1>7. ASSUME NEW s \in Section, Type(s) PROVE dialog' \in Dialogs /\ blade' \in BOOLEAN
    <2> DEFINE v == [dialog.val EXCEPT ![s] = Typed(dialog.asked)]
               ts == dialog.typed \cup {s}
    <2>1. v \in Values /\ ts \in SUBSET Section
      BY <1>d, ValueFacts DEF Values
    <2>2. dialog' = [dialog EXCEPT !.val = v, !.typed = ts] /\ blade' = blade
      BY <1>d, <1>7 DEF Type, Dialogs
    <2> HIDE DEF v, ts
    <2>3. dialog' \in Dialogs
      BY <1>d, <2>1, <2>2 DEF Dialogs
    <2> QED
      BY <1>d, <2>2, <2>3
  <1>8. ASSUME NEW k \in Kinds, SwitchKind(k) PROVE dialog' \in Dialogs /\ blade' \in BOOLEAN
    <2> DEFINE v == [s \in Section |-> IF s \in BaseSections THEN dialog.val[s] ELSE EmptyForm[s]]
    <2>1. v \in Values
      BY <1>d, EmptyMade DEF Values
    <2>2. dialog' = [dialog EXCEPT !.kind = k, !.reset = TRUE, !.val = v]
      BY <1>8 DEF SwitchKind
    <2> HIDE DEF v
    <2> QED
      BY <1>d, <1>8, <2>1, <2>2 DEF SwitchKind, Dialogs
  <1>9. ASSUME NEW w \in writes, Finish(w) PROVE dialog' \in Dialogs /\ blade' \in BOOLEAN
    BY <1>d, <1>9, ShutMade DEF Finish
  <1>10. ASSUME NEW r \in Device, AskDelete(r) PROVE UNCHANGED <<dialog, blade>>
    BY <1>10 DEF AskDelete
  <1> QED
    BY <1>1, <1>2, <1>3, <1>4, <1>5, <1>6, <1>7, <1>8, <1>9, <1>10, DialogSteps DEF vars

LEMMA AskingType ==
  ASSUME Types, [Next]_vars
  PROVE  asking' \in Device \cup {None}
  <1>d. asking \in Device \cup {None}
    BY DEF Types
  <1>1. CASE UNCHANGED vars
    BY <1>d, <1>1 DEF vars
  <1>2. CASE OpenCreate \/ Close \/ OpenBlade \/ CancelBlade
    BY <1>d, <1>2 DEF OpenCreate, Close, OpenBlade, CancelBlade
  <1>3. ASSUME NEW r \in Device, OpenEdit(r) \/ AskDelete(r) \/ DetailLands(r)
        PROVE  asking' \in Device \cup {None}
    BY <1>d, <1>3 DEF OpenEdit, AskDelete, DetailLands
  <1>4. ASSUME NEW s \in Section, Type(s) PROVE asking' = asking
    BY <1>4 DEF Type
  <1>5. ASSUME NEW k \in Kinds, SwitchKind(k) PROVE asking' = asking
    BY <1>5 DEF SwitchKind
  <1>6. ASSUME NEW w \in writes, Finish(w) PROVE asking' \in {asking, None}
    BY <1>6 DEF Finish
  <1> QED
    BY <1>d, <1>1, <1>2, <1>3, <1>4, <1>5, <1>6, DialogSteps

LEMMA DialogsStep ==
  ASSUME Types, ListOk, DetailOk, DialogsOk, Grown, [Next]_vars
  PROVE  DialogsOk'
  <1>d. /\ dialog \in Dialogs /\ dialog.row \in There \cup {None} /\ asking \in There \cup {None}
        /\ blade => BladesShown(dialog)
    BY DEF Types, DialogsOk
  <1>g. \A r \in There \cup {None} : r \in There' \cup {None}
    BY DEF Grown, There
  <1>k. ASSUME dialog'.row = dialog.row, asking' \in {asking, None}, blade' => BladesShown(dialog')
        PROVE  DialogsOk'
    BY <1>d, <1>g, <1>k DEF DialogsOk
  <1>n. ~dialog.open => ~blade
    BY <1>d DEF BladesShown
  <1>1. CASE UNCHANGED <<dialog, blade>> /\ asking' \in {asking, None}
    BY <1>1, <1>d, <1>k
  <1>2. CASE OpenCreate
    <2>1. dialog'.row = None
      BY <1>2 DEF OpenCreate, Dialog
    <2>2. ~blade' /\ asking' = asking
      BY <1>2, <1>n DEF OpenCreate, Free, Uncovered
    <2> QED
      BY <1>d, <1>g, <2>1, <2>2 DEF DialogsOk
  <1>3. CASE Close
    BY <1>3, <1>d, <1>k, ShutMade DEF Close
  <1>4. CASE OpenBlade \/ CancelBlade
    BY <1>4, <1>d, <1>k DEF OpenBlade, CancelBlade
  <1>5. ASSUME NEW r \in Device, OpenEdit(r) PROVE DialogsOk'
    <2>1. /\ dialog' = Dialog(r, list.data[r].kind, Populated(r), list.data[r])
          /\ list.data[r] # Unborn /\ ~dialog.open /\ blade' = blade /\ asking' = asking
      BY <1>5 DEF OpenEdit, Free, Uncovered
    <2>2. dialog'.row = r
      BY <2>1 DEF Dialog
    <2>3. r \in There
      BY <2>1 DEF ListOk, Told
    <2> QED
      BY <1>d, <1>g, <1>n, <2>1, <2>2, <2>3 DEF DialogsOk
  <1>6. ASSUME NEW r \in Device, AskDelete(r) PROVE DialogsOk'
    <2>1. asking' = r /\ r \in There /\ UNCHANGED <<dialog, blade>>
      BY <1>6 DEF AskDelete, ListOk, Told
    <2> QED
      BY <1>d, <1>g, <2>1 DEF DialogsOk
  <1>7. ASSUME NEW r \in Device, DetailLands(r) PROVE DialogsOk'
    <2>1. UNCHANGED <<blade, asking>>
      BY <1>7 DEF DetailLands
    <2>2. dialog'.open = dialog.open /\ dialog'.row = dialog.row /\ dialog'.kind = dialog.kind
      BY <1>d, <1>7 DEF DetailLands, Dialogs
    <2> QED
      BY <1>d, <1>k, <2>1, <2>2 DEF BladesShown
  <1>8. ASSUME NEW s \in Section, Type(s) PROVE DialogsOk'
    <2>1. UNCHANGED <<blade, asking>> /\ ~blade
      BY <1>8 DEF Type
    <2>2. dialog'.row = dialog.row
      BY <1>d, <1>8 DEF Type, Dialogs
    <2> QED
      BY <1>k, <2>1, <2>2
  <1>9. ASSUME NEW k \in Kinds, SwitchKind(k) PROVE DialogsOk'
    <2>1. UNCHANGED <<blade, asking>> /\ ~blade
      BY <1>9 DEF SwitchKind
    <2>2. dialog'.row = dialog.row
      BY <1>d, <1>9 DEF SwitchKind, Dialogs
    <2> QED
      BY <1>k, <2>1, <2>2
  <1>10. ASSUME NEW w \in writes, Finish(w) PROVE DialogsOk'
    BY <1>10, <1>d, <1>k, ShutMade DEF Finish
  <1> QED
    BY <1>1, <1>2, <1>3, <1>4, <1>5, <1>6, <1>7, <1>8, <1>9, <1>10, DialogSteps DEF vars

\* Only what lands changes a cached detail.
LEMMA DataSteps ==
  ASSUME Types, Server, DetailOk, Grown, [Next]_vars, \A r \in Device : ~DetailLands(r)
  PROVE  \A q \in Device : detail'[q].data = detail[q].data
  <1>1. CASE detail' = detail
    BY <1>1
  <1>2. CASE Refocus
    BY <1>1, <1>2, DetailFetch DEF Refocus
  <1>3. ASSUME NEW r \in Device, OpenEdit(r)
        PROVE  \A q \in Device : detail'[q].data = detail[q].data
    BY <1>1, <1>3, DetailFetch DEF OpenEdit
  <1>4. CASE ListServed \/ ListLands
    BY <1>1, <1>4 DEF ListServed, ListLands
  <1> QED
    BY <1>1, <1>2, <1>3, <1>4, CacheSteps, DetailReads, DetailInvalidate DEF vars

\* What arrives for the device in the dialog fills its form, but not what was
\* typed or blanked.
LEMMA FormFilled ==
  ASSUME Types, DetailOk, FormOk, NEW r \in Device, DetailLands(r)
  PROVE  FormOk'
  <1>1. /\ detail'[r].data = detail[r].snap /\ detail[r].data.tables \subseteq detail[r].snap.tables
        /\ \A q \in Device \ {r} : detail'[q].data = detail[q].data
    BY DetailArrives
  <1>2. dialog \in Dialogs /\ dialog.val \in Values /\ dialog.row \in Device \cup {None}
    BY DEF Types, Dialogs
  <1>0. DetailLands(r) =>
          dialog' = IF dialog.open /\ dialog.row = r /\ detail[r].snap # detail[r].data
                    THEN [dialog EXCEPT !.val = Filled(dialog.val, detail[r].snap)] ELSE dialog
    BY DEF DetailLands
  <1>3. CASE ~(dialog.open /\ dialog.row = r /\ detail[r].snap # detail[r].data)
    <2>1. dialog' = dialog
      BY <1>0, <1>3
    <2>2. dialog.open /\ dialog.row # None => detail'[dialog.row].data = detail[dialog.row].data
      BY <1>1, <1>2, <1>3
    <2> QED
      BY <2>1, <2>2 DEF FormOk
  <1>4. CASE dialog.open /\ dialog.row = r /\ detail[r].snap # detail[r].data
    <2> DEFINE y == detail[r].snap
               v == Filled(dialog.val, y)
    <2>1. dialog.open /\ dialog.row = r /\ dialog' = [dialog EXCEPT !.val = v]
      BY <1>0, <1>4
    <2>2. y \in Recs /\ Clean(y) /\ detail[r].data \in Recs /\ Clean(detail[r].data)
      BY DetailFields, RecFields
    <2>3. /\ v \in Values
          /\ \A s \in Section : v[s] \in {dialog.val[s], InForm(s, y.val[s])}
          /\ \A s \in Section \cap BaseSections : v[s] = dialog.val[s]
      BY <1>2, <2>2, FilledValues
    <2>4. Owned(dialog.val, r) /\ Owned(y.val, r) /\ dialog.asked = r
      BY <2>1 DEF FormOk, DetailOk
    <2>5. r # None
      BY DeviceAssumption
    <2>6. Untouched(dialog.val, dialog.typed, dialog.reset, dialog.base, detail[r].data)
      BY <2>1, <2>5 DEF FormOk
    <2>7. Owned(v, r)
      <3>1. y.val \in Values
        BY <2>2, RecFields
      <3>2. \A s \in Section \ {"placement"} : InForm(s, y.val[s])[1] \in {r, None}
        BY <2>4, <3>1, Shows DEF Owned, Values
      <3> QED
        BY <2>3, <2>4, <3>2 DEF Owned
    <2>8. ASSUME NEW s \in (Section \cap ExtSections) \ dialog.typed, ~dialog.reset
          PROVE  v[s] = InForm(s, y.val[s])
      <3>1. dialog.val[s] = InForm(s, detail[r].data.val[s])
        BY <2>6, <2>8 DEF Untouched
      <3>2. CASE \E t \in y.tables : s \in SectionsOf(t)
        BY <3>2 DEF Filled
      <3>3. CASE ~\E t \in y.tables : s \in SectionsOf(t)
        <4>1. y.val[s] = Blank /\ detail[r].data.val[s] = Blank
          BY <1>1, <2>2, <3>3 DEF Clean
        <4> QED
          BY <2>3, <3>1, <4>1
      <3> QED
        BY <3>2, <3>3
    <2> HIDE DEF v
    <2>9. Untouched(v, dialog.typed, dialog.reset, dialog.base, y)
      BY <2>3, <2>6, <2>8 DEF Untouched
    <2>10. /\ dialog'.open /\ dialog'.row = r /\ dialog'.asked = r /\ dialog'.val = v
           /\ dialog'.typed = dialog.typed /\ dialog'.reset = dialog.reset /\ dialog'.base = dialog.base
      BY <1>2, <2>1, <2>4 DEF Dialogs
    <2> QED
      BY <1>1, <2>7, <2>9, <2>10 DEF FormOk
  <1> QED
    BY <1>3, <1>4

LEMMA FormStep ==
  ASSUME Types, Server, ListOk, DetailOk, FormOk, Grown, [Next]_vars
  PROVE  FormOk'
  <1>d. /\ dialog \in Dialogs /\ dialog.val \in Values /\ dialog.row \in Device \cup {None}
        /\ dialog.asked \in Device \cup {None} /\ dialog.typed \in SUBSET Section
    BY DEF Types, Dialogs
  <1>1. ASSUME NEW r \in Device, DetailLands(r) PROVE FormOk'
    BY <1>1, FormFilled
  <1>2. ASSUME \A r \in Device : ~DetailLands(r) PROVE FormOk'
    <2>0. \A q \in Device : detail'[q].data = detail[q].data
      BY <1>2, DataSteps
    <2>1. CASE dialog' = dialog
      BY <1>d, <2>0, <2>1 DEF FormOk
    <2>2. CASE ~dialog'.open
      BY <2>2 DEF FormOk
    <2>3. CASE OpenCreate
      <3>1. dialog'.row = None /\ dialog'.asked = None /\ dialog'.val = EmptyForm
        BY <2>3 DEF OpenCreate, Dialog
      <3> QED
        BY <3>1, EmptyMade DEF FormOk
    <2>4. ASSUME NEW r \in Device, OpenEdit(r) PROVE FormOk'
      <3>1. dialog' = Dialog(r, list.data[r].kind, Populated(r), list.data[r])
        BY <2>4 DEF OpenEdit
      <3>2. /\ dialog'.row = r /\ dialog'.asked = r /\ dialog'.val = Populated(r)
            /\ dialog'.typed = {} /\ dialog'.reset = FALSE /\ dialog'.base = list.data[r]
        BY <3>1 DEF Dialog
      <3> QED
        BY <2>0, <3>2, FormMade DEF FormOk
    <2>5. ASSUME NEW s \in Section, Type(s) PROVE FormOk'
      <3>1. dialog.open /\ dialog.row = dialog.asked
        BY <2>5 DEF Type, FormOk
      <3>2. /\ dialog'.row = dialog.row /\ dialog'.asked = dialog.asked
            /\ dialog'.val = [dialog.val EXCEPT ![s] = Typed(dialog.row)]
            /\ dialog'.typed = dialog.typed \cup {s}
            /\ dialog'.reset = dialog.reset /\ dialog'.base = dialog.base
        BY <1>d, <2>5, <3>1 DEF Type, Dialogs
      <3>3. \A u \in Section : dialog'.val[u] = IF u = s THEN Typed(dialog.row) ELSE dialog.val[u]
        BY <1>d, <3>2 DEF Values
      <3>4. Owned(dialog'.val, dialog'.row)
        BY <1>d, <3>1, <3>2, <3>3, ValueFacts DEF Owned, FormOk
      <3>5. ASSUME dialog.row # None
            PROVE  Untouched(dialog'.val, dialog'.typed, dialog'.reset, dialog'.base, detail[dialog.row].data)
        BY <3>1, <3>2, <3>3, <3>5 DEF Untouched, FormOk
      <3> QED
        BY <1>d, <2>0, <3>1, <3>2, <3>4, <3>5 DEF FormOk
    <2>6. ASSUME NEW k \in Kinds, SwitchKind(k) PROVE FormOk'
      <3>1. dialog.open
        BY <2>6 DEF SwitchKind
      <3>2. /\ dialog'.row = dialog.row /\ dialog'.asked = dialog.asked
            /\ dialog'.val = [s \in Section |-> IF s \in BaseSections THEN dialog.val[s] ELSE EmptyForm[s]]
            /\ dialog'.typed = dialog.typed
            /\ dialog'.reset = TRUE /\ dialog'.base = dialog.base
        BY <1>d, <2>6 DEF SwitchKind, Dialogs
      <3>3. \A s \in Section : dialog'.val[s] = IF s \in BaseSections THEN dialog.val[s] ELSE EmptyForm[s]
        BY <3>2
      <3>4. Owned(dialog'.val, dialog'.row)
        BY <1>d, <3>1, <3>2, <3>3, EmptyMade DEF Owned, FormOk
      <3>5. ASSUME dialog.row # None
            PROVE  Untouched(dialog'.val, dialog'.typed, dialog'.reset, dialog'.base, detail[dialog.row].data)
        BY <3>1, <3>2, <3>3, <3>5 DEF Untouched, FormOk
      <3> QED
        BY <1>d, <2>0, <3>1, <3>2, <3>4, <3>5 DEF FormOk
    <2>7. CASE Close
      BY <1>d, <2>2, <2>7, ShutMade DEF Close
    <2>8. CASE OpenBlade \/ CancelBlade
      BY <2>1, <2>8 DEF OpenBlade, CancelBlade
    <2>9. ASSUME NEW r \in Device, AskDelete(r) PROVE FormOk'
      BY <2>1, <2>9 DEF AskDelete
    <2>10. ASSUME NEW w \in writes, Finish(w) PROVE FormOk'
      BY <1>d, <2>1, <2>2, <2>10, ShutMade DEF Finish
    <2> QED
      BY <1>2, <2>1, <2>3, <2>4, <2>5, <2>6, <2>7, <2>8, <2>9, <2>10, DialogSteps DEF vars
  <1> QED
    BY <1>1, <1>2
-----------------------------------------------------------------------------
(* The changes under way *)

LEMMA WriteSteps ==
  ASSUME Next
  PROVE  \/ writes' \subseteq writes \/ writes' = Orphaned(writes)
         \/ Save \/ ConfirmDelete \/ AddBlade
         \/ \E w \in writes : \/ Serve(w) \/ Done(w) \/ SendExtensions(w)
                              \/ writes' = Orphaned(writes \ {w})
                              \/ \E t \in w.todo : ServeExtension(w, t) \/ FailExtension(w, t)
  <1>1. CASE OpenCreate \/ Close \/ CancelDelete
    BY <1>1 DEF OpenCreate, Close, CancelDelete
  <1>2. CASE OpenBlade \/ CancelBlade \/ ListServed \/ ListLands \/ Refocus
    BY <1>2 DEF OpenBlade, CancelBlade, ListServed, ListLands, Refocus
  <1>3. ASSUME NEW r \in Device, OpenEdit(r) \/ AskDelete(r) \/ DetailServed(r) \/ DetailLands(r)
        PROVE  writes' = writes
    BY <1>3 DEF OpenEdit, AskDelete, DetailServed, DetailLands
  <1>4. ASSUME NEW s \in Section, Type(s) PROVE writes' = writes
    BY <1>4 DEF Type
  <1>5. ASSUME NEW k \in Kinds, SwitchKind(k) PROVE writes' = Orphaned(writes)
    BY <1>5 DEF SwitchKind
  <1>6. ASSUME NEW w \in writes, Fail(w) PROVE writes' \subseteq writes
    BY <1>6 DEF Fail
  <1>7. ASSUME NEW w \in writes, Saved(w) PROVE writes' \subseteq writes \/ writes' = Orphaned(writes \ {w})
    BY <1>7 DEF Saved, Finish
  <1> QED
    BY <1>1, <1>2, <1>3, <1>4, <1>5, <1>6, <1>7, Steps

\* What was sound stays so: devices do not disappear.
LEMMA WriteKept ==
  ASSUME Grown, NEW w \in Writes, WriteOk(w)
  PROVE  WriteOk(w)'
  <1>1. There \subseteq There'
    BY DEF Grown, There
  <1> QED
    BY <1>1 DEF WriteOk

LEMMA WritesKept ==
  ASSUME Types, WritesOk, Grown,
         \A v \in writes' : v \in writes \/ (v \in Writes /\ WriteOk(v)')
  PROVE  writes' \subseteq Writes /\ WritesOk'
  <1>1. ASSUME NEW v \in writes' PROVE v \in Writes /\ WriteOk(v)'
    BY <1>1, WriteHere, WriteKept
  <1> QED
    BY <1>1 DEF WritesOk

LEMMA WritesOrphaned ==
  ASSUME Types, WritesOk, Grown, NEW ws \in SUBSET writes, writes' = Orphaned(ws)
  PROVE  writes' \subseteq Writes /\ WritesOk'
  <1>1. ASSUME NEW v \in writes' PROVE v \in Writes /\ WriteOk(v)'
    BY <1>1, OrphanedOk, WriteKept
  <1> QED
    BY <1>1 DEF WritesOk

\* What handleSave, confirmDelete and handleAddBlade send.
LEMMA WriteMade ==
  ASSUME Types, work < MaxWork, NEW op \in {"create", "update", "delete", "blade"}
  PROVE  /\ Write(op) \in Writes
         /\ Write(op).op = op /\ Write(op).row = dialog.row /\ Write(op).asked = dialog.asked
         /\ Write(op).st = "sent" /\ Write(op).val = dialog.val /\ Write(op).seen = dialog.val
         /\ Write(op).typed = dialog.typed /\ Write(op).reset = dialog.reset
         /\ Write(op).base = dialog.base
         /\ Write(op).loaded = IF dialog.row = None THEN Unborn ELSE detail[dialog.row].data
  <1>1. /\ dialog.row \in Device \cup {None} /\ dialog.kind \in Kinds /\ dialog.val \in Values
        /\ dialog.asked \in Device \cup {None} /\ dialog.typed \in SUBSET Section
        /\ dialog.reset \in BOOLEAN /\ dialog.base \in Recs
    BY DEF Types, Dialogs
  <1>2. work + 1 \in 1..MaxWork
    BY DeviceAssumption DEF Types
  <1> DEFINE x == IF dialog.row = None THEN Unborn ELSE detail[dialog.row].data
             ts == ToExtension(dialog.kind)
             i == work + 1
  <1>3. x \in Recs
    BY <1>1, DetailFields, UnbornRec
  <1>4. ts \in SUBSET Extensions
    BY DEF ToExtension
  <1>5. Write(op) = [id |-> i, op |-> op, row |-> dialog.row, st |-> "sent", orphan |-> FALSE,
              kind |-> dialog.kind, val |-> dialog.val, todo |-> ts, bad |-> FALSE,
              asked |-> dialog.asked, seen |-> dialog.val, base |-> dialog.base,
              loaded |-> x, typed |-> dialog.typed, reset |-> dialog.reset]
    BY DEF Write
  <1>6. i \in 1..MaxWork
    BY <1>2
  <1> HIDE DEF x, ts, i
  <1>7. Write(op) \in Writes
    BY <1>1, <1>3, <1>4, <1>5, <1>6 DEF Writes
  <1> QED
    BY <1>5, <1>7 DEF x

LEMMA SaveWrites ==
  ASSUME Types, WritesOk, DialogsOk, FormOk, Grown, Save
  PROVE  writes' \subseteq Writes /\ WritesOk'
  <1> DEFINE op == IF dialog.row = None THEN "create" ELSE "update"
  <1>1. PICK v \in Writes :
          /\ v = Write(op) /\ v.op = op /\ v.row = dialog.row /\ v.asked = dialog.asked
          /\ v.st = "sent" /\ v.val = dialog.val /\ v.seen = dialog.val
          /\ v.typed = dialog.typed /\ v.reset = dialog.reset /\ v.base = dialog.base
          /\ v.loaded = IF dialog.row = None THEN Unborn ELSE detail[dialog.row].data
    <2>1. work < MaxWork /\ op \in {"create", "update", "delete", "blade"}
      BY DEF Save, Work
    <2> HIDE DEF op
    <2> QED
      BY <2>1, WriteMade
  <1>2. dialog.open /\ writes' = writes \cup {v}
    BY <1>1 DEF Save
  <1>3. /\ v.asked = v.row /\ Owned(v.val, v.row) /\ v.row \in There \cup {None}
        /\ v.row # None => Untouched(v.val, v.typed, v.reset, v.base, v.loaded)
    BY <1>1, <1>2 DEF FormOk, DialogsOk
  <1>4. WriteOk(v)
    <2>1. v.op = IF v.row = None THEN "create" ELSE "update"
      BY <1>1
    <2>2. v.st = "sent" /\ v.val = v.seen
      BY <1>1
    <2> QED
      BY <1>3, <2>1, <2>2 DEF WriteOk
  <1> QED
    BY <1>2, <1>4, WriteKept, WritesKept

LEMMA DeleteWrites ==
  ASSUME Types, WritesOk, DialogsOk, Grown, ConfirmDelete
  PROVE  writes' \subseteq Writes /\ WritesOk'
  <1>1. PICK x \in Writes : /\ x = Write("delete") /\ x.op = "delete" /\ x.st = "sent"
                            /\ x.val = x.seen
    <2>1. work < MaxWork
      BY DEF ConfirmDelete, Work
    <2> QED
      BY <2>1, WriteMade
  <1>2. asking \in There /\ asking \in Device /\ asking # None
    BY DEF DialogsOk, ConfirmDelete, There
  <1>3. PICK v \in Writes : /\ v = [x EXCEPT !.row = asking, !.asked = asking, !.todo = {}]
                            /\ v.op = "delete" /\ v.st = "sent" /\ v.val = v.seen
                            /\ v.row = asking /\ v.asked = asking /\ v.todo = {}
    <2>1. [x EXCEPT !.row = asking, !.asked = asking, !.todo = {}] \in Writes
      BY <1>2 DEF Writes
    <2> QED
      BY <1>1, <2>1 DEF Writes
  <1>4. writes' = writes \cup {v}
    BY <1>1, <1>3 DEF ConfirmDelete
  <1>5. WriteOk(v)
    BY <1>2, <1>3 DEF WriteOk
  <1> QED
    BY <1>4, <1>5, WriteKept, WritesKept

LEMMA BladeWrites ==
  ASSUME Types, WritesOk, DialogsOk, Grown, AddBlade
  PROVE  writes' \subseteq Writes /\ WritesOk'
  <1>1. PICK x \in Writes : x = Write("blade") /\ x.op = "blade" /\ x.st = "sent"
    <2>1. work < MaxWork
      BY DEF AddBlade, Work
    <2> QED
      BY <2>1, WriteMade
  <1> DEFINE u == [Nothing EXCEPT !["status"] = Typed(None), !["placement"] = Typed(dialog.row)]
  <1>2. dialog.kind = "blade_chassis" /\ dialog.row \in Device \cup {None} /\ dialog.kind \in Kinds
    BY DEF AddBlade, DialogsOk, BladesShown, Types, Dialogs
  <1>3. "blade" \in Kinds
    BY <1>2, DeviceAssumption
  <1>4. u \in Values /\ \A s \in Section \ {"placement"} : u[s] \in {Blank, Typed(None)}
    BY <1>2, ValueFacts, UnbornRec DEF Values
  <1>5. Owned(u, None)
    BY <1>4, ValueFacts DEF Owned
  <1>6. writes' = writes \cup {[x EXCEPT !.row = None, !.kind = "blade", !.todo = {"server"},
                                         !.asked = None, !.val = u, !.seen = u]}
    BY <1>1 DEF AddBlade
  <1> HIDE DEF u
  <1>7. PICK v \in Writes : /\ v = [x EXCEPT !.row = None, !.kind = "blade", !.todo = {"server"},
                                             !.asked = None, !.val = u, !.seen = u]
                            /\ v.op = "blade" /\ v.st = "sent" /\ v.val = u /\ v.seen = u
                            /\ v.row = None /\ v.asked = None
    <2>0. {"server"} \in SUBSET Extensions
      BY DEF Extensions
    <2>1. [x EXCEPT !.row = None, !.kind = "blade", !.todo = {"server"},
                    !.asked = None, !.val = u, !.seen = u] \in Writes
      BY <1>3, <1>4, <2>0 DEF Writes
    <2> QED
      BY <1>1, <2>1 DEF Writes
  <1>8. WriteOk(v)
    BY <1>5, <1>7 DEF WriteOk
  <1> QED
    BY <1>6, <1>7, <1>8, WriteKept, WritesKept
-----------------------------------------------------------------------------
LEMMA ServeWrites ==
  ASSUME Types, WritesOk, Grown, NEW w \in writes, Serve(w)
  PROVE  writes' \subseteq Writes /\ WritesOk'
  <1>1. w \in Writes /\ WriteOk(w)
    BY WriteHere
  <1>2. CASE w.op \in {"create", "blade"}
    <2>1. PICK r \in Device : /\ devices' = [devices EXCEPT ![r] = Created(w)]
                              /\ Becomes(w, [w EXCEPT !.st = "done", !.row = r])
      BY <1>2, ServeCases
    <2>2. r \in There'
      <3>1. Created(w).kind \in Kinds /\ devices'[r] = Created(w)
        BY <1>1, <2>1, CreatedRec DEF Types, Writes
      <3> QED
        BY <3>1, KindFacts, UnbornRec DEF There
    <2>3. PICK v \in Writes : /\ v = [w EXCEPT !.st = "done", !.row = r]
                              /\ v.op = w.op /\ v.st = "done" /\ v.val = w.val /\ v.seen = w.seen
                              /\ v.row = r /\ v.asked = w.asked
      <3>1. [w EXCEPT !.st = "done", !.row = r] \in Writes
        BY <1>1 DEF Writes
      <3> QED
        BY <1>1, <3>1 DEF Writes
    <2>4. w.st = "sent"
      BY DEF Serve
    <2>5. w.row = None /\ w.asked = None /\ Owned(w.val, None) /\ w.val = w.seen
      BY <1>1, <1>2, <2>4 DEF WriteOk
    <2>6. Owned(v.val, r) /\ v.op \in {"create", "blade"} /\ r # None
      BY <1>2, <2>3, <2>5, DeviceAssumption DEF Owned
    <2>7. WriteOk(v)'
      BY <2>2, <2>3, <2>5, <2>6 DEF WriteOk
    <2> QED
      BY <2>1, <2>3, <2>7, WritesKept DEF Becomes
  <1>3. CASE w.op \notin {"create", "blade"}
    <2>1. w.op \in {"update", "delete"} /\ Becomes(w, [w EXCEPT !.st = "done"])
      BY <1>3, ServeCases
    <2>2. PICK v \in Writes : v = [w EXCEPT !.st = "done"]
      BY <1>1 DEF Writes
    <2>3. WriteOk(v)
      <3>1. /\ v.op = w.op /\ v.st = "done" /\ v.val = w.val /\ v.seen = w.seen /\ v.todo = w.todo
            /\ v.row = w.row /\ v.asked = w.asked /\ v.typed = w.typed /\ v.reset = w.reset
            /\ v.base = w.base /\ v.loaded = w.loaded
        BY <1>1, <2>2 DEF Writes
      <3> QED
        BY <1>1, <2>1, <3>1 DEF WriteOk
    <2> QED
      BY <2>1, <2>2, <2>3, WriteKept, WritesKept DEF Becomes
  <1> QED
    BY <1>2, <1>3

\* The chain goes on: what it is about stays.
LEMMA ChainWrites ==
  ASSUME Types, WritesOk, Grown, NEW w \in writes, w.st # "sent", NEW v \in Writes, Becomes(w, v),
         v.op = w.op, v.st # "sent", v.val = w.val, v.seen = w.seen, v.row = w.row,
         v.asked = w.asked, v.todo \subseteq w.todo, v.typed = w.typed, v.reset = w.reset,
         v.base = w.base, v.loaded = w.loaded
  PROVE  writes' \subseteq Writes /\ WritesOk'
  <1>1. w \in Writes /\ WriteOk(w)
    BY WriteHere
  <1>2. WriteOk(v)
    BY <1>1 DEF WriteOk
  <1> QED
    BY <1>2, WriteKept, WritesKept DEF Becomes

LEMMA WritesStep ==
  ASSUME Types, DialogsOk, FormOk, WritesOk, Grown, [Next]_vars
  PROVE  writes' \subseteq Writes /\ WritesOk'
  <1>1. CASE writes' \subseteq writes
    BY <1>1, WritesKept
  <1>2. CASE writes' = Orphaned(writes)
    BY <1>2, WritesOrphaned
  <1>3. ASSUME NEW w \in writes, writes' = Orphaned(writes \ {w})
        PROVE  writes' \subseteq Writes /\ WritesOk'
    BY <1>3, WritesOrphaned
  <1>4. ASSUME NEW w \in writes, Done(w) \/ SendExtensions(w)
        PROVE  writes' \subseteq Writes /\ WritesOk'
    <2>1. w \in Writes
      BY WriteHere
    <2>2. PICK st \in {"waiting", "ext"} : Becomes(w, [w EXCEPT !.st = st]) /\ w.st # "sent"
      <3>1. CASE Done(w)
        BY <3>1 DEF Done
      <3>2. CASE SendExtensions(w)
        <4>1. Becomes(w, [w EXCEPT !.st = "ext", !.val = w.val]) /\ w.st = "waiting"
          BY <3>2 DEF SendExtensions, ExtensionBody
        <4>2. [w EXCEPT !.st = "ext", !.val = w.val] = [w EXCEPT !.st = "ext"]
          BY <2>1 DEF Writes
        <4> QED
          BY <4>1, <4>2
      <3> QED
        BY <1>4, <3>1, <3>2
    <2>3. PICK v \in Writes : v = [w EXCEPT !.st = st]
      BY <2>1 DEF Writes
    <2>4. /\ v.op = w.op /\ v.st # "sent" /\ v.val = w.val /\ v.seen = w.seen /\ v.row = w.row
          /\ v.asked = w.asked /\ v.todo \subseteq w.todo /\ v.typed = w.typed /\ v.reset = w.reset
          /\ v.base = w.base /\ v.loaded = w.loaded
      BY <2>1, <2>3 DEF Writes
    <2> QED
      BY <2>2, <2>3, <2>4, ChainWrites
  <1>5. ASSUME NEW w \in writes, NEW t \in w.todo, ServeExtension(w, t) \/ FailExtension(w, t)
        PROVE  writes' \subseteq Writes /\ WritesOk'
    <2>1. w \in Writes /\ w.st = "ext"
      BY <1>5, WriteHere DEF ServeExtension, FailExtension
    <2> DEFINE ts == w.todo \ {t}
    <2>2. PICK b \in BOOLEAN : Becomes(w, [w EXCEPT !.todo = ts, !.bad = b])
      <3>1. CASE ServeExtension(w, t)
        <4>1. Becomes(w, [w EXCEPT !.todo = ts])
          BY <3>1 DEF ServeExtension
        <4>2. [w EXCEPT !.todo = ts] = [w EXCEPT !.todo = ts, !.bad = w.bad] /\ w.bad \in BOOLEAN
          BY <2>1 DEF Writes
        <4> QED
          BY <4>1, <4>2
      <3>2. CASE FailExtension(w, t)
        BY <3>2 DEF FailExtension
      <3> QED
        BY <1>5, <3>1, <3>2
    <2>3. ts \in SUBSET Extensions /\ ts \subseteq w.todo
      BY <2>1 DEF Writes
    <2> HIDE DEF ts
    <2>4. PICK v \in Writes : v = [w EXCEPT !.todo = ts, !.bad = b]
      BY <2>1, <2>3 DEF Writes
    <2>5. /\ v.op = w.op /\ v.st = "ext" /\ v.val = w.val /\ v.seen = w.seen /\ v.row = w.row
          /\ v.asked = w.asked /\ v.todo \subseteq w.todo /\ v.typed = w.typed /\ v.reset = w.reset
          /\ v.base = w.base /\ v.loaded = w.loaded
      BY <2>1, <2>3, <2>4 DEF Writes
    <2> QED
      BY <2>1, <2>2, <2>4, <2>5, ChainWrites
  <1> QED
    BY <1>1, <1>2, <1>3, <1>4, <1>5, SaveWrites, DeleteWrites, BladeWrites, ServeWrites, WriteSteps
       DEF vars

LEMMA CountsStep ==
  ASSUME Types, [Next]_vars
  PROVE  work' \in 0..MaxWork /\ mishaps' \in 0..MaxMishap
  <1> DEFINE Counted == /\ Work \/ work' = work
                        /\ Mishap \/ mishaps' = mishaps
  <1>1. ASSUME OpenCreate \/ Close \/ Save \/ CancelDelete \/ ConfirmDelete PROVE Counted
    BY <1>1 DEF OpenCreate, Close, Save, CancelDelete, ConfirmDelete
  <1>2. ASSUME OpenBlade \/ CancelBlade \/ AddBlade \/ ListServed \/ ListLands \/ Refocus PROVE Counted
    BY <1>2 DEF OpenBlade, CancelBlade, AddBlade, ListServed, ListLands, Refocus
  <1>3. ASSUME NEW r \in Device, OpenEdit(r) \/ AskDelete(r) \/ DetailServed(r) \/ DetailLands(r)
        PROVE  Counted
    BY <1>3 DEF OpenEdit, AskDelete, DetailServed, DetailLands
  <1>4. ASSUME NEW s \in Section, Type(s) PROVE Counted
    BY <1>4 DEF Type
  <1>5. ASSUME NEW k \in Kinds, SwitchKind(k) PROVE Counted
    BY <1>5 DEF SwitchKind
  <1>6. ASSUME NEW w \in writes, Serve(w) \/ Fail(w) \/ Done(w) \/ SendExtensions(w) \/ Saved(w)
        PROVE  Counted
    BY <1>6 DEF Serve, Fail, Done, SendExtensions, Saved
  <1>7. ASSUME NEW w \in writes, NEW t \in w.todo, ServeExtension(w, t) \/ FailExtension(w, t)
        PROVE  Counted
    BY <1>7 DEF ServeExtension, FailExtension
  <1>8. ASSUME UNCHANGED vars PROVE Counted
    BY <1>8 DEF vars
  <1> HIDE DEF Counted
  <1>9. Counted
    BY <1>1, <1>2, <1>3, <1>4, <1>5, <1>6, <1>7, <1>8, Steps
  <1> QED
    BY <1>9, DeviceAssumption DEF Types, Work, Mishap, Counted

-----------------------------------------------------------------------------
(* The invariant *)

IInv == Types /\ Server /\ ListOk /\ DetailOk /\ DialogsOk /\ FormOk /\ WritesOk

LEMMA InitInv == Init => IInv
  <1> SUFFICES ASSUME Init PROVE IInv
    OBVIOUS
  <1>n. {} \in SUBSET (1..MaxWork) /\ None \in Device \cup {None} /\ 0 \in 0..MaxWork /\ 0 \in 0..MaxMishap
    BY DeviceAssumption DEF None
  <1>1. ASSUME NEW r \in Device PROVE devices[r] \in Recs /\ Owned(devices[r].val, r)
    <2>1. CASE r \notin First
      BY <2>1, UnbornRec DEF Init
    <2>2. CASE r \in First
      <3> DEFINE v == [s \in Section |-> IF Had(r, s) THEN Stored(r) ELSE Blank]
      <3>1. devices[r] = [kind |-> Stock[r].kind, tables |-> Stock[r].tables, val |-> v]
        BY <2>2 DEF Init
      <3>2. Stock[r].kind \in Kinds /\ Stock[r].tables \in SUBSET Extensions
        BY <2>2, DeviceAssumption
      <3>3. v \in Values /\ \A s \in Section : v[s] \in {Stored(r), Blank}
        BY ValueFacts DEF Values
      <3>4. \A s \in Section \cap ExtSections : v[s] # Blank => \E t \in Stock[r].tables : s \in SectionsOf(t)
        BY Sections DEF Had
      <3> HIDE DEF v
      <3>5. [kind |-> Stock[r].kind, val |-> v, tables |-> Stock[r].tables] \in Recs
        BY <3>2, <3>3, <3>4, RecMade
      <3>6. Owned(v, r)
        BY <3>3, ValueFacts DEF Owned
      <3> QED
        BY <3>1, <3>5, <3>6
    <2> QED
      BY <2>1, <2>2
  <1>2. devices \in [Device -> Recs]
    BY <1>1 DEF Init
  <1>3. /\ list \in Lists /\ list.data = NoDevices /\ list.snap = NoDevices
    BY <1>n, UnbornRec DEF Init, Lists, NoDevices
  <1>4. Unasked \in Details /\ Unasked.data = Unborn /\ Unasked.snap = Unborn /\ Unasked.st = "idle"
    BY <1>n, UnbornRec DEF Unasked, Details
  <1>5. detail \in [Device -> Details] /\ \A r \in Device : detail[r] = Unasked
    BY <1>4 DEF Init
  <1>6. dialog \in Dialogs /\ ~dialog.open /\ dialog.row = None
    <2>1. "server" \in Kinds /\ EmptyForm \in Values /\ Unborn \in Recs
      BY KindFacts, EmptyMade, UnbornRec
    <2>2. Dialog(None, "server", EmptyForm, Unborn) \in Dialogs /\ Dialog(None, "server", EmptyForm, Unborn).row = None
      BY <1>n, <2>1 DEF Dialog, Dialogs
    <2>3. PICK d \in Dialogs : d = Dialog(None, "server", EmptyForm, Unborn) /\ d.row = None
      BY <2>2
    <2>4. dialog = [d EXCEPT !.open = FALSE]
      BY <2>3 DEF Init
    <2> QED
      BY <2>3, <2>4 DEF Dialogs
  <1>7. blade = FALSE /\ asking = None /\ writes = {} /\ work = 0 /\ mishaps = 0
    BY DEF Init
  <1>8. Types
    BY <1>n, <1>2, <1>3, <1>5, <1>6, <1>7 DEF Types
  <1>9. Server
    BY <1>1 DEF Server
  <1>10. ListOk
    BY <1>3, UnbornRec DEF ListOk, Told, NoDevices
  <1>11. DetailOk
    BY <1>4, <1>5, UnbornRec DEF DetailOk
  <1>12. DialogsOk /\ FormOk /\ WritesOk
    BY <1>6, <1>7 DEF DialogsOk, FormOk, WritesOk
  <1> QED
    BY <1>8, <1>9, <1>10, <1>11, <1>12 DEF IInv

LEMMA StepInv ==
  ASSUME IInv, [Next]_vars
  PROVE  IInv'
  <1>1. Types /\ Server /\ ListOk /\ DetailOk /\ DialogsOk /\ FormOk /\ WritesOk
    BY DEF IInv
  <1>2. devices' \in [Device -> Recs] /\ Server' /\ Grown
    BY <1>1, DevicesStep
  <1>3. list' \in Lists /\ ListOk'
    BY <1>1, <1>2, ListStep
  <1>4. detail' \in [Device -> Details] /\ DetailOk'
    BY <1>1, <1>2, DetailStep
  <1>5. dialog' \in Dialogs /\ blade' \in BOOLEAN /\ asking' \in Device \cup {None} /\ DialogsOk' /\ FormOk'
    BY <1>1, <1>2, DialogType, AskingType, DialogsStep, FormStep
  <1>6. writes' \subseteq Writes /\ WritesOk'
    BY <1>1, <1>2, WritesStep
  <1>7. work' \in 0..MaxWork /\ mishaps' \in 0..MaxMishap
    BY <1>1, CountsStep
  <1>8. Types'
    BY <1>2, <1>3, <1>4, <1>5, <1>6, <1>7 DEF Types
  <1> QED
    BY <1>2, <1>3, <1>4, <1>5, <1>6, <1>8 DEF IInv

\* The inductive invariant.  The forms and the changes under way agree with
\* what was loaded of the device they are for.
THEOREM Invariance == Spec => []IInv
  BY InitInv, StepInv, PTL DEF Spec
-----------------------------------------------------------------------------
(* What the invariant says of the states *)

\* Rows, caches, dialogs and changes under way have their types, the dialogs
\* are about devices that exist, the one for a blade is shown only in that of
\* its chassis, and every request that needs a device knows it.
THEOREM TypesHold == Spec => []TypeOK
  <1>1. IInv => TypeOK
    <2> SUFFICES ASSUME IInv PROVE TypeOK
      OBVIOUS
    <2>1. Types /\ DialogsOk /\ FormOk /\ WritesOk
      BY DEF IInv
    <2>2. devices \in [Device -> Rec] /\ list.data \in [Device -> Rec] /\ list.snap \in [Device -> Rec]
      BY <2>1 DEF Types, Lists, Recs
    <2>3. list.st \in {"idle", "sent", "served"} /\ list.by \subseteq 1..MaxWork /\ list.has \in BOOLEAN
      BY <2>1 DEF Types, Lists
    <2>4. \A r \in Device : /\ detail[r].st \in {"idle", "sent", "served"}
                            /\ detail[r].by \subseteq 1..MaxWork /\ detail[r].stale \in BOOLEAN
                            /\ detail[r].data \in Rec /\ detail[r].snap \in Rec
      BY <2>1 DEF Types, Details, Recs
    <2>5. /\ dialog.open \in BOOLEAN /\ dialog.kind \in Kinds /\ dialog.val \in Values
          /\ dialog.row \in There \cup {None} /\ (dialog.open => dialog.row = dialog.asked)
      BY <2>1 DEF Types, Dialogs, DialogsOk, FormOk
    <2>6. blade \in BOOLEAN /\ (blade => BladesShown(dialog)) /\ asking \in Device \cup {None}
      BY <2>1 DEF Types, DialogsOk
    <2>7. ASSUME NEW w \in writes
          PROVE  /\ w.id \in 1..MaxWork /\ w.op \in {"create", "update", "delete", "blade"}
                 /\ w.row \in There \cup {None} /\ w.st \in {"sent", "done", "waiting", "ext"}
                 /\ w.val \in Values /\ w.todo \subseteq Extensions
                 /\ (w.op = "update" \/ w.st # "sent" => w.row # None)
      <3>1. w \in Writes /\ WriteOk(w)
        BY <2>1, WriteHere
      <3>2. /\ w.id \in 1..MaxWork /\ w.op \in {"create", "update", "delete", "blade"}
            /\ w.st \in {"sent", "done", "waiting", "ext"}
            /\ w.val \in Values /\ w.todo \subseteq Extensions
        BY <3>1 DEF Writes
      <3>3. w.row \in There \cup {None} /\ (w.op = "update" \/ w.st # "sent" => w.row # None)
        BY <3>1 DEF WriteOk
      <3> QED
        BY <3>2, <3>3
    <2>8. work \in 0..MaxWork /\ mishaps \in 0..MaxMishap
      BY <2>1 DEF Types
    <2> QED
      BY <2>2, <2>3, <2>4, <2>5, <2>6, <2>7, <2>8 DEF TypeOK
  <1> QED
    BY <1>1, Invariance, PTL

\* No device ever holds a value that was stored for another device or typed
\* into its dialog, although all of them share one form and a save is still
\* under way when the next dialog is opened (Devices.tsx, openEdit, the effect
\* that fills the extension forms, and handleSave).
THEOREM ValuesAreOwn == Spec => []OwnValues
  <1>1. IInv => OwnValues
    BY DEF IInv, Server, Owned, OwnValues, There
  <1> QED
    BY <1>1, Invariance, PTL

-----------------------------------------------------------------------------
(* What a change writes *)

\* Only the request that is answered changes the rows.
LEMMA AppliesCases ==
  ASSUME [Next]_vars, NEW w \in writes, Applies(w)
  PROVE  Serve(w) \/ \E t \in w.todo : ServeExtension(w, t)
  <1>1. w \notin writes' /\ devices' # devices
    BY DEF Applies
  <1>2. PICK x \in writes : Serve(x) \/ \E t \in x.todo : ServeExtension(x, t)
    BY <1>1, DeviceSteps DEF vars
  <1>3. CASE Serve(x)
    <2>1. writes \ {x} \subseteq writes'
      BY <1>3 DEF Serve, Becomes
    <2> QED
      BY <1>1, <1>3, <2>1
  <1>4. CASE \E t \in x.todo : ServeExtension(x, t)
    <2>1. writes \ {x} \subseteq writes'
      BY <1>4 DEF ServeExtension, Becomes
    <2> QED
      BY <1>1, <1>4, <2>1
  <1> QED
    BY <1>2, <1>3, <1>4

\* The row that a request changes, and what it then holds.
LEMMA Answered ==
  ASSUME IInv, NEW w \in writes, Serve(w), NEW r \in Device, devices'[r] # devices[r]
  PROVE  \/ /\ w.op \in {"create", "blade"} /\ r \notin There
            /\ \A s \in Section : devices'[r].val[s] \in {w.val[s], Blank}
         \/ /\ w.op \in {"update", "delete"} /\ r = w.row
            /\ w.op = "update" => \A s \in Section :
                 devices'[r].val[s] = IF s \in ToBody(w.kind, w.val) THEN w.val[s] ELSE devices[r].val[s]
  <1>1. Types /\ WritesOk /\ w \in Writes /\ devices \in [Device -> Recs]
    BY WriteHere DEF IInv, Types
  <1>2. CASE w.op \in {"create", "blade"}
    <2>1. PICK q \in Device : q \notin There /\ devices' = [devices EXCEPT ![q] = Created(w)]
      BY <1>1, <1>2, ServeCases
    <2>2. r = q /\ devices'[r] = Created(w)
      BY <1>1, <2>1
    <2> QED
      BY <1>1, <1>2, <2>1, <2>2, CreatedRec
  <1>3. CASE w.op \notin {"create", "blade"}
    <2>1. w.op \in {"update", "delete"} /\ w.row \in There /\ devices' = [devices EXCEPT ![w.row] = Changed(w)]
      BY <1>1, <1>3, ServeCases
    <2>2. r = w.row /\ devices'[r] = Changed(w)
      BY <1>1, <2>1
    <2> QED
      BY <1>1, <2>1, <2>2, ChangedRec
  <1> QED
    BY <1>2, <1>3

LEMMA Extended ==
  ASSUME IInv, NEW w \in writes, NEW t \in w.todo, ServeExtension(w, t),
         NEW r \in Device, devices'[r] # devices[r]
  PROVE  /\ r = w.row /\ w.st = "ext" /\ t \in Extensions /\ w.op # "delete"
         /\ \A s \in Section \ SectionsOf(t) : devices'[r].val[s] = devices[r].val[s]
         /\ \A s \in Section \cap SectionsOf(t) : devices'[r].val[s] \in {w.val[s], Blank}
         /\ w.op # "blade" => \A s \in Section \cap SectionsOf(t) :
              s \in Shown(w.kind) => devices'[r].val[s] = w.val[s]
  <1>1. Types /\ WritesOk /\ w \in Writes /\ devices \in [Device -> Recs]
    BY WriteHere DEF IInv, Types
  <1>2. w.st = "ext" /\ devices' = [devices EXCEPT ![w.row] = Upserted(devices[w.row], w, t)]
    BY DEF ServeExtension
  <1>3. w.row \in There /\ t \in Extensions /\ w.op # "delete"
    BY <1>1, <1>2, ExtensionHere
  <1>4. r = w.row /\ devices'[r] = Upserted(devices[w.row], w, t)
    BY <1>1, <1>2
  <1> QED
    BY <1>1, <1>2, <1>3, <1>4, UpsertedRec

\* Each request of a chain changes only the device its dialog was opened for,
\* or the one the chain has created, and writes what the form showed at the
\* click (handleSave, handleAddBlade, confirmDelete in Devices.tsx).
THEOREM SavesAsClicked == Spec => SavedAsClicked
  <1>1. ASSUME IInv, [Next]_vars, NEW w \in writes, Applies(w), NEW r \in Device,
               devices'[r] # devices[r]
        PROVE  /\ IF w.asked # None THEN r = w.asked ELSE r \notin There \/ (w.st = "ext" /\ r = w.row)
               /\ w.op # "delete" => \A s \in Section :
                    devices'[r].val[s] \in {devices[r].val[s], w.seen[s], Blank}
    <2>1. w \in Writes /\ WriteOk(w)
      BY <1>1, WriteHere DEF IInv
    <2>2. /\ w.val = w.seen
          /\ w.op \in {"update", "delete"} => w.row # None /\ w.asked = w.row
          /\ w.op \in {"create", "blade"} => w.asked = None
          /\ w.op \in {"create", "update", "delete", "blade"}
      BY <2>1 DEF WriteOk, Writes
    <2>3. CASE Serve(w)
      BY <1>1, <2>2, <2>3, Answered
    <2>4. ASSUME NEW t \in w.todo, ServeExtension(w, t)
          PROVE  /\ r = w.row /\ w.st = "ext"
                 /\ \A s \in Section : devices'[r].val[s] \in {devices[r].val[s], w.val[s], Blank}
      BY <1>1, <2>4, Extended
    <2> QED
      BY <1>1, <2>2, <2>3, <2>4, AppliesCases
  <1>2. IInv /\ [Next]_vars =>
          [\A w \in writes : Applies(w) =>
             \A r \in Device : devices'[r] # devices[r] =>
               /\ IF w.asked # None THEN r = w.asked ELSE r \notin There \/ (w.st = "ext" /\ r = w.row)
               /\ w.op # "delete" => \A s \in Section :
                    devices'[r].val[s] \in {devices[r].val[s], w.seen[s], Blank}]_vars
    BY <1>1
  <1> QED
    BY <1>2, Invariance, PTL DEF Spec, SavedAsClicked

LEMMA RowOf ==
  ASSUME IInv, NEW w \in writes, w.op = "update"
  PROVE  /\ w \in Writes /\ w.row \in Device
         /\ Untouched(w.val, w.typed, w.reset, w.base, w.loaded)
  BY WriteHere DEF IInv, WriteOk, There

\* Whatever an edit changes was typed, or blanked by a switch of the type, or
\* is older on the page than on the server, or had no value and was shown with
\* a default: what else the user has not touched goes back as it was loaded
\* (openEdit and the effect after it).
THEOREM EditsKeepUntyped == Spec => EditKeepsUntyped
  <1>1. ASSUME IInv, [Next]_vars, NEW w \in writes, Applies(w), w.op = "update",
               NEW s \in Shown(w.kind) \ Secret,
               devices'[w.row].val[s] # devices[w.row].val[s]
        PROVE  \/ s \in w.typed \/ (w.reset /\ s \in ExtSections)
               \/ devices[w.row].val[s] # Loaded(w, s)
               \/ devices[w.row].val[s] = Blank /\ s \in Defaulted /\ devices'[w.row].val[s] = Default
    <2>1. w.row \in Device /\ Untouched(w.val, w.typed, w.reset, w.base, w.loaded)
      BY <1>1, RowOf
    <2>2. s \in Section /\ devices'[w.row] # devices[w.row]
      BY <1>1 DEF Shown
    <2>3. CASE Serve(w)
      <3>1. s \in ToBody(w.kind, w.val) /\ devices'[w.row].val[s] = w.val[s]
        BY <1>1, <2>1, <2>2, <2>3, Answered
      <3>2. s \in BaseSections
        BY <3>1, BodySections
      <3> QED
        BY <1>1, <2>1, <2>2, <3>1, <3>2 DEF Untouched, Loaded, InForm
    <2>4. ASSUME NEW t \in w.todo, ServeExtension(w, t)
          PROVE  \/ s \in w.typed \/ (w.reset /\ s \in ExtSections)
                 \/ devices[w.row].val[s] # Loaded(w, s)
                 \/ devices[w.row].val[s] = Blank /\ s \in Defaulted /\ devices'[w.row].val[s] = Default
      <3>1. t \in Extensions /\ s \in SectionsOf(t) /\ devices'[w.row].val[s] = w.val[s]
        BY <1>1, <2>1, <2>2, <2>4, Extended
      <3>2. s \in ExtSections /\ s \notin BaseSections
        BY <3>1, Sections
      <3> QED
        BY <1>1, <2>1, <2>2, <3>1, <3>2 DEF Untouched, Loaded, InForm
    <2> QED
      BY <1>1, <2>3, <2>4, AppliesCases
  <1>2. IInv /\ [Next]_vars =>
          [\A w \in writes : Applies(w) /\ w.op = "update" =>
             \A s \in Shown(w.kind) \ Secret :
               devices'[w.row].val[s] # devices[w.row].val[s] =>
                 \/ s \in w.typed \/ (w.reset /\ s \in ExtSections)
                 \/ devices[w.row].val[s] # Loaded(w, s)
                 \/ devices[w.row].val[s] = Blank /\ s \in Defaulted /\ devices'[w.row].val[s] = Default]_vars
    BY <1>1
  <1> QED
    BY <1>2, Invariance, PTL DEF Spec, EditKeepsUntyped

\* An edit leaves the sections that its type does not show as they are, and the
\* password unless one was typed (toBody in Devices.tsx).
THEOREM KeepsUnseen == Spec => UnseenKept
  <1>1. ASSUME IInv, [Next]_vars, NEW w \in writes, Applies(w), w.op = "update",
               NEW s \in Section \cap BaseSections,
               devices'[w.row].val[s] # devices[w.row].val[s]
        PROVE  s \in Shown(w.kind) /\ (s = "password" => s \in w.typed)
    <2>1. w.row \in Device /\ Untouched(w.val, w.typed, w.reset, w.base, w.loaded)
      BY <1>1, RowOf
    <2>2. devices'[w.row] # devices[w.row]
      BY <1>1
    <2>3. CASE Serve(w)
      <3>1. s \in ToBody(w.kind, w.val)
        BY <1>1, <2>1, <2>2, <2>3, Answered
      <3>2. s \in Shown(w.kind) /\ (s = "password" => w.val[s] # Blank)
        BY <3>1 DEF ToBody
      <3>3. s = "password" => s \in Secret
        BY DEF Secret
      <3> QED
        BY <1>1, <2>1, <3>2, <3>3, Shows DEF Untouched
    <2>4. ASSUME NEW t \in w.todo, ServeExtension(w, t) PROVE FALSE
      <3>1. t \in Extensions /\ s \in SectionsOf(t)
        BY <1>1, <2>1, <2>2, <2>4, Extended
      <3> QED
        BY <1>1, <3>1, Sections
    <2> QED
      BY <1>1, <2>3, <2>4, AppliesCases
  <1>2. IInv /\ [Next]_vars =>
          [\A w \in writes : Applies(w) /\ w.op = "update" =>
             \A s \in Section \cap BaseSections :
               devices'[w.row].val[s] # devices[w.row].val[s] =>
                 s \in Shown(w.kind) /\ (s = "password" => s \in w.typed)]_vars
    BY <1>1
  <1> QED
    BY <1>2, Invariance, PTL DEF Spec, UnseenKept
=============================================================================
