--------------------------- MODULE RackEditorProofs ---------------------------
(***************************************************************************)
(* Proofs about RackEditor, for any rack and any number of editors and     *)
(* devices: what the editors decide on an elevation that is up to date     *)
(* keeps the rack sound; an editor hears of its own writes; one dialog     *)
(* makes one device; and the red tiles are those that overlap, and those   *)
(* whose drop is refused.                                                  *)
(*                                                                         *)
(* The argument: requests under way have different ids (Base).  An applied *)
(* write that its editor does not show still has its request, or is in the *)
(* next answer of the query (Lagging).  The requests of a dialog's number  *)
(* are the one that is pending, and once it has made a device that one is  *)
(* answered (Numbered).  A gesture that nothing has overtaken knows the    *)
(* rack as it is (Grabbed), so that a drop that collides with no tile      *)
(* fits; likewise a place that nextFreeSlot found.  Since every change of  *)
(* the rack makes the decisions under way count as unchecked, those that   *)
(* still count as checked fit the rack as it is now (Decided).             *)
(***************************************************************************)
EXTENDS RackEditor, FiniteSetTheorems, WellFoundedInduction, TLAPS

-----------------------------------------------------------------------------
(* Types *)

Seen == Elevations \cup {NoData}

Fetches ==
  {f \in [st : {"idle", "sent", "served", "failed"}, err : BOOLEAN, snap : Seen,
          covers : SUBSET (Editor \X Nat)] :
     f.st = "served" => f.snap \in Elevations}

Gestures ==
  {g \in [st : {"none", "drag", "resize"}, dev : Device \cup {None}, from : 0..TotalU,
          to : 0..TotalU, other : 0..TotalU, fresh : BOOLEAN] :
     g.st # "none" => g.dev \in Device /\ g.from \in Unit /\ g.to \in Unit /\ g.other \in Unit}

Dialogs ==
  {g \in [st : {"closed", "asked", "open"}, no : Nat, at : 0..TotalU, unit : 0..TotalU,
          size : Unit, sure : BOOLEAN, pend : Nat, made : Nat] :
     (g.st = "open" => g.unit \in Unit) /\ (g.st = "asked" => g.size = 1)}

Writes ==
  {w \in [id : Nat, ed : Editor, dev : Device, st : {"sent", "served"},
          op : {"create", "drag", "resize"}, unit : Unit, size : Unit, sure : BOOLEAN,
          no : Nat, orphan : BOOLEAN] :
     w.op # "create" => w.no = 0}

Typed ==
  /\ kind \in [Editor -> Kind] /\ rack \in [Device -> Row] /\ checked \subseteq Device
  /\ view \in [Editor -> Seen]
  /\ fetch \in [Editor -> Fetches]
  /\ gesture \in [Editor -> Gestures]
  /\ dialog \in [Editor -> Dialogs]
  /\ writes \subseteq Writes
  /\ work \in Nat /\ work <= MaxWork /\ mishaps \in Nat

\* The steps of one editor, whatever its kind.
Opens(e) == \E u \in EmptySlots(e) \cup {0} : OpenDialog(e, u)

Looks(e) == PanelOpenDevice(e) \/ PanelBack(e)

LEMMA Steps ==
  ASSUME Next
  PROVE  \/ \E e \in Editor : Grab(e) \/ Move(e) \/ Drop(e)
         \/ \E e \in Editor : Opens(e) \/ Dialog(e) \/ Looks(e) \/ Query(e)
         \/ \E w \in writes : Serve(w) \/ Lose(w) \/ DropAnswered(w) \/ DropRefused(w)
         \/ \E w \in writes : CreateAnswered(w) \/ CreateRefused(w)
         \/ \E d \in Device : Elsewhere(d)
  <1>1. ASSUME NEW e \in Editor, Elevation(e)
        PROVE  Grab(e) \/ Move(e) \/ Drop(e) \/ Opens(e)
    BY <1>1 DEF Elevation, ElevationGestures, ElevationSlots, Opens
  <1>2. ASSUME NEW e \in Editor, Panel(e)
        PROVE  Grab(e) \/ Move(e) \/ Drop(e) \/ Opens(e) \/ Looks(e)
    BY <1>2 DEF Panel, PanelGestures, PanelSlots, PanelAdd, Opens, Looks
  <1>3. ASSUME NEW e \in Editor, Diagram(e)
        PROVE  Grab(e) \/ Move(e) \/ Drop(e) \/ Opens(e)
    BY <1>3 DEF Diagram, DiagramGestures, DiagramSlots, DiagramAdd, Opens
  <1>4. ASSUME NEW e \in Editor, Column(e)
        PROVE  Grab(e) \/ Move(e) \/ Drop(e) \/ Opens(e)
    BY <1>4 DEF Column, ColumnGestures, ColumnSlots, ColumnAdd, Opens
  <1> QED
    BY <1>1, <1>2, <1>3, <1>4 DEF Next

LEMMA LeastNat ==
  ASSUME NEW S \in SUBSET Nat, S # {}
  PROVE  Min(S) \in S
  <1> DEFINE R == OpToRel(<, Nat)
  <1>1. IsWellFoundedOn(R, Nat)
    BY NatLessThanWellFounded
  <1>2. \A m, n \in Nat : <<m, n>> \in R <=> m < n
    BY DEF OpToRel
  <1> HIDE DEF R
  <1>3. PICK m \in S : \A n \in S : <<n, m>> \notin R
    BY <1>1, WFMin
  <1>4. \A n \in S : n \in Nat /\ m \in Nat /\ ~(n < m)
    BY <1>2, <1>3
  <1>5. \A n \in S : m <= n
    BY <1>4
  <1> QED
    BY <1>5 DEF Min

\* A tile is a device of the cached elevation, and every device that takes
\* units has one.
LEMMA TilesHere ==
  ASSUME Typed, NEW e \in Editor
  PROVE  Tiles(e) \subseteq Here(e) /\ Here(e) \ Pdu \subseteq Tiles(e)
  <1>1. kind[e] \in Kind
    BY DEF Typed
  <1>2. Tiles(e) = Here(e) \ Pdu \/ Tiles(e) = Here(e)
    BY <1>1 DEF Kind, Tiles, ElevationTiles, PanelTiles, DiagramTiles, ColumnTiles
  <1> QED
    BY <1>2

LEMMA SeenPlace ==
  ASSUME Typed, NEW e \in Editor, NEW d \in Here(e)
  PROVE  d \in Device /\ view[e] \in Elevations /\ view[e][d] \in Place
  <1>1. view[e] \in Seen /\ Loaded(e) /\ d \in Device /\ view[e][d] # Gone
    BY DEF Typed, Here
  <1>2. view[e] \in Elevations
    BY <1>1 DEF Seen, Loaded
  <1> QED
    BY <1>1, <1>2 DEF Elevations

LEMMA ShownSeen ==
  ASSUME Typed
  PROVE  Shown(rack) \in Elevations
  BY DEF Typed, Shown, Elevations, Row, Place

LEMMA NextUnit ==
  ASSUME NEW v, NEW h \in Unit
  PROVE  /\ NextFreeSlot(v, h) \in Unit
         /\ FreeSlots(v, h) # {} => NextFreeSlot(v, h) \in FreeSlots(v, h)
  <1>1. FreeSlots(v, h) \subseteq Unit /\ Unit \subseteq Nat
    BY DEF FreeSlots, Unit
  <1>2. FreeSlots(v, h) # {} => Min(FreeSlots(v, h)) \in FreeSlots(v, h)
    BY <1>1, LeastNat
  <1>3. 1 \in Unit
    BY RackAssumption DEF Unit
  <1> QED
    BY <1>1, <1>2, <1>3 DEF NextFreeSlot

LEMMA MountedDialog ==
  ASSUME NEW g \in Dialogs, NEW v, g.size = 1
  PROVE  Mounted(g, v) \in Dialogs
  <1>1. PICK u \in 0..TotalU : u = IF g.at = 0 THEN NextFreeSlot(v, 1) ELSE g.at
    BY NextUnit, RackAssumption DEF Dialogs, Unit
  <1>2. u \in Unit
    BY <1>1, NextUnit, RackAssumption DEF Dialogs, Unit
  <1>3. PICK b \in BOOLEAN : b = (g.sure \/ (g.at = 0 /\ Sure(v, 1)))
    OBVIOUS
  <1>4. Mounted(g, v) = [g EXCEPT !.st = "open", !.unit = u, !.sure = b]
    BY <1>1, <1>3 DEF Mounted
  <1> QED
    BY <1>1, <1>2, <1>3, <1>4 DEF Dialogs
-----------------------------------------------------------------------------
Ids ==
  /\ \A w \in writes : w.id \in 1..work
  /\ \A w, x \in writes : w.id = x.id => w = x

\* The requests under way are no more than the numbers below NewNo's last one.
LEMMA NewNoFree ==
  ASSUME Typed, Ids
  PROVE  NewNo \in 1..MaxWork+1 /\ \A w \in writes : w.no # NewNo
  <1> DEFINE S == 1..MaxWork+1
             T == 1..MaxWork
             used == {w.no : w \in writes}
             of(n) == CHOOSE w \in writes : w.no = n
             f == [n \in S |-> of(n).id]
  <1>1. MaxWork \in Nat /\ work \in Nat /\ work <= MaxWork
    BY RackAssumption DEF Typed
  <1>2. /\ IsFiniteSet(S) /\ Cardinality(S) = MaxWork + 1
        /\ IsFiniteSet(T) /\ Cardinality(T) = MaxWork
    <2>1. \A n \in Nat : IsFiniteSet(1..n) /\ Cardinality(1..n) = IF 1 > n THEN 0 ELSE n - 1 + 1
      BY FS_Interval
    <2>2. \A n \in Nat : IsFiniteSet(1..n) /\ Cardinality(1..n) = n
      BY <2>1
    <2>3. MaxWork + 1 \in Nat
      BY <1>1
    <2> QED
      BY <1>1, <2>2, <2>3
  <1>3. S \ used # {}
    <2>1. SUFFICES ASSUME S \ used = {}  PROVE FALSE
      OBVIOUS
    <2>2. \A n \in S : of(n) \in writes /\ of(n).no = n
      BY <2>1
    <2> HIDE DEF of
    <2>3. \A n \in S : of(n).id \in T
      BY <2>2, <1>1 DEF Ids
    <2>4. f \in [S -> T]
      BY <2>3
    <2>5. \A n \in S : f[n] = of(n).id
      OBVIOUS
    <2> HIDE DEF f, S, T
    <2>6. Cardinality(T) < Cardinality(S)
      BY <1>1, <1>2
    <2>7. PICK x, y \in S : x # y /\ f[x] = f[y]
      BY <1>2, <2>4, <2>6, FS_PigeonHole
    <2> QED
      BY <2>2, <2>5, <2>7 DEF Ids
  <1>4. NewNo = Min(S \ used)
    BY DEF NewNo
  <1>5. NewNo \in S \ used
    BY <1>3, <1>4, <1>1, LeastNat
  <1> QED
    BY <1>5
-----------------------------------------------------------------------------
LEMMA Firsts ==
  /\ Closed \in Dialogs /\ NoGesture \in Gestures
  /\ \A s \in {"idle", "sent", "failed"}, b \in BOOLEAN :
       [Idle EXCEPT !.st = s, !.err = b] \in Fetches
  /\ Idle \in Fetches /\ 1 \in Unit /\ Unit \subseteq 0..TotalU
  <1>1. 1 \in Unit /\ Unit \subseteq 0..TotalU /\ 0 \in 0..TotalU
    BY RackAssumption DEF Unit
  <1>2. Closed \in Dialogs
    BY <1>1 DEF Closed, Dialogs
  <1>3. NoGesture \in Gestures
    BY <1>1 DEF NoGesture, Gestures
  <1>4. NoData \in Seen
    BY DEF Seen
  <1>5. \A s \in {"idle", "sent", "failed"}, b \in BOOLEAN :
          [Idle EXCEPT !.st = s, !.err = b] \in Fetches
    BY <1>4 DEF Idle, Fetches
  <1>6. Idle \in Fetches
    BY <1>4 DEF Idle, Fetches
  <1> QED
    BY <1>1, <1>2, <1>3, <1>5, <1>6

LEMMA RefetchTyped ==
  ASSUME Typed, NEW e \in Editor, Refetch(e)
  PROVE  fetch' \in [Editor -> Fetches]
  <1>1. PICK b \in BOOLEAN : b = (Loaded(e) /\ fetch[e].err)
    OBVIOUS
  <1>2. fetch' = [fetch EXCEPT ![e] = [Idle EXCEPT !.st = "sent", !.err = b]]
    BY <1>1 DEF Refetch
  <1> QED
    BY <1>2, Firsts DEF Typed

\* A new request has a number that no other has.
LEMMA WriteSent ==
  ASSUME Typed, Ids, NEW w \in Writes, Work, w.id = work', writes' = writes \cup {w}
  PROVE  writes' \subseteq Writes /\ work' \in Nat /\ work' <= MaxWork /\ Ids'
  <1>1. work \in Nat /\ work' = work + 1 /\ work < MaxWork /\ MaxWork \in Nat
    BY RackAssumption DEF Typed, Work
  <1>2. \A x \in writes : x.id # w.id /\ x.id \in 1..work'
    BY <1>1 DEF Ids
  <1>3. \A x \in writes' : x = w \/ x \in writes
    OBVIOUS
  <1>4. Ids'
    BY <1>1, <1>2, <1>3 DEF Ids
  <1> QED
    BY <1>1, <1>4 DEF Typed

\* Fewer requests, or the same ones a step further.
LEMMA WritesLeft ==
  ASSUME Typed, Ids, UNCHANGED work,
         \A x \in writes' : x \in Writes /\ \E y \in writes : y.id = x.id,
         \A x, y \in writes' : x.id = y.id => x = y
  PROVE  writes' \subseteq Writes /\ Ids'
  BY DEF Typed, Ids

LEMMA ToServed ==
  ASSUME NEW w \in Writes
  PROVE  /\ [w EXCEPT !.st = "served"] \in Writes /\ [w EXCEPT !.orphan = TRUE] \in Writes
         /\ [w EXCEPT !.sure = FALSE] \in Writes
  BY DEF Writes

LEMMA StoredRow ==
  ASSUME Typed, NEW w \in writes
  PROVE  Stored(w) \in Row
  <1>1. w \in Writes /\ rack[w.dev] \in Row
    BY DEF Typed, Writes
  <1> QED
    BY <1>1 DEF Stored, Row, Writes

LEMMA Fresher ==
  ASSUME Typed
  PROVE  /\ [e \in Editor |-> [gesture[e] EXCEPT !.fresh = FALSE]] \in [Editor -> Gestures]
         /\ \A b \in BOOLEAN, e \in Editor : [gesture[e] EXCEPT !.fresh = b] \in Gestures
  BY DEF Typed, Gestures
-----------------------------------------------------------------------------
LEMMA GesturesTyped ==
  ASSUME Typed, Ids, NEW e \in Editor, Grab(e) \/ Move(e) \/ Drop(e)
  PROVE  Typed' /\ Ids'
  <1>1. gesture[e] \in Gestures /\ gesture \in [Editor -> Gestures]
    BY DEF Typed
  <1>2. ASSUME NEW d \in Tiles(e), NEW st \in {"drag", "resize"}, Press(e, d, st)
        PROVE  Typed' /\ Ids'
    <2>1. d \in Device /\ view[e][d] \in Place
      BY TilesHere, SeenPlace
    <2>2. PICK b \in BOOLEAN : b = UpToDate(e)
      BY DEF UpToDate
    <2>3. PICK g : g = [st |-> st, dev |-> d, fresh |-> b,
                   from |-> IF st = "drag" THEN view[e][d].start ELSE view[e][d].size,
                   to |-> IF st = "drag" THEN view[e][d].start ELSE view[e][d].size,
                   other |-> IF st = "drag" THEN view[e][d].size ELSE view[e][d].start]
      OBVIOUS
    <2>4. gesture' = [gesture EXCEPT ![e] = g]
      BY <1>2, <2>2, <2>3 DEF Press
    <2>5. g \in Gestures
      BY <2>1, <2>3, Firsts DEF Gestures, Place
    <2>6. gesture' \in [Editor -> Gestures]
      BY <1>1, <2>4, <2>5
    <2> QED
      BY <1>2, <2>6 DEF Typed, Ids, Press, server
  <1>3. ASSUME Move(e)  PROVE  Typed' /\ Ids'
    <2>1. PICK u \in Reach(gesture[e]) : gesture' = [gesture EXCEPT ![e].to = u]
      BY <1>3 DEF Move
    <2>2. gesture[e].other \in Unit /\ gesture[e].st # "none"
      BY <1>1, <1>3 DEF Gestures, Move, Interacting
    <2>3. u \in Unit
      BY <2>2, RackAssumption DEF Reach, Unit
    <2>4. [gesture[e] EXCEPT !.to = u] \in Gestures
      BY <1>1, <2>3, Firsts DEF Gestures
    <2>5. gesture' \in [Editor -> Gestures]
      BY <1>1, <2>1, <2>4
    <2> QED
      BY <1>3, <2>5 DEF Typed, Ids, Move, server
  <1>4. ASSUME Drop(e)  PROVE  Typed' /\ Ids'
    <2>1. PICK g : g = gesture[e]
      OBVIOUS
    <2>2. gesture' \in [Editor -> Gestures]
      BY <1>1, <1>4, Firsts DEF Drop
    <2>3. g \in Gestures /\ g.st # "none"
      BY <1>1, <1>4, <2>1 DEF Drop, Interacting
    <2>4. CASE UNCHANGED <<writes, work>>
      BY <1>4, <2>2, <2>4 DEF Typed, Ids, Drop, server
    <2>5. CASE ~UNCHANGED <<writes, work>>
      <3>1. PICK w : w = [id |-> work', ed |-> e, dev |-> g.dev, st |-> "sent",
                 op |-> g.st, unit |-> IF g.st = "drag" THEN g.to ELSE 1,
                 size |-> IF g.st = "drag" THEN 1 ELSE g.to, sure |-> g.fresh,
                 no |-> 0, orphan |-> FALSE]
        OBVIOUS
      <3>2. Work /\ writes' = writes \cup {w}
        BY <1>4, <2>1, <2>5, <3>1 DEF Drop
      <3>3. work' \in Nat
        BY <3>2 DEF Work, Typed
      <3>4. w \in Writes /\ w.id = work'
        BY <2>3, <3>1, <3>3, Firsts DEF Gestures, Writes
      <3>5. writes' \subseteq Writes /\ work' \in Nat /\ work' <= MaxWork /\ Ids'
        BY <3>2, <3>4, WriteSent
      <3> QED
        BY <1>4, <2>2, <3>5 DEF Typed, Drop, server
    <2> QED
      BY <2>4, <2>5
  <1> QED
    BY <1>2, <1>3, <1>4 DEF Grab

LEMMA DialogsTyped ==
  ASSUME Typed, Ids, NEW e \in Editor, Opens(e) \/ Dialog(e) \/ Looks(e)
  PROVE  Typed' /\ Ids'
  <1>1. dialog[e] \in Dialogs /\ dialog \in [Editor -> Dialogs]
    BY DEF Typed
  <1>2. ASSUME NEW u \in EmptySlots(e) \cup {0}, OpenDialog(e, u)  PROVE  Typed' /\ Ids'
    <2>1. PICK n \in Nat : n = NewNo
      BY NewNoFree, RackAssumption
    <2>2. u \in 0..TotalU
      BY RackAssumption DEF EmptySlots, Unit
    <2>3. PICK b \in BOOLEAN : b = (u # 0 /\ UpToDate(e))
      OBVIOUS
    <2>4. PICK g : g = [Closed EXCEPT !.st = "asked", !.no = n, !.at = u, !.sure = b]
      OBVIOUS
    <2>5. g \in Dialogs /\ g.size = 1
      BY <2>2, <2>4, Firsts DEF Closed, Dialogs
    <2>6. PICK h : h = IF Loaded(e) THEN Mounted(g, view[e]) ELSE g
      OBVIOUS
    <2>7. h \in Dialogs
      BY <2>5, <2>6, MountedDialog
    <2>8. dialog' = [dialog EXCEPT ![e] = h]
      BY <1>2, <2>1, <2>3, <2>4, <2>6 DEF OpenDialog
    <2>9. dialog' \in [Editor -> Dialogs]
      BY <1>1, <2>7, <2>8
    <2> QED
      BY <1>2, <2>9 DEF Typed, Ids, OpenDialog, server
  <1>3. ASSUME NEW h \in Unit, TypeHeight(e, h)  PROVE  Typed' /\ Ids'
    <2>1. PICK u \in Unit : u = NextFreeSlot(view[e], h)
      BY NextUnit
    <2>2. PICK b \in BOOLEAN : b = Sure(view[e], h)
      BY DEF Sure
    <2>3. dialog' = [dialog EXCEPT ![e] = [dialog[e] EXCEPT !.size = h, !.unit = u, !.sure = b]]
      BY <1>1, <1>3, <2>1, <2>2 DEF TypeHeight
    <2>4. [dialog[e] EXCEPT !.size = h, !.unit = u, !.sure = b] \in Dialogs
      BY <1>1, <1>3, Firsts DEF Dialogs, TypeHeight
    <2>5. dialog' \in [Editor -> Dialogs]
      BY <1>1, <2>3, <2>4
    <2> QED
      BY <1>3, <2>5 DEF Typed, Ids, TypeHeight, server
  <1>4. ASSUME NEW u \in Unit, TypeUnit(e, u)  PROVE  Typed' /\ Ids'
    <2>1. [dialog[e] EXCEPT !.unit = u, !.sure = FALSE] \in Dialogs
      BY <1>1, Firsts DEF Dialogs
    <2>2. dialog' = [dialog EXCEPT ![e] = [dialog[e] EXCEPT !.unit = u, !.sure = FALSE]]
      BY <1>1, <1>4 DEF TypeUnit
    <2>3. dialog' \in [Editor -> Dialogs]
      BY <1>1, <2>1, <2>2
    <2> QED
      BY <1>4, <2>3 DEF Typed, Ids, TypeUnit, server
  <1>5. ASSUME NEW d \in Device, Submit(e, d)  PROVE  Typed' /\ Ids'
    <2>1. PICK w : w = [id |-> work', ed |-> e, dev |-> d, st |-> "sent", op |-> "create",
                             unit |-> dialog[e].unit, size |-> dialog[e].size,
                             sure |-> dialog[e].sure, no |-> dialog[e].no, orphan |-> FALSE]
      OBVIOUS
    <2>2. work' \in Nat /\ Work
      BY <1>5 DEF Submit, Work, Typed
    <2>3. w \in Writes /\ w.id = work'
      BY <1>1, <1>5, <2>1, <2>2, Firsts DEF Dialogs, Writes, Submit, SubmitEnabled
    <2>4. writes' = writes \cup {w}
      BY <1>5, <2>1 DEF Submit
    <2>5. writes' \subseteq Writes /\ work' \in Nat /\ work' <= MaxWork /\ Ids'
      BY <2>2, <2>3, <2>4, WriteSent
    <2>6. [dialog[e] EXCEPT !.pend = work'] \in Dialogs
      BY <1>1, <2>2 DEF Dialogs
    <2>7. dialog' = [dialog EXCEPT ![e] = [dialog[e] EXCEPT !.pend = work']]
      BY <1>1, <1>5 DEF Submit
    <2>8. dialog' \in [Editor -> Dialogs]
      BY <1>1, <2>6, <2>7
    <2> QED
      BY <1>5, <2>5, <2>8 DEF Typed, Submit, server
  <1>6. ASSUME Cancel(e)  PROVE  Typed' /\ Ids'
    <2>1. dialog' \in [Editor -> Dialogs]
      BY <1>1, <1>6, Firsts DEF Cancel
    <2> QED
      BY <1>6, <2>1 DEF Typed, Ids, Cancel, server
  <1>7. ASSUME Looks(e)  PROVE  Typed' /\ Ids'
    BY <1>7 DEF Typed, Ids, Looks, PanelOpenDevice, PanelBack, server
  <1> QED
    BY <1>2, <1>3, <1>4, <1>5, <1>6, <1>7 DEF Opens, Dialog
-----------------------------------------------------------------------------
LEMMA UnsureTyped ==
  ASSUME Typed, Ids, NEW ws \in SUBSET writes
  PROVE  \A x \in Unsure(ws) : /\ x \in Writes /\ ~x.sure
                               /\ \E y \in ws : x = [y EXCEPT !.sure = FALSE] /\ y.id = x.id
  <1>1. ws \subseteq Writes
    BY DEF Typed
  <1>2. ASSUME NEW x \in Unsure(ws)
        PROVE  /\ x \in Writes /\ ~x.sure
               /\ \E y \in ws : x = [y EXCEPT !.sure = FALSE] /\ y.id = x.id
    <2>1. PICK y \in ws : x = [y EXCEPT !.sure = FALSE]
      BY DEF Unsure
    <2>2. y \in Writes
      BY <1>1
    <2> QED
      BY <2>1, <2>2, ToServed DEF Writes
  <1> QED
    BY <1>2

LEMMA OneUnsure ==
  ASSUME Typed, Ids, NEW ws \in SUBSET writes,
         NEW x \in Unsure(ws), NEW v \in Unsure(ws), x.id = v.id
  PROVE  x = v
  <1>1. PICK y \in ws : x = [y EXCEPT !.sure = FALSE] /\ y.id = x.id
    BY UnsureTyped
  <1>2. PICK z \in ws : v = [z EXCEPT !.sure = FALSE] /\ z.id = v.id
    BY UnsureTyped
  <1>3. y = z
    BY <1>1, <1>2 DEF Ids
  <1> QED
    BY <1>1, <1>2, <1>3

LEMMA ServeTyped ==
  ASSUME Typed, Ids, NEW w \in writes, Serve(w)
  PROVE  Typed' /\ Ids'
  <1>1. w \in Writes
    BY DEF Typed
  <1>2. PICK row : row = Stored(w)
    OBVIOUS
  <1>3. row \in Row
    BY <1>2, StoredRow
  <1>4. rack' \in [Device -> Row] /\ checked' \subseteq Device
    <2>1. rack' = [rack EXCEPT ![w.dev] = row] /\ w.dev \in Device
      BY <1>1, <1>2 DEF Serve, Apply, Writes
    <2>2. checked' = IF w.sure THEN checked \cup {w.dev} ELSE checked \ {w.dev}
      BY DEF Serve, Apply
    <2> QED
      BY <1>3, <2>1, <2>2 DEF Typed
  <1>5. gesture' \in [Editor -> Gestures]
    BY Fresher DEF Serve, Apply
  <1>6. dialog' \in [Editor -> Dialogs]
    <2>1. ASSUME NEW e \in Editor  PROVE  dialog'[e] \in Dialogs
      <3>1. dialog[e] \in Dialogs
        BY DEF Typed
      <3>2. PICK n \in Nat : n = dialog[e].made + (IF e = w.ed /\ w.no # 0 /\ w.no = dialog[e].no
                                                   THEN 1 ELSE 0)
        BY <3>1 DEF Dialogs
      <3>3. dialog'[e] = [dialog[e] EXCEPT !.sure = FALSE, !.made = n]
        BY <3>1, <3>2 DEF Serve, Dialogs
      <3> QED
        BY <3>1, <3>3 DEF Dialogs
    <2>2. dialog' = [e \in Editor |-> dialog'[e]]
      BY DEF Serve
    <2> QED
      BY <2>1, <2>2
  <1>7. writes' \subseteq Writes /\ Ids'
    <2>1. PICK y : y = [w EXCEPT !.st = "served"]
      OBVIOUS
    <2>2. y \in Writes /\ y.id = w.id
      BY <1>1, <2>1, ToServed DEF Writes
    <2>3. writes' = Unsure(writes \ {w}) \cup (IF w.orphan THEN {} ELSE {y})
      BY <2>1 DEF Serve
    <2>4. \A x \in writes' : x \in Writes /\ \E v \in writes : v.id = x.id
      BY <2>2, <2>3, UnsureTyped
    <2>5. \A x \in Unsure(writes \ {w}) : x.id # w.id
      BY UnsureTyped DEF Ids
    <2>6. \A x, v \in writes' : x.id = v.id => x = v
      <3>1. \A x, v \in Unsure(writes \ {w}) : x.id = v.id => x = v
        BY OneUnsure
      <3> QED
        BY <2>2, <2>3, <2>5, <3>1
    <2>7. UNCHANGED work
      BY DEF Serve
    <2> QED
      BY <2>4, <2>6, <2>7, WritesLeft
  <1> QED
    BY <1>4, <1>5, <1>6, <1>7 DEF Typed, Serve

LEMMA WriteGone ==
  ASSUME Typed, Ids, NEW w \in writes, writes' = writes \ {w}, UNCHANGED work
  PROVE  writes' \subseteq Writes /\ Ids'
  BY DEF Typed, Ids

LEMMA NetworkTyped ==
  ASSUME Typed, Ids, NEW w \in writes,
         \/ Lose(w) \/ DropAnswered(w) \/ DropRefused(w) \/ CreateAnswered(w) \/ CreateRefused(w)
  PROVE  Typed' /\ Ids'
  <1>1. w \in Writes /\ w.ed \in Editor
    BY DEF Typed, Writes
  <1>2. \A e \in Editor : dialog[e] \in Dialogs
    BY DEF Typed
  <1>3. ASSUME Lose(w)  PROVE  Typed' /\ Ids'
    <2>1. writes' \subseteq Writes /\ Ids'
      <3>1. PICK y : y = [w EXCEPT !.orphan = TRUE]
        OBVIOUS
      <3>2. y \in Writes /\ y.id = w.id
        BY <1>1, <3>1, ToServed DEF Writes
      <3>3. writes' = (writes \ {w}) \cup (IF w.st = "sent" THEN {y} ELSE {})
        BY <1>3, <3>1 DEF Lose
      <3>4. UNCHANGED work
        BY <1>3 DEF Lose
      <3> QED
        BY <3>2, <3>3, <3>4 DEF Typed, Ids
    <2>2. fetch' \in [Editor -> Fetches]
      BY <1>1, <1>3, RefetchTyped DEF Lose, Typed
    <2>3. dialog' \in [Editor -> Dialogs]
      <3>1. CASE w.op = "create"
        <4>1. PICK n \in Nat : n = NewNo
          BY NewNoFree, RackAssumption
        <4>2. PICK p \in Nat : p = IF dialog[w.ed].pend = w.id THEN 0 ELSE dialog[w.ed].pend
          BY <1>1, <1>2 DEF Dialogs
        <4>3. PICK m \in Nat : m = IF w.no = dialog[w.ed].no THEN 0 ELSE dialog[w.ed].made
          BY <1>1, <1>2 DEF Dialogs
        <4>4. PICK o \in Nat : o = IF w.no = dialog[w.ed].no THEN n ELSE dialog[w.ed].no
          BY <1>1, <1>2 DEF Dialogs
        <4>5. dialog' = [dialog EXCEPT ![w.ed] =
                           [dialog[w.ed] EXCEPT !.pend = p, !.made = m, !.no = o]]
          BY <1>1, <1>2, <1>3, <3>1, <4>1, <4>2, <4>3, <4>4 DEF Lose, Dialogs, Typed
        <4>6. [dialog[w.ed] EXCEPT !.pend = p, !.made = m, !.no = o] \in Dialogs
          BY <1>1, <1>2 DEF Dialogs
        <4> QED
          BY <4>5, <4>6 DEF Typed
      <3>2. CASE w.op # "create"
        BY <1>3, <3>2 DEF Lose, Typed
      <3> QED
        BY <3>1, <3>2
    <2>4. mishaps' \in Nat
      BY <1>3 DEF Lose, Mishap, Typed
    <2> QED
      BY <1>3, <2>1, <2>2, <2>3, <2>4 DEF Typed, Lose
  <1>4. ASSUME DropAnswered(w)  PROVE  Typed' /\ Ids'
    <2>1. writes' \subseteq Writes /\ Ids' /\ fetch' \in [Editor -> Fetches]
      BY <1>1, <1>4, WriteGone, RefetchTyped DEF DropAnswered, Answered
    <2> QED
      BY <1>4, <2>1 DEF Typed, DropAnswered, server
  <1>5. ASSUME DropRefused(w)  PROVE  Typed' /\ Ids'
    <2>1. writes' \subseteq Writes /\ Ids' /\ fetch' \in [Editor -> Fetches]
      BY <1>1, <1>5, WriteGone, RefetchTyped DEF DropRefused
    <2>2. mishaps' \in Nat
      BY <1>5 DEF DropRefused, Mishap, Typed
    <2> QED
      BY <1>5, <2>1, <2>2 DEF Typed, DropRefused, server
  <1>6. ASSUME CreateAnswered(w)  PROVE  Typed' /\ Ids'
    <2>1. writes' \subseteq Writes /\ Ids' /\ fetch' \in [Editor -> Fetches]
      BY <1>1, <1>6, WriteGone, RefetchTyped DEF CreateAnswered
    <2>2. dialog' \in [Editor -> Dialogs]
      BY <1>6, Firsts DEF CreateAnswered, Typed
    <2> QED
      BY <1>6, <2>1, <2>2 DEF Typed, CreateAnswered, server
  <1>7. ASSUME CreateRefused(w)  PROVE  Typed' /\ Ids'
    <2>1. writes' \subseteq Writes /\ Ids'
      BY <1>7, WriteGone DEF CreateRefused
    <2>2. mishaps' \in Nat
      BY <1>7 DEF CreateRefused, Mishap, Typed
    <2>3. PICK p \in Nat : p = IF dialog[w.ed].pend = w.id THEN 0 ELSE dialog[w.ed].pend
      BY <1>1, <1>2 DEF Dialogs
    <2>4. dialog' = [dialog EXCEPT ![w.ed] = [dialog[w.ed] EXCEPT !.pend = p]]
      BY <1>1, <1>2, <1>7, <2>3 DEF CreateRefused, Dialogs, Typed
    <2>5. [dialog[w.ed] EXCEPT !.pend = p] \in Dialogs
      BY <1>1, <1>2 DEF Dialogs
    <2>6. dialog' \in [Editor -> Dialogs]
      BY <2>4, <2>5 DEF Typed
    <2> QED
      BY <1>7, <2>1, <2>2, <2>6 DEF Typed, CreateRefused, server
  <1> QED
    BY <1>3, <1>4, <1>5, <1>6, <1>7

LEMMA ElsewhereTyped ==
  ASSUME Typed, Ids, NEW d \in Device, Elsewhere(d)
  PROVE  Typed' /\ Ids'
  <1>1. PICK s \in {"active", "inactive"} : s = IF rack[d].st = "active" THEN "inactive" ELSE "active"
    OBVIOUS
  <1>2. rack' = [rack EXCEPT ![d] = [rack[d] EXCEPT !.st = s]]
    BY <1>1 DEF Elsewhere, Typed, Row
  <1>3. [rack[d] EXCEPT !.st = s] \in Row
    BY DEF Typed, Row
  <1>4. rack' \in [Device -> Row] /\ checked' \subseteq Device /\ mishaps' \in Nat
    BY <1>2, <1>3 DEF Elsewhere, Typed, Mishap
  <1>5. gesture' \in [Editor -> Gestures]
    BY Fresher DEF Elsewhere
  <1>6. dialog' \in [Editor -> Dialogs]
    <2>1. \A e \in Editor : [dialog[e] EXCEPT !.sure = FALSE] \in Dialogs
      BY DEF Typed, Dialogs
    <2> QED
      BY <2>1 DEF Elsewhere
  <1>7. writes' \subseteq Writes /\ Ids'
    <2>1. \A x, v \in writes' : x.id = v.id => x = v
      BY OneUnsure DEF Elsewhere
    <2>2. \A x \in writes' : x \in Writes /\ \E v \in writes : v.id = x.id
      BY UnsureTyped DEF Elsewhere
    <2>3. UNCHANGED work
      BY DEF Elsewhere
    <2> QED
      BY <2>1, <2>2, <2>3, WritesLeft
  <1> QED
    BY <1>4, <1>5, <1>6, <1>7 DEF Typed, Elsewhere

LEMMA QueryTyped ==
  ASSUME Typed, Ids, lag \subseteq Editor \X Nat, NEW e \in Editor, Query(e)
  PROVE  Typed' /\ Ids'
  <1>1. fetch[e] \in Fetches /\ fetch \in [Editor -> Fetches]
    BY DEF Typed
  <1>2. ASSUME FetchServed(e)  PROVE  Typed' /\ Ids'
    <2>1. PICK v \in Elevations : v = Shown(rack)
      BY ShownSeen
    <2>2. [fetch[e] EXCEPT !.st = "served", !.snap = v, !.covers = lag] \in Fetches
      BY <1>1 DEF Fetches, Seen
    <2>3. fetch' = [fetch EXCEPT ![e] =
                      [fetch[e] EXCEPT !.st = "served", !.snap = v, !.covers = lag]]
      BY <1>1, <1>2, <2>1 DEF FetchServed, Fetches
    <2>4. fetch' \in [Editor -> Fetches]
      BY <1>1, <2>2, <2>3
    <2> QED
      BY <1>2, <2>4 DEF FetchServed, Typed, Ids, server
  <1>3. ASSUME FetchLands(e)  PROVE  Typed' /\ Ids'
    <2>1. fetch[e].snap \in Seen
      BY <1>1 DEF Fetches
    <2>2. fetch' \in [Editor -> Fetches] /\ view' \in [Editor -> Seen]
      BY <1>3, <2>1, Firsts DEF FetchLands, Typed
    <2>3. dialog[e] \in Dialogs
      BY DEF Typed
    <2>4. dialog' \in [Editor -> Dialogs]
      <3>1. CASE dialog[e].st = "asked"
        <4>1. dialog[e].size = 1
          BY <2>3, <3>1 DEF Dialogs
        <4>2. PICK g \in Dialogs : g = Mounted(dialog[e], fetch[e].snap)
          BY <2>3, <4>1, MountedDialog
        <4>3. dialog' = [dialog EXCEPT ![e] = g]
          BY <1>3, <3>1, <4>2 DEF FetchLands
        <4> QED
          BY <4>3 DEF Typed
      <3>2. CASE dialog[e].st # "asked"
        BY <1>3, <3>2 DEF FetchLands, Typed
      <3> QED
        BY <3>1, <3>2
    <2>5. gesture' \in [Editor -> Gestures]
      <3>1. PICK b \in BOOLEAN : b = (gesture[e].fresh /\ view' = view)
        OBVIOUS
      <3>2. gesture' = [gesture EXCEPT ![e] = [gesture[e] EXCEPT !.fresh = b]]
        BY <1>3, <3>1 DEF FetchLands, Typed, Gestures
      <3> QED
        BY <3>2, Fresher DEF Typed
    <2> QED
      BY <1>3, <2>2, <2>4, <2>5 DEF FetchLands, Typed, Ids
  <1>4. ASSUME FetchFails(e)  PROVE  Typed' /\ Ids'
    <2>1. fetch' \in [Editor -> Fetches]
      BY <1>4, Firsts DEF FetchFails, Typed
    <2>2. dialog[e] \in Dialogs /\ dialog[e].at \in 0..TotalU
      BY DEF Typed, Dialogs
    <2>3. PICK g : g = [Closed EXCEPT !.st = "asked", !.at = dialog[e].at]
      OBVIOUS
    <2>4. g \in Dialogs
      BY <2>2, <2>3, Firsts DEF Dialogs, Closed
    <2>5. dialog' = dialog \/ dialog' = [dialog EXCEPT ![e] = g]
      BY <1>4, <2>3 DEF FetchFails
    <2>6. dialog' \in [Editor -> Dialogs]
      BY <2>4, <2>5 DEF Typed
    <2>7. mishaps' \in Nat
      BY <1>4 DEF FetchFails, Mishap, Typed
    <2> QED
      BY <1>4, <2>1, <2>6, <2>7 DEF FetchFails, Typed, Ids, server
  <1>5. ASSUME Refocus(e)  PROVE  Typed' /\ Ids'
    <2>1. fetch' \in [Editor -> Fetches]
      BY <1>5, RefetchTyped DEF Refocus
    <2> QED
      BY <1>5, <2>1 DEF Refocus, Typed, Ids, server
  <1> QED
    BY <1>2, <1>3, <1>4, <1>5 DEF Query
-----------------------------------------------------------------------------
LagIds == lag \subseteq Editor \X (1..work)

Base == Typed /\ Ids /\ LagIds

\* An action fits one of these, apart from the writes that it applies.
LEMMA LagNext ==
  ASSUME Base, Next
  PROVE  LagIds'
  <1>1. work \in Nat /\ (work' = work \/ work' = work + 1) /\ 1..work \subseteq 1..work'
    <2>1. work \in Nat
      BY DEF Base, Typed
    <2>2. work' = work \/ work' = work + 1
      BY Steps DEF Grab, Press, Move, Drop, Opens, OpenDialog, Dialog, TypeHeight, TypeUnit, Submit,
         Cancel, Looks, PanelOpenDevice, PanelBack, Query, FetchServed, FetchLands, FetchFails,
         Refocus, Serve, Lose, DropAnswered, DropRefused, CreateAnswered, CreateRefused, Elsewhere,
         Work, Typed
    <2> QED
      BY <2>1, <2>2
  <1>2. lag' \subseteq lag \/ \E w \in writes : lag' = lag \cup {<<w.ed, w.id>>}
    BY Steps DEF Grab, Press, Move, Drop, Opens, OpenDialog, Dialog, TypeHeight, TypeUnit, Submit,
       Cancel, Looks, PanelOpenDevice, PanelBack, Query, FetchServed, FetchLands, FetchFails,
       Refocus, Serve, Apply, Lose, DropAnswered, DropRefused, CreateAnswered, CreateRefused,
       Elsewhere, server
  <1>3. \A w \in writes : w.ed \in Editor /\ w.id \in 1..work
    BY DEF Base, Typed, Ids, Writes
  <1> QED
    BY <1>1, <1>2, <1>3 DEF Base, LagIds

LEMMA BaseInit ==
  ASSUME Init
  PROVE  Base
  <1>1. PICK s \in Scenarios : kind = s.kind /\ rack = s.rack
    BY DEF Init
  <1>2. kind \in [Editor -> Kind] /\ rack \in [Device -> Row]
    BY <1>1, RackAssumption
  <1>3. view \in [Editor -> Seen]
    BY DEF Init, Seen
  <1>4. fetch \in [Editor -> Fetches]
    <2>1. [Idle EXCEPT !.st = "sent"] \in Fetches
      BY DEF Idle, Fetches, Seen
    <2> QED
      BY <2>1 DEF Init
  <1>5. gesture \in [Editor -> Gestures] /\ dialog \in [Editor -> Dialogs]
    BY Firsts DEF Init
  <1>6. writes = {} /\ work = 0 /\ mishaps = 0 /\ checked = Device /\ lag = {}
    BY DEF Init
  <1> QED
    BY <1>2, <1>3, <1>4, <1>5, <1>6, RackAssumption DEF Base, Typed, Ids, LagIds

LEMMA BaseNext ==
  ASSUME Base, [Next]_vars
  PROVE  Base'
  <1>1. CASE Next
    <2>1. lag \subseteq Editor \X Nat
      BY DEF Base, LagIds, Typed
    <2>2. Typed' /\ Ids'
      BY <1>1, <2>1, Steps, GesturesTyped, DialogsTyped, QueryTyped, ServeTyped, NetworkTyped,
         ElsewhereTyped DEF Base
    <2> QED
      BY <1>1, <2>2, LagNext DEF Base
  <1>2. CASE UNCHANGED vars
    BY <1>2 DEF Base, Typed, Ids, LagIds, vars
  <1> QED
    BY <1>1, <1>2

LEMMA BaseAlways == Spec => []Base
  BY BaseInit, BaseNext, PTL DEF Spec
-----------------------------------------------------------------------------
(* An editor hears of its own writes *)

\* An applied write that its editor does not show is still to be answered, or
\* it is in the answer that is on its way, or in one that is to be fetched.
Coming(l) ==
  \/ \E w \in writes : w.id = l[2]
  \/ fetch[l[1]].st \in {"sent", "failed"}
  \/ fetch[l[1]].st = "served" /\ l \in fetch[l[1]].covers

Lagging ==
  /\ \A w \in writes : w.orphan => w.st = "sent"
  /\ \A l \in lag, w \in writes : w.id = l[2] => w.ed = l[1] /\ w.st = "served"
  /\ \A l \in lag : Coming(l)

LEMMA LagPair ==
  ASSUME Base, NEW l \in lag
  PROVE  l[1] \in Editor /\ l[2] \in 1..work /\ l = <<l[1], l[2]>>
  BY DEF Base, LagIds

LEMMA LagSame ==
  ASSUME Lagging, UNCHANGED <<fetch, lag>>,
         \A x \in writes' : \E y \in writes : /\ x.id = y.id /\ x.ed = y.ed /\ x.st = y.st
                                              /\ x.orphan = y.orphan,
         \A y \in writes : \E x \in writes' : x.id = y.id
  PROVE  Lagging'
  <1>1. \A l \in lag : Coming(l)'
    BY DEF Lagging, Coming
  <1> QED
    BY <1>1 DEF Lagging

LEMMA LagSent ==
  ASSUME Base, Lagging, UNCHANGED <<fetch, lag>>, NEW w, writes' = writes \cup {w},
         w.id = work + 1, ~w.orphan
  PROVE  Lagging'
  <1>1. \A l \in lag : Coming(l)'
    BY DEF Lagging, Coming
  <1>2. \A l \in lag : l[2] # w.id
    BY LagPair DEF Base, Typed
  <1> QED
    BY <1>1, <1>2 DEF Lagging

\* An answer, or a refusal, makes its editor fetch.
LEMMA LagAnswered ==
  ASSUME Base, Lagging, NEW w \in writes, writes' = writes \ {w}, lag' \subseteq lag, Refetch(w.ed)
  PROVE  Lagging'
  <1>1. w.ed \in Editor /\ DOMAIN fetch = Editor
    BY DEF Base, Typed, Writes
  <1>2. \A e \in Editor : fetch'[e] = IF e = w.ed THEN fetch'[w.ed] ELSE fetch[e]
    BY <1>1 DEF Refetch
  <1>3. fetch'[w.ed].st = "sent"
    BY <1>1 DEF Refetch, Idle
  <1>4. ASSUME NEW l \in lag  PROVE  Coming(l)'
    <2>1. l[1] \in Editor /\ (l[2] = w.id => l[1] = w.ed)
      BY LagPair DEF Lagging
    <2> QED
      BY <1>2, <1>3, <2>1 DEF Lagging, Coming
  <1> QED
    BY <1>4 DEF Lagging

LEMMA UnsureCopies ==
  ASSUME Base, NEW ws \in SUBSET writes
  PROVE  /\ \A x \in Unsure(ws) : \E y \in ws : /\ x.id = y.id /\ x.ed = y.ed /\ x.st = y.st
                                                /\ x.orphan = y.orphan
         /\ \A y \in ws : \E x \in Unsure(ws) : x.id = y.id
  <1>1. ASSUME NEW y \in ws
        PROVE  LET x == [y EXCEPT !.sure = FALSE]
               IN x.id = y.id /\ x.ed = y.ed /\ x.st = y.st /\ x.orphan = y.orphan
    BY DEF Base, Typed, Writes
  <1>2. ASSUME NEW x \in Unsure(ws)
        PROVE  \E y \in ws : /\ x.id = y.id /\ x.ed = y.ed /\ x.st = y.st
                             /\ x.orphan = y.orphan
    <2>1. PICK y \in ws : x = [y EXCEPT !.sure = FALSE]
      BY DEF Unsure
    <2> QED
      BY <1>1, <2>1
  <1>3. ASSUME NEW y \in ws
        PROVE  \E x \in Unsure(ws) : x.id = y.id
    <2>1. [y EXCEPT !.sure = FALSE] \in Unsure(ws)
      BY DEF Unsure
    <2> QED
      BY <1>1, <2>1
  <1> QED
    BY <1>2, <1>3

LEMMA LagServe ==
  ASSUME Base, Lagging, NEW w \in writes, Serve(w)
  PROVE  Lagging'
  <1>1. w \in Writes /\ w.st = "sent" /\ w.id \in 1..work
    BY DEF Base, Typed, Ids, Serve
  <1>2. PICK v : v = [w EXCEPT !.st = "served"]
    OBVIOUS
  <1>3. v.id = w.id /\ v.ed = w.ed /\ v.st = "served" /\ v.orphan = w.orphan
    BY <1>1, <1>2 DEF Writes
  <1>4. writes' = Unsure(writes \ {w}) \cup (IF w.orphan THEN {} ELSE {v})
    BY <1>2 DEF Serve
  <1>5. lag' = IF w.orphan THEN lag ELSE lag \cup {<<w.ed, w.id>>}
    BY DEF Serve, Apply
  <1>6. UNCHANGED fetch
    BY DEF Serve
  <1>7. \A l \in lag : l[2] # w.id
    BY <1>1 DEF Lagging
  <1>8. \A x \in Unsure(writes \ {w}) : \E y \in writes \ {w} : /\ x.id = y.id /\ x.ed = y.ed
                                                /\ x.st = y.st /\ x.orphan = y.orphan
    BY UnsureCopies
  <1>9. \A y \in writes \ {w} : \E x \in Unsure(writes \ {w}) : x.id = y.id
    BY UnsureCopies
  <1>10. \A y \in writes \ {w} : y.id # w.id
    BY DEF Base, Ids
  <1>11. \A l \in lag' : l \in lag \/ (l[1] = w.ed /\ l[2] = w.id /\ ~w.orphan)
    BY <1>5
  <1>12. \A x \in writes' : x \in Unsure(writes \ {w}) \/ (x = v /\ ~w.orphan)
    BY <1>4
  <1>13. \A x \in Unsure(writes \ {w}) : x \in writes'
    BY <1>4
  <1>14. ASSUME NEW l \in lag'  PROVE  Coming(l)'
    <2>1. CASE l \in lag
      <3>1. Coming(l)
        BY <2>1 DEF Lagging
      <3>2. CASE \E y \in writes : y.id = l[2]
        <4>1. PICK y \in writes \ {w} : y.id = l[2]
          BY <1>7, <2>1, <3>2
        <4>2. PICK x \in Unsure(writes \ {w}) : x.id = y.id
          BY <1>9, <4>1
        <4> QED
          BY <1>13, <4>1, <4>2 DEF Coming
      <3>3. CASE ~\E y \in writes : y.id = l[2]
        BY <1>6, <3>1, <3>3 DEF Coming
      <3> QED
        BY <3>2, <3>3
    <2>2. CASE l \notin lag
      <3>1. l[2] = w.id /\ v \in writes'
        BY <1>4, <1>11, <2>2
      <3> QED
        BY <1>3, <3>1 DEF Coming
    <2> QED
      BY <2>1, <2>2
  <1>15. ASSUME NEW l \in lag', NEW x \in writes', x.id = l[2]
         PROVE  x.ed = l[1] /\ x.st = "served"
    <2>1. CASE x \in Unsure(writes \ {w})
      <3>1. PICK y \in writes \ {w} : x.id = y.id /\ x.ed = y.ed /\ x.st = y.st
        BY <1>8, <2>1
      <3>2. l \in lag
        BY <1>10, <1>15, <1>11, <3>1
      <3> QED
        BY <1>15, <3>1, <3>2 DEF Lagging
    <2>2. CASE x = v
      BY <1>3, <1>7, <1>15, <1>11, <2>2
    <2> QED
      BY <1>12, <2>1, <2>2
  <1>16. \A x \in writes' : x.orphan => x.st = "sent"
    <2>1. ASSUME NEW x \in Unsure(writes \ {w}), x.orphan  PROVE  x.st = "sent"
      <3>1. PICK y \in writes : x.st = y.st /\ x.orphan = y.orphan
        BY <1>8
      <3> QED
        BY <2>1, <3>1 DEF Lagging
    <2>2. ~w.orphan => ~v.orphan
      BY <1>3
    <2> QED
      BY <1>12, <2>1, <2>2
  <1> QED
    BY <1>14, <1>15, <1>16 DEF Lagging

LEMMA LagLose ==
  ASSUME Base, Lagging, NEW w \in writes, Lose(w)
  PROVE  Lagging'
  <1>1. w \in Writes /\ w.ed \in Editor /\ DOMAIN fetch = Editor
    BY DEF Base, Typed, Writes
  <1>2. PICK v : v = [w EXCEPT !.orphan = TRUE]
    OBVIOUS
  <1>3. v.id = w.id /\ v.st = w.st
    BY <1>1, <1>2 DEF Writes
  <1>4. writes' = (writes \ {w}) \cup (IF w.st = "sent" THEN {v} ELSE {})
    BY <1>2 DEF Lose
  <1>5. lag' = lag \ {<<w.ed, w.id>>}
    BY DEF Lose
  <1>6. UNCHANGED fetch \/ Refetch(w.ed)
    BY DEF Lose
  <1>7. \A l \in lag' : l \in lag /\ l[2] # w.id
    BY <1>5, LagPair DEF Lagging
  <1>8. \A e \in Editor : fetch'[e] = fetch[e] \/ fetch'[e].st = "sent"
    BY <1>1, <1>6 DEF Refetch, Idle
  <1>9. ASSUME NEW l \in lag'  PROVE  Coming(l)'
    <2>1. l[1] \in Editor /\ l \in lag /\ l[2] # w.id
      BY <1>7, LagPair
    <2> QED
      BY <1>4, <1>8, <2>1 DEF Lagging, Coming
  <1> QED
    BY <1>3, <1>4, <1>7, <1>9 DEF Lagging

LEMMA LagQuery ==
  ASSUME Base, Lagging, NEW e \in Editor, Query(e)
  PROVE  Lagging'
  <1>1. DOMAIN fetch = Editor /\ fetch[e] \in Fetches
    BY DEF Base, Typed
  <1>2. UNCHANGED writes /\ lag' \subseteq lag
    BY DEF Query, FetchServed, FetchLands, FetchFails, Refocus, server
  <1>3. \A f \in Editor : f # e => fetch'[f] = fetch[f]
    BY <1>1 DEF Query, FetchServed, FetchLands, FetchFails, Refocus, Refetch
  <1>4. ASSUME NEW l \in lag'  PROVE  Coming(l)'
    <2>1. l \in lag /\ l[1] \in Editor /\ Coming(l)
      BY <1>2, LagPair DEF Lagging
    <2>2. CASE l[1] # e
      BY <1>2, <1>3, <2>1, <2>2 DEF Coming
    <2>3. CASE l[1] = e
      <3>1. CASE FetchServed(e)
        <4>1. fetch'[e].st = "served" /\ fetch'[e].covers = lag
          BY <1>1, <3>1 DEF FetchServed, Fetches
        <4> QED
          BY <2>1, <2>3, <4>1 DEF Coming
      <3>2. CASE FetchLands(e)
        <4>1. fetch[e].st = "served" /\ l \notin fetch[e].covers
          BY <2>1, <2>3, <3>2 DEF FetchLands
        <4> QED
          BY <1>2, <2>1, <2>3, <4>1 DEF Coming
      <3>3. CASE FetchFails(e)
        <4>1. fetch'[e].st = "failed"
          BY <1>1, <3>3 DEF FetchFails, Idle
        <4> QED
          BY <2>1, <2>3, <4>1 DEF Coming
      <3>4. CASE Refocus(e)
        <4>1. fetch'[e].st = "sent"
          BY <1>1, <3>4 DEF Refocus, Refetch, Idle
        <4> QED
          BY <2>1, <2>3, <4>1 DEF Coming
      <3> QED
        BY <3>1, <3>2, <3>3, <3>4 DEF Query
    <2> QED
      BY <2>2, <2>3
  <1> QED
    BY <1>2, <1>4 DEF Lagging

LEMMA LaggingNext ==
  ASSUME Base, Lagging, [Next]_vars
  PROVE  Lagging'
  <1>0. ASSUME UNCHANGED <<fetch, lag, writes>>  PROVE  Lagging'
    BY <1>0, LagSame
  <1>1. ASSUME NEW e \in Editor, Grab(e) \/ Move(e)  PROVE  Lagging'
    BY <1>0, <1>1 DEF Grab, Press, Move, server
  <1>2. ASSUME NEW e \in Editor, Drop(e)  PROVE  Lagging'
    <2>1. UNCHANGED <<fetch, lag>>
      BY <1>2 DEF Drop, server
    <2>2. UNCHANGED writes \/ \E w : writes' = writes \cup {w} /\ w.id = work + 1 /\ ~w.orphan
      <3>1. PICK w : w = [id |-> work', ed |-> e, dev |-> gesture[e].dev, st |-> "sent",
                 op |-> gesture[e].st, unit |-> IF gesture[e].st = "drag" THEN gesture[e].to ELSE 1,
                 size |-> IF gesture[e].st = "drag" THEN 1 ELSE gesture[e].to,
                 sure |-> gesture[e].fresh, no |-> 0, orphan |-> FALSE]
        OBVIOUS
      <3>2. UNCHANGED writes \/ (writes' = writes \cup {w} /\ work' = work + 1)
        BY <1>2, <3>1 DEF Drop, Work
      <3>3. w.id = work' /\ ~w.orphan
        BY <3>1
      <3> QED
        BY <3>2, <3>3
    <2> QED
      BY <1>0, <2>1, <2>2, LagSent
  <1>3. ASSUME NEW e \in Editor, Opens(e) \/ Looks(e)  PROVE  Lagging'
    BY <1>0, <1>3 DEF Opens, OpenDialog, Looks, PanelOpenDevice, PanelBack, server
  <1>4. ASSUME NEW e \in Editor, Dialog(e)  PROVE  Lagging'
    <2>1. UNCHANGED <<fetch, lag>>
      BY <1>4 DEF Dialog, TypeHeight, TypeUnit, Submit, Cancel, server
    <2>2. UNCHANGED writes \/ \E w : writes' = writes \cup {w} /\ w.id = work + 1 /\ ~w.orphan
      <3>1. ASSUME NEW d \in Device, Submit(e, d)
            PROVE  \E w : writes' = writes \cup {w} /\ w.id = work + 1 /\ ~w.orphan
        <4>1. PICK w : w = [id |-> work', ed |-> e, dev |-> d, st |-> "sent", op |-> "create",
                             unit |-> dialog[e].unit, size |-> dialog[e].size,
                             sure |-> dialog[e].sure, no |-> dialog[e].no, orphan |-> FALSE]
          OBVIOUS
        <4>2. writes' = writes \cup {w} /\ work' = work + 1
          BY <3>1, <4>1 DEF Submit, Work
        <4>3. w.id = work' /\ ~w.orphan
          BY <4>1
        <4> QED
          BY <4>2, <4>3
      <3> QED
        BY <1>4, <3>1 DEF Dialog, TypeHeight, TypeUnit, Cancel
    <2> QED
      BY <1>0, <2>1, <2>2, LagSent
  <1>5. ASSUME NEW w \in writes, DropAnswered(w) \/ DropRefused(w) \/ CreateAnswered(w)
        PROVE  Lagging'
    BY <1>5, LagAnswered DEF DropAnswered, DropRefused, CreateAnswered, Answered, server
  <1>6. ASSUME NEW w \in writes, CreateRefused(w)  PROVE  Lagging'
    <2>1. w.st = "sent" /\ writes' = writes \ {w} /\ UNCHANGED <<fetch, lag>>
      BY <1>6 DEF CreateRefused, server
    <2>2. \A l \in lag : l[2] # w.id
      BY <2>1 DEF Lagging
    <2>3. \A l \in lag : Coming(l)'
      BY <2>1, <2>2 DEF Lagging, Coming
    <2> QED
      BY <2>1, <2>3 DEF Lagging
  <1>7. ASSUME NEW d \in Device, Elsewhere(d)  PROVE  Lagging'
    <2>1. UNCHANGED <<fetch, lag>> /\ writes' = Unsure(writes)
      BY <1>7 DEF Elsewhere
    <2>2. /\ \A x \in writes' : \E y \in writes : /\ x.id = y.id /\ x.ed = y.ed /\ x.st = y.st
                                                  /\ x.orphan = y.orphan
          /\ \A y \in writes : \E x \in writes' : x.id = y.id
      BY <2>1, UnsureCopies
    <2> QED
      BY <2>1, <2>2, LagSame
  <1>8. CASE UNCHANGED vars
    BY <1>0, <1>8 DEF vars
  <1> QED
    BY <1>1, <1>2, <1>3, <1>4, <1>5, <1>6, <1>7, <1>8, Steps, LagServe, LagLose, LagQuery

\* An editor whose elevation is not being fetched shows all of its own writes
\* that were answered.
THEOREM WritesShow == Spec => []OwnWritesShown
  <1>1. Init => Lagging
    BY DEF Init, Lagging
  <1>2. Base /\ Lagging /\ [Next]_vars => Lagging'
    BY LaggingNext
  <1>3. Lagging => OwnWritesShown
    BY DEF Lagging, Coming, OwnWritesShown
  <1> QED
    BY <1>1, <1>2, <1>3, BaseAlways, PTL DEF Spec
-----------------------------------------------------------------------------
(* One dialog, one device *)

\* The requests that the dialog of e has sent since it was opened, or since the
\* last of its answers was lost.
Mine(e) == {w \in writes : w.ed = e /\ w.no = dialog[e].no}

NumberedAt(e) ==
  IF dialog[e].no = 0 THEN dialog[e].made = 0
  ELSE /\ \A w \in Mine(e) : w.id = dialog[e].pend /\ ~w.orphan
       /\ dialog[e].made # 0 => dialog[e].made = 1 /\ \E w \in Mine(e) : w.st = "served"

Numbered == \A e \in Editor : NumberedAt(e)

Like(x, y) == /\ x.id = y.id /\ x.ed = y.ed /\ x.no = y.no /\ x.st = y.st
              /\ (x.orphan <=> y.orphan)

LEMMA NumSame ==
  ASSUME NEW e \in Editor, NumberedAt(e),
         dialog'[e].no = dialog[e].no, dialog'[e].pend = dialog[e].pend,
         dialog'[e].made = dialog[e].made,
         \A x \in writes' : x.ed = e /\ x.no # 0 => \E y \in writes : Like(x, y),
         \A y \in writes : y.ed = e /\ y.no # 0 => \E x \in writes' : Like(x, y)
  PROVE  NumberedAt(e)'
  <1>1. CASE dialog[e].no = 0
    BY <1>1 DEF NumberedAt
  <1>2. CASE dialog[e].no # 0
    <2>1. ASSUME NEW x \in Mine(e)'  PROVE  x.id = dialog[e].pend /\ ~x.orphan
      <3>1. x \in writes' /\ x.ed = e /\ x.no # 0
        BY <1>2, <2>1 DEF Mine
      <3>2. PICK y \in writes : Like(x, y)
        BY <3>1
      <3>3. y \in Mine(e)
        BY <2>1, <3>2 DEF Mine, Like
      <3> QED
        BY <1>2, <3>2, <3>3 DEF NumberedAt, Like
    <2>2. ASSUME dialog[e].made # 0
          PROVE  dialog[e].made = 1 /\ \E x \in Mine(e)' : x.st = "served"
      <3>1. PICK y \in Mine(e) : y.st = "served" /\ dialog[e].made = 1
        BY <1>2, <2>2 DEF NumberedAt
      <3>2. y \in writes /\ y.ed = e /\ y.no # 0
        BY <1>2, <3>1 DEF Mine
      <3>3. PICK x \in writes' : Like(x, y)
        BY <3>2
      <3>4. x \in Mine(e)'
        BY <3>1, <3>3 DEF Mine, Like
      <3> QED
        BY <3>1, <3>3, <3>4 DEF Like
    <2> QED
      BY <1>2, <2>1, <2>2 DEF NumberedAt
  <1> QED
    BY <1>1, <1>2

\* No request has the number of a new dialog.
LEMMA NumNew ==
  ASSUME NEW e \in Editor, dialog'[e].made = 0, \A x \in writes' : x.no # dialog'[e].no
  PROVE  NumberedAt(e)'
  BY DEF NumberedAt, Mine

LEMMA NumZero ==
  ASSUME NEW e \in Editor, dialog'[e].made = 0, dialog'[e].no = 0
  PROVE  NumberedAt(e)'
  BY DEF NumberedAt

LEMMA MountedNumbers ==
  ASSUME NEW g \in Dialogs, NEW v
  PROVE  LET h == Mounted(g, v) IN h.no = g.no /\ h.pend = g.pend /\ h.made = g.made
  BY DEF Mounted, Dialogs

LEMMA NumEditors ==
  ASSUME Base, Numbered, NEW e \in Editor,
         \/ Grab(e) \/ Move(e) \/ Drop(e) \/ Opens(e) \/ Dialog(e) \/ Looks(e) \/ Query(e)
  PROVE  Numbered'
  <1>1. dialog \in [Editor -> Dialogs]
    BY DEF Base, Typed
  <1> USE DEF Numbered
  <1>2. ASSUME NEW f \in Editor, UNCHANGED writes, dialog'[f].no = dialog[f].no,
               dialog'[f].pend = dialog[f].pend, dialog'[f].made = dialog[f].made
        PROVE  NumberedAt(f)'
    BY <1>2, NumSame DEF Like
  <1>3. CASE Grab(e) \/ Move(e) \/ Looks(e)
    BY <1>2, <1>3 DEF Grab, Press, Move, Looks, PanelOpenDevice, PanelBack
  <1>4. CASE Drop(e)
    <2>1. \A x \in writes' : x \in writes \/ x.no = 0
      BY <1>4 DEF Drop
    <2>2. \A y \in writes : y \in writes'
      BY <1>4 DEF Drop
    <2>3. UNCHANGED dialog
      BY <1>4 DEF Drop
    <2> QED
      BY <2>1, <2>2, <2>3, NumSame DEF Like
  <1>5. ASSUME NEW u \in EmptySlots(e) \cup {0}, OpenDialog(e, u)  PROVE  Numbered'
    <2>1. PICK n \in Nat : n = NewNo /\ \A w \in writes : w.no # n
      BY NewNoFree, RackAssumption DEF Base
    <2>2. u \in 0..TotalU
      BY RackAssumption DEF EmptySlots, Unit
    <2>3. PICK b \in BOOLEAN : b = (u # 0 /\ UpToDate(e))
      OBVIOUS
    <2>4. PICK g : g = [Closed EXCEPT !.st = "asked", !.no = n, !.at = u, !.sure = b]
      OBVIOUS
    <2>5. g \in Dialogs /\ g.no = n /\ g.made = 0
      BY <2>2, <2>4, Firsts DEF Closed, Dialogs
    <2>6. dialog' = [dialog EXCEPT ![e] = IF Loaded(e) THEN Mounted(g, view[e]) ELSE g]
      BY <1>5, <2>1, <2>3, <2>4 DEF OpenDialog
    <2>7. dialog'[e].no = n /\ dialog'[e].made = 0
      BY <1>1, <2>5, <2>6, MountedNumbers
    <2>8. \A f \in Editor \ {e} : dialog'[f] = dialog[f]
      BY <1>1, <2>6
    <2>9. UNCHANGED writes
      BY <1>5 DEF OpenDialog
    <2> QED
      BY <1>2, <2>1, <2>7, <2>8, <2>9, NumNew
  <1>6. ASSUME NEW u \in Unit, TypeHeight(e, u) \/ TypeUnit(e, u)  PROVE  Numbered'
    <2>1. UNCHANGED writes
      BY <1>6 DEF TypeHeight, TypeUnit
    <2>2. \A f \in Editor : /\ dialog'[f].no = dialog[f].no /\ dialog'[f].pend = dialog[f].pend
                            /\ dialog'[f].made = dialog[f].made
      BY <1>1, <1>6 DEF TypeHeight, TypeUnit, Dialogs
    <2> QED
      BY <1>2, <2>1, <2>2
  <1>7. ASSUME NEW d \in Device, Submit(e, d)  PROVE  Numbered'
    <2>1. PICK w : w = [id |-> work', ed |-> e, dev |-> d, st |-> "sent", op |-> "create",
                             unit |-> dialog[e].unit, size |-> dialog[e].size,
                             sure |-> dialog[e].sure, no |-> dialog[e].no, orphan |-> FALSE]
      OBVIOUS
    <2>2. writes' = writes \cup {w} /\ dialog[e].pend = 0
      BY <1>7, <2>1 DEF Submit, SubmitEnabled
    <2>3. dialog' = [dialog EXCEPT ![e] = [dialog[e] EXCEPT !.pend = work']]
      BY <1>1, <1>7 DEF Submit
    <2>4. /\ dialog'[e].no = dialog[e].no /\ dialog'[e].made = dialog[e].made
          /\ dialog'[e].pend = work'
      BY <1>1, <2>3 DEF Dialogs
    <2>5. w.ed = e /\ w.no = dialog[e].no /\ w.id = work' /\ ~w.orphan
      BY <2>1
    <2>6. NumberedAt(e)'
      <3>1. CASE dialog[e].no = 0
        BY <2>4, <3>1 DEF NumberedAt
      <3>2. CASE dialog[e].no # 0
        <4>1. \A x \in writes : x.id # 0
          BY DEF Base, Ids
        <4>2. Mine(e) = {}
          BY <2>2, <3>2, <4>1 DEF NumberedAt, Mine
        <4>3. \A x \in Mine(e)' : x = w
          BY <2>2, <2>4, <4>2 DEF Mine
        <4>4. dialog[e].made = 0
          BY <3>2, <4>2 DEF NumberedAt
        <4> QED
          BY <2>4, <2>5, <3>2, <4>3, <4>4 DEF NumberedAt
      <3> QED
        BY <3>1, <3>2
    <2>7. ASSUME NEW f \in Editor \ {e}  PROVE  NumberedAt(f)'
      <3>1. dialog'[f] = dialog[f]
        BY <1>1, <2>3
      <3>2. \A x \in writes' : x.ed = f => x \in writes
        BY <2>2, <2>5
      <3> QED
        BY <2>2, <3>1, <3>2, NumSame DEF Like
    <2> QED
      BY <2>6, <2>7
  <1>8. CASE Cancel(e)
    <2>1. dialog'[e] = Closed /\ \A f \in Editor \ {e} : dialog'[f] = dialog[f]
      BY <1>1, <1>8 DEF Cancel
    <2>2. Closed.no = 0 /\ Closed.made = 0 /\ UNCHANGED writes
      BY <1>8 DEF Closed, Cancel
    <2> QED
      BY <1>2, <2>1, <2>2, NumZero
  <1>9. CASE Query(e)
    <2>1. UNCHANGED writes
      BY <1>9 DEF Query, FetchServed, FetchLands, FetchFails, Refocus
    <2>2. CASE FetchServed(e) \/ Refocus(e)
      BY <1>2, <2>1, <2>2 DEF FetchServed, Refocus
    <2>3. CASE FetchLands(e)
      <3>1. dialog' = dialog \/ dialog' = [dialog EXCEPT ![e] = Mounted(dialog[e], fetch[e].snap)]
        BY <1>1, <2>3 DEF FetchLands
      <3>2. \A f \in Editor : /\ dialog'[f].no = dialog[f].no /\ dialog'[f].pend = dialog[f].pend
                              /\ dialog'[f].made = dialog[f].made
        BY <1>1, <3>1, MountedNumbers
      <3> QED
        BY <1>2, <2>1, <3>2
    <2>4. CASE FetchFails(e)
      <3>1. dialog' = dialog
              \/ dialog' = [dialog EXCEPT ![e] = [Closed EXCEPT !.st = "asked", !.at = dialog[e].at]]
        BY <2>4 DEF FetchFails
      <3>2. /\ [Closed EXCEPT !.st = "asked", !.at = dialog[e].at].no = 0
            /\ [Closed EXCEPT !.st = "asked", !.at = dialog[e].at].made = 0
        BY DEF Closed
      <3>3. \A f \in Editor : dialog'[f] = dialog[f] \/ (dialog'[f].no = 0 /\ dialog'[f].made = 0)
        BY <1>1, <3>1, <3>2
      <3> QED
        BY <1>2, <2>1, <3>3, NumZero
    <2> QED
      BY <1>9, <2>2, <2>3, <2>4 DEF Query
  <1> QED
    BY <1>3, <1>4, <1>5, <1>6, <1>7, <1>8, <1>9 DEF Opens, Dialog
-----------------------------------------------------------------------------
LEMMA UnsureLike ==
  ASSUME Base, NEW ws \in SUBSET writes
  PROVE  /\ \A x \in Unsure(ws) : \E y \in ws : Like(x, y)
         /\ \A y \in ws : \E x \in Unsure(ws) : Like(x, y)
  <1>1. ASSUME NEW y \in ws
        PROVE  Like([y EXCEPT !.sure = FALSE], y)
    BY DEF Base, Typed, Writes, Like
  <1>2. ASSUME NEW x \in Unsure(ws)
        PROVE  \E y \in ws : Like(x, y)
    <2>1. PICK y \in ws : x = [y EXCEPT !.sure = FALSE]
      BY DEF Unsure
    <2> QED
      BY <1>1, <2>1
  <1>3. ASSUME NEW y \in ws
        PROVE  \E x \in Unsure(ws) : Like(x, y)
    <2>1. [y EXCEPT !.sure = FALSE] \in Unsure(ws)
      BY DEF Unsure
    <2> QED
      BY <1>1, <2>1
  <1> QED
    BY <1>2, <1>3

LEMMA NumServe ==
  ASSUME Base, Numbered, NEW w \in writes, Serve(w)
  PROVE  Numbered'
  <1>1. w \in Writes /\ w.st = "sent" /\ dialog \in [Editor -> Dialogs]
    BY DEF Base, Typed, Serve
  <1>2. PICK v : v = [w EXCEPT !.st = "served"]
    OBVIOUS
  <1>3. /\ v.id = w.id /\ v.ed = w.ed /\ v.no = w.no /\ v.st = "served"
        /\ (v.orphan <=> w.orphan)
    BY <1>1, <1>2 DEF Writes
  <1>4. /\ \A x \in writes' : x \in Unsure(writes \ {w}) \/ (x = v /\ ~w.orphan)
        /\ \A x \in Unsure(writes \ {w}) : x \in writes'
        /\ ~w.orphan => v \in writes'
    BY <1>2 DEF Serve
  <1>5. ASSUME NEW e \in Editor  PROVE  NumberedAt(e)'
    <2>1. PICK n \in {0, 1} : n = IF e = w.ed /\ w.no # 0 /\ w.no = dialog[e].no THEN 1 ELSE 0
      OBVIOUS
    <2>2. dialog[e].made \in Nat /\ dialog'[e] = [dialog[e] EXCEPT !.sure = FALSE,
                                                                   !.made = dialog[e].made + n]
      BY <1>1, <2>1 DEF Serve, Dialogs
    <2>3. /\ dialog'[e].no = dialog[e].no /\ dialog'[e].pend = dialog[e].pend
          /\ dialog'[e].made = dialog[e].made + n
      BY <1>1, <2>2 DEF Dialogs
    <2>4. NumberedAt(e)
      BY DEF Numbered
    <2>5. CASE n = 0
      <3>1. CASE dialog[e].no = 0
        BY <2>2, <2>3, <2>4, <2>5, <3>1 DEF NumberedAt
      <3>2. CASE dialog[e].no # 0
        <4>1. w \notin Mine(e)
          BY <2>1, <2>5, <3>2 DEF Mine
        <4>2. ASSUME NEW x \in Mine(e)'  PROVE  \E y \in Mine(e) : Like(x, y)
          <5>1. x \in writes' /\ x.ed = e /\ x.no = dialog[e].no
            BY <2>3, <4>2 DEF Mine
          <5>2. x # v
            BY <1>3, <4>1, <5>1 DEF Mine
          <5>3. PICK y \in writes : Like(x, y)
            BY <1>4, <5>1, <5>2, UnsureLike
          <5> QED
            BY <5>1, <5>3 DEF Mine, Like
        <4>3. ASSUME NEW y \in Mine(e)  PROVE  \E x \in Mine(e)' : Like(x, y)
          <5>1. y \in writes \ {w} /\ y.ed = e /\ y.no = dialog[e].no
            BY <4>1 DEF Mine
          <5>2. PICK x \in writes' : Like(x, y)
            BY <1>4, <5>1, UnsureLike
          <5> QED
            BY <2>3, <5>1, <5>2 DEF Mine, Like
        <4>4. \A x \in Mine(e)' : x.id = dialog[e].pend /\ ~x.orphan
          BY <2>4, <3>2, <4>2 DEF NumberedAt, Like
        <4>5. dialog[e].made # 0 => dialog[e].made = 1 /\ \E x \in Mine(e)' : x.st = "served"
          BY <2>4, <3>2, <4>3 DEF NumberedAt, Like
        <4>6. dialog'[e].made = dialog[e].made
          BY <2>2, <2>3, <2>5
        <4> QED
          BY <2>3, <3>2, <4>4, <4>5, <4>6 DEF NumberedAt
      <3> QED
        BY <3>1, <3>2
    <2>6. CASE n = 1
      <3>1. w.ed = e /\ w.no = dialog[e].no /\ dialog[e].no # 0 /\ w \in Mine(e)
        BY <2>1, <2>6 DEF Mine
      <3>2. w.id = dialog[e].pend /\ ~w.orphan
        BY <2>4, <3>1 DEF NumberedAt
      <3>3. Mine(e) = {w}
        BY <2>4, <3>1, <3>2 DEF NumberedAt, Mine, Base, Ids
      <3>4. dialog[e].made = 0
        BY <1>1, <2>4, <3>1, <3>3 DEF NumberedAt
      <3>5. v \in Mine(e)'
        BY <1>3, <1>4, <2>3, <3>1, <3>2 DEF Mine
      <3>6. ASSUME NEW x \in Mine(e)'  PROVE  x = v
        <4>1. SUFFICES ASSUME x # v  PROVE FALSE
          OBVIOUS
        <4>2. x \in writes' /\ x.ed = e /\ x.no = dialog[e].no
          BY <2>3, <3>6 DEF Mine
        <4>3. PICK y \in writes \ {w} : Like(x, y)
          BY <1>4, <4>1, <4>2, UnsureLike
        <4>4. y \in Mine(e)
          BY <4>2, <4>3 DEF Mine, Like
        <4> QED
          BY <3>3, <4>3, <4>4
      <3> QED
        BY <1>3, <2>3, <2>6, <3>1, <3>2, <3>4, <3>5, <3>6 DEF NumberedAt
    <2> QED
      BY <2>5, <2>6
  <1> QED
    BY <1>5 DEF Numbered

LEMMA NumLose ==
  ASSUME Base, Numbered, NEW w \in writes, Lose(w)
  PROVE  Numbered'
  <1>1. w \in Writes /\ w.ed \in Editor /\ dialog \in [Editor -> Dialogs]
    BY DEF Base, Typed, Writes
  <1>2. PICK v : v = [w EXCEPT !.orphan = TRUE]
    OBVIOUS
  <1>3. v.id = w.id /\ v.ed = w.ed /\ v.no = w.no
    BY <1>1, <1>2 DEF Writes
  <1>4. writes' = (writes \ {w}) \cup (IF w.st = "sent" THEN {v} ELSE {})
    BY <1>2 DEF Lose
  <1>5. \A e \in Editor : NumberedAt(e)
    BY DEF Numbered
  <1>6. ASSUME NEW e \in Editor, UNCHANGED dialog[e], w.ed # e \/ w.no = 0  PROVE  NumberedAt(e)'
    <2>1. \A x \in writes' : x.ed = e /\ x.no # 0 => x \in writes
      BY <1>3, <1>4, <1>6
    <2>2. \A y \in writes : y.ed = e /\ y.no # 0 => y \in writes'
      BY <1>4, <1>6
    <2> QED
      BY <1>5, <1>6, <2>1, <2>2, NumSame DEF Like
  <1>7. CASE w.op = "create"
    <2>1. PICK n : n = NewNo /\ \A x \in writes : x.no # n
      BY NewNoFree DEF Base
    <2>2. PICK e \in Editor : e = w.ed
      BY <1>1
    <2>3. PICK p : p = IF dialog[e].pend = w.id THEN 0 ELSE dialog[e].pend
      OBVIOUS
    <2>4. PICK m : m = IF w.no = dialog[e].no THEN 0 ELSE dialog[e].made
      OBVIOUS
    <2>5. PICK o : o = IF w.no = dialog[e].no THEN n ELSE dialog[e].no
      OBVIOUS
    <2>6. dialog' = [dialog EXCEPT ![e] = [dialog[e] EXCEPT !.pend = p, !.made = m, !.no = o]]
      BY <1>1, <1>7, <2>1, <2>2, <2>3, <2>4, <2>5 DEF Lose, Dialogs
    <2>7. /\ dialog'[e].pend = p /\ dialog'[e].made = m /\ dialog'[e].no = o
          /\ \A f \in Editor \ {e} : dialog'[f] = dialog[f]
      BY <1>1, <2>6 DEF Dialogs
    <2>8. \A f \in Editor \ {e} : NumberedAt(f)'
      BY <1>6, <2>2, <2>7
    <2>9. NumberedAt(e)'
      <3>1. CASE w.no = dialog[e].no
        <4>1. \A x \in writes' : x.no # n
          BY <1>3, <1>4, <2>1
        <4> QED
          BY <2>4, <2>5, <2>7, <3>1, <4>1, NumNew
      <3>2. CASE w.no # dialog[e].no
        <4>1. dialog'[e].no = dialog[e].no /\ dialog'[e].made = dialog[e].made
          BY <2>4, <2>5, <2>7, <3>2
        <4>2. Mine(e)' = Mine(e)
          BY <1>3, <1>4, <3>2, <4>1 DEF Mine
        <4>3. \A x \in Mine(e) : x.id # w.id
          BY <3>2 DEF Mine, Base, Ids
        <4>4. CASE dialog[e].no = 0
          BY <1>5, <4>1, <4>4 DEF NumberedAt
        <4>5. CASE dialog[e].no # 0
          <5>1. \A x \in Mine(e) : x.id = dialog'[e].pend
            BY <1>5, <2>3, <2>7, <4>3, <4>5 DEF NumberedAt
          <5> QED
            BY <1>5, <4>1, <4>2, <4>5, <5>1 DEF NumberedAt
        <4> QED
          BY <4>4, <4>5
      <3> QED
        BY <3>1, <3>2
    <2> QED
      BY <2>8, <2>9 DEF Numbered
  <1>8. CASE w.op # "create"
    <2>1. UNCHANGED dialog /\ w.no = 0
      BY <1>1, <1>8 DEF Lose, Writes
    <2> QED
      BY <1>6, <2>1 DEF Numbered
  <1> QED
    BY <1>7, <1>8

LEMMA NumNext ==
  ASSUME Base, Numbered, [Next]_vars
  PROVE  Numbered'
  <1>1. dialog \in [Editor -> Dialogs] /\ \A w \in writes : w \in Writes /\ w.ed \in Editor
    BY DEF Base, Typed, Writes
  <1>2. \A e \in Editor : NumberedAt(e)
    BY DEF Numbered
  <1>3. ASSUME NEW w \in writes, DropAnswered(w) \/ DropRefused(w)  PROVE  Numbered'
    <2>1. writes' = writes \ {w} /\ w.no = 0 /\ UNCHANGED dialog
      BY <1>1, <1>3 DEF DropAnswered, DropRefused, Writes
    <2> QED
      BY <1>2, <2>1, NumSame DEF Numbered, Like
  <1>4. ASSUME NEW w \in writes, CreateAnswered(w)  PROVE  Numbered'
    <2>1. writes' = writes \ {w} /\ dialog' = [dialog EXCEPT ![w.ed] = Closed]
      BY <1>4 DEF CreateAnswered
    <2>2. Closed.no = 0 /\ Closed.made = 0
      BY DEF Closed
    <2>3. NumberedAt(w.ed)'
      BY <1>1, <2>1, <2>2, NumZero
    <2>4. ASSUME NEW e \in Editor \ {w.ed}  PROVE  NumberedAt(e)'
      <3>1. \A y \in writes : y.ed = e => y \in writes'
        BY <2>1
      <3> QED
        BY <1>1, <1>2, <2>1, <3>1, NumSame DEF Like
    <2> QED
      BY <2>3, <2>4 DEF Numbered
  <1>5. ASSUME NEW w \in writes, CreateRefused(w)  PROVE  Numbered'
    <2>1. PICK e \in Editor : e = w.ed
      BY <1>1
    <2>2. PICK p : p = IF dialog[e].pend = w.id THEN 0 ELSE dialog[e].pend
      OBVIOUS
    <2>3. /\ dialog' = [dialog EXCEPT ![e] = [dialog[e] EXCEPT !.pend = p]]
          /\ writes' = writes \ {w} /\ w.st = "sent"
      BY <1>1, <1>5, <2>1, <2>2 DEF CreateRefused, Dialogs
    <2>4. /\ dialog'[e].no = dialog[e].no /\ dialog'[e].made = dialog[e].made
          /\ dialog'[e].pend = p /\ \A f \in Editor \ {e} : dialog'[f] = dialog[f]
      BY <1>1, <2>3 DEF Dialogs
    <2>5. ASSUME NEW f \in Editor \ {e}  PROVE  NumberedAt(f)'
      <3>1. \A y \in writes : y.ed = f => y \in writes'
        BY <2>1, <2>3
      <3> QED
        BY <1>2, <2>3, <2>4, <3>1, NumSame DEF Like
    <2>6. NumberedAt(e)'
      <3>1. CASE dialog[e].no = 0
        BY <1>2, <2>4, <3>1 DEF NumberedAt
      <3>2. CASE dialog[e].no # 0
        <4>1. Mine(e)' = Mine(e) \ {w}
          BY <2>3, <2>4 DEF Mine
        <4>2. \A x \in Mine(e) \ {w} : x.id = dialog[e].pend /\ x.id # w.id /\ ~x.orphan
          BY <1>2, <3>2 DEF NumberedAt, Mine, Base, Ids
        <4>3. \A x \in Mine(e)' : x.id = dialog'[e].pend /\ ~x.orphan
          BY <2>2, <2>4, <4>1, <4>2
        <4>4. ASSUME dialog[e].made # 0
              PROVE  dialog[e].made = 1 /\ \E x \in Mine(e)' : x.st = "served"
          <5>1. dialog[e].made = 1 /\ \E x \in Mine(e) : x.st = "served"
            BY <1>2, <3>2, <4>4 DEF NumberedAt
          <5> QED
            BY <2>3, <4>1, <5>1
        <4> QED
          BY <2>4, <3>2, <4>3, <4>4 DEF NumberedAt
      <3> QED
        BY <3>1, <3>2
    <2> QED
      BY <2>5, <2>6 DEF Numbered
  <1>6. ASSUME NEW d \in Device, Elsewhere(d)  PROVE  Numbered'
    <2>1. \A e \in Editor : dialog'[e] = [dialog[e] EXCEPT !.sure = FALSE]
      BY <1>6 DEF Elsewhere
    <2>2. \A e \in Editor : /\ dialog'[e].no = dialog[e].no /\ dialog'[e].pend = dialog[e].pend
                            /\ dialog'[e].made = dialog[e].made
      BY <1>1, <2>1 DEF Dialogs
    <2>3. writes' = Unsure(writes)
      BY <1>6 DEF Elsewhere
    <2>4. /\ \A x \in writes' : \E y \in writes : Like(x, y)
          /\ \A y \in writes : \E x \in writes' : Like(x, y)
      BY <2>3, UnsureLike
    <2> QED
      BY <1>2, <2>2, <2>4, NumSame DEF Numbered
  <1>7. CASE UNCHANGED vars
    BY <1>7 DEF Numbered, NumberedAt, Mine, vars
  <1> QED
    BY <1>3, <1>4, <1>5, <1>6, <1>7, Steps, NumEditors, NumServe, NumLose

\* One dialog makes one device; a lost answer starts the count again.
THEOREM DialogsMakeOne == Spec => []OneDevicePerDialog
  <1>1. Init => Numbered
    BY DEF Init, Numbered, NumberedAt, Closed
  <1>2. Base /\ Numbered /\ [Next]_vars => Numbered'
    BY NumNext
  <1>3. Base /\ Numbered => OneDevicePerDialog
    <2>1. ASSUME Base, Numbered, NEW e \in Editor  PROVE  dialog[e].made \in {0, 1}
      BY <2>1 DEF Numbered, NumberedAt
    <2> QED
      BY <2>1 DEF OneDevicePerDialog
  <1> QED
    BY <1>1, <1>2, <1>3, BaseAlways, PTL DEF Spec
-----------------------------------------------------------------------------
(* Gestures *)

\* As long as nothing changed since the grab, the editor sees the rack as it
\* is, and knows the place of what it grabbed; the mouse has only been where a
\* device can go.
GrabbedAt(e) ==
  LET g == gesture[e] IN
  g.st # "none" /\ g.fresh =>
    /\ UpToDate(e) /\ g.dev \in Tiles(e)
    /\ IF g.st = "drag" THEN g.from = view[e][g.dev].start /\ g.other = view[e][g.dev].size
                        ELSE g.from = view[e][g.dev].size /\ g.other = view[e][g.dev].start
    /\ g.to = g.from \/ g.to \in Reach(g)

Grabbed == \A e \in Editor : GrabbedAt(e)

LEMMA GrabSame ==
  ASSUME NEW e \in Editor, GrabbedAt(e), kind'[e] = kind[e], view'[e] = view[e],
         gesture'[e] = gesture[e], UNCHANGED rack
  PROVE  GrabbedAt(e)'
  <1>1. Here(e)' = Here(e) /\ (UpToDate(e) <=> UpToDate(e)')
    BY DEF Here, Loaded, UpToDate, Shown
  <1>2. Tiles(e)' = Tiles(e)
    BY <1>1 DEF Tiles, ElevationTiles, PanelTiles, DiagramTiles, ColumnTiles
  <1> QED
    BY <1>1, <1>2 DEF GrabbedAt

LEMMA GrabNone ==
  ASSUME NEW e \in Editor, gesture'[e].st = "none" \/ ~gesture'[e].fresh
  PROVE  GrabbedAt(e)'
  BY DEF GrabbedAt

LEMMA GrabNext ==
  ASSUME Base, Grabbed, [Next]_vars
  PROVE  Grabbed'
  <1>1. gesture \in [Editor -> Gestures] /\ view \in [Editor -> Seen]
    BY DEF Base, Typed
  <1>2. \A e \in Editor : GrabbedAt(e)
    BY DEF Grabbed
  <1>3. ASSUME UNCHANGED <<kind, view, rack, gesture>>  PROVE  Grabbed'
    BY <1>2, <1>3, GrabSame DEF Grabbed
  <1>4. ASSUME NEW e \in Editor, NEW d \in Tiles(e), NEW st \in {"drag", "resize"}, Press(e, d, st)
        PROVE  Grabbed'
    <2>1. PICK b : b = UpToDate(e)
      OBVIOUS
    <2>2. PICK p : p = view[e][d]
      OBVIOUS
    <2>3. PICK g : g = [st |-> st, dev |-> d, fresh |-> b,
                   from |-> IF st = "drag" THEN p.start ELSE p.size,
                   to |-> IF st = "drag" THEN p.start ELSE p.size,
                   other |-> IF st = "drag" THEN p.size ELSE p.start]
      OBVIOUS
    <2>4. gesture' = [gesture EXCEPT ![e] = g]
      BY <1>4, <2>1, <2>2, <2>3 DEF Press
    <2>5. UNCHANGED <<kind, view, rack>>
      BY <1>4 DEF Press, server
    <2>6. gesture'[e] = g /\ \A f \in Editor \ {e} : gesture'[f] = gesture[f]
      BY <1>1, <2>4
    <2>7. Tiles(e)' = Tiles(e) /\ (UpToDate(e)' <=> UpToDate(e))
      BY <2>5 DEF Tiles, ElevationTiles, PanelTiles, DiagramTiles, ColumnTiles, Here, Loaded,
         UpToDate, Shown
    <2>8. GrabbedAt(e)'
      BY <2>1, <2>2, <2>3, <2>5, <2>6, <2>7 DEF GrabbedAt
    <2> QED
      BY <1>2, <2>5, <2>6, <2>8, GrabSame DEF Grabbed
  <1>5. ASSUME NEW e \in Editor, Move(e)  PROVE  Grabbed'
    <2>1. PICK u \in Reach(gesture[e]) : gesture' = [gesture EXCEPT ![e].to = u]
      BY <1>5 DEF Move
    <2>2. UNCHANGED <<kind, view, rack>>
      BY <1>5 DEF Move, server
    <2>3. PICK g : g = gesture[e]
      OBVIOUS
    <2>4. gesture'[e] = [g EXCEPT !.to = u] /\ \A f \in Editor \ {e} : gesture'[f] = gesture[f]
      BY <1>1, <2>1, <2>3
    <2>5. PICK h : h = [g EXCEPT !.to = u]
      OBVIOUS
    <2>6. /\ h.st = g.st /\ h.dev = g.dev /\ h.from = g.from /\ h.other = g.other
          /\ h.fresh = g.fresh /\ h.to = u
      BY <1>1, <2>3, <2>5 DEF Gestures
    <2>7. u \in Reach(h)
      BY <2>1, <2>3, <2>6 DEF Reach
    <2>8. Tiles(e)' = Tiles(e) /\ (UpToDate(e)' <=> UpToDate(e))
      BY <2>2 DEF Tiles, ElevationTiles, PanelTiles, DiagramTiles, ColumnTiles, Here, Loaded,
         UpToDate, Shown
    <2>9. GrabbedAt(e)'
      BY <1>2, <2>2, <2>3, <2>4, <2>5, <2>6, <2>7, <2>8 DEF GrabbedAt
    <2> QED
      BY <1>2, <2>2, <2>4, <2>9, GrabSame DEF Grabbed
  <1>6. ASSUME NEW e \in Editor, Drop(e)  PROVE  Grabbed'
    <2>1. gesture'[e].st = "none" /\ \A f \in Editor \ {e} : gesture'[f] = gesture[f]
      BY <1>1, <1>6 DEF Drop, NoGesture
    <2>2. UNCHANGED <<kind, view, rack>>
      BY <1>6 DEF Drop, server
    <2> QED
      BY <1>2, <2>1, <2>2, GrabSame, GrabNone DEF Grabbed
  <1>7. ASSUME NEW e \in Editor, FetchLands(e)  PROVE  Grabbed'
    <2>1. UNCHANGED <<kind, rack>>
      BY <1>7 DEF FetchLands
    <2>2. PICK b \in BOOLEAN : b = (gesture[e].fresh /\ view' = view)
      OBVIOUS
    <2>3. gesture' = [gesture EXCEPT ![e] = [gesture[e] EXCEPT !.fresh = b]]
      BY <1>1, <1>7, <2>2 DEF FetchLands, Gestures
    <2>4. \A f \in Editor \ {e} : gesture'[f] = gesture[f] /\ view'[f] = view[f]
      BY <1>1, <1>7, <2>3 DEF FetchLands
    <2>5. GrabbedAt(e)'
      <3>1. CASE b
        <4>1. gesture'[e] = gesture[e]
          BY <1>1, <2>2, <2>3, <3>1 DEF Gestures
        <4> QED
          BY <1>2, <2>1, <2>2, <3>1, <4>1, GrabSame
      <3>2. CASE ~b
        BY <1>1, <2>3, <3>2, GrabNone DEF Gestures
      <3> QED
        BY <3>1, <3>2
    <2> QED
      BY <1>2, <2>1, <2>4, <2>5, GrabSame DEF Grabbed
  <1>8. ASSUME gesture' = [e \in Editor |-> [gesture[e] EXCEPT !.fresh = FALSE]]  PROVE  Grabbed'
    <2>1. \A e \in Editor : ~gesture'[e].fresh
      BY <1>1, <1>8 DEF Gestures
    <2> QED
      BY <2>1, GrabNone DEF Grabbed
  <1>9. ASSUME NEW e \in Editor, Opens(e) \/ Dialog(e) \/ Looks(e)  PROVE  Grabbed'
    BY <1>3, <1>9 DEF Opens, OpenDialog, Dialog, TypeHeight, TypeUnit, Submit, Cancel, Looks,
       PanelOpenDevice, PanelBack, server
  <1>10. ASSUME NEW e \in Editor, FetchServed(e) \/ FetchFails(e) \/ Refocus(e)  PROVE  Grabbed'
    BY <1>3, <1>10 DEF FetchServed, FetchFails, Refocus, server
  <1>11. ASSUME NEW w \in writes, Serve(w)  PROVE  Grabbed'
    BY <1>8, <1>11 DEF Serve, Apply
  <1>12. ASSUME NEW w \in writes, \/ Lose(w) \/ DropAnswered(w) \/ DropRefused(w)
                                  \/ CreateAnswered(w) \/ CreateRefused(w)
         PROVE  Grabbed'
    BY <1>3, <1>12 DEF Lose, DropAnswered, DropRefused, CreateAnswered, CreateRefused, server
  <1>13. ASSUME NEW d \in Device, Elsewhere(d)  PROVE  Grabbed'
    BY <1>8, <1>13 DEF Elsewhere
  <1>14. CASE UNCHANGED vars
    BY <1>3, <1>14 DEF vars
  <1> QED
    BY <1>4, <1>5, <1>6, <1>7, <1>9, <1>10, <1>11, <1>12, <1>13, <1>14, Steps DEF Grab, Query

LEMMA GrabAlways == Spec => []Grabbed
  <1>1. Init => Grabbed
    BY DEF Init, Grabbed, GrabbedAt, NoGesture
  <1>2. Base /\ Grabbed /\ [Next]_vars => Grabbed'
    BY GrabNext
  <1> QED
    BY <1>1, <1>2, BaseAlways, PTL DEF Spec

LEMMA Overlap ==
  ASSUME NEW a \in Nat \ {0}, NEW m \in Nat \ {0}, NEW b \in Nat \ {0}, NEW n \in Nat \ {0}
  PROVE  (a .. a + m - 1) \cap (b .. b + n - 1) # {} <=> a <= b + n - 1 /\ a + m - 1 >= b
  <1>1. ASSUME (a .. a + m - 1) \cap (b .. b + n - 1) # {}
        PROVE  a <= b + n - 1 /\ a + m - 1 >= b
    BY <1>1
  <1>2. ASSUME a <= b + n - 1, a + m - 1 >= b
        PROVE  (a .. a + m - 1) \cap (b .. b + n - 1) # {}
    <2>1. CASE a <= b
      <3>1. b \in (a .. a + m - 1) \cap (b .. b + n - 1)
        BY <1>2, <2>1
      <3> QED
        BY <3>1
    <2>2. CASE b <= a
      <3>1. a \in (a .. a + m - 1) \cap (b .. b + n - 1)
        BY <1>2, <2>2
      <3> QED
        BY <3>1
    <2> QED
      BY <2>1, <2>2
  <1> QED
    BY <1>1, <1>2

LEMMA Colours ==
  ASSUME NEW e, NEW d
  PROVE  /\ Look(e, d) = "conflict" <=> PaintRed(e, d)
         /\ Look(e, d) = "target" <=> ~PaintRed(e, d) /\ PaintTarget(e, d)
  <1>1. PICK r \in BOOLEAN : r <=> PaintRed(e, d)
    BY DEF PaintRed
  <1>2. PICK t \in BOOLEAN : t <=> PaintTarget(e, d)
    BY DEF PaintTarget
  <1>3. Look(e, d) = CASE r -> "conflict" [] t -> "target" [] OTHER -> "plain"
    BY <1>1, <1>2 DEF Look
  <1>4. ~(r /\ t)
    BY <1>1, <1>2 DEF PaintRed, PaintTarget
  <1>5. /\ r => Look(e, d) = "conflict"
        /\ ~r /\ t => Look(e, d) = "target"
        /\ ~r /\ ~t => Look(e, d) = "plain"
    BY <1>3, <1>4
  <1>6. /\ PaintRed(e, d) => Look(e, d) = "conflict"
        /\ ~PaintRed(e, d) /\ PaintTarget(e, d) => Look(e, d) = "target"
        /\ ~PaintRed(e, d) /\ ~PaintTarget(e, d) => Look(e, d) = "plain"
    BY <1>1, <1>2, <1>5, Zenon
  <1>7. "conflict" # "target" /\ "conflict" # "plain" /\ "target" # "plain"
    OBVIOUS
  <1> QED
    BY <1>6, <1>7, Zenon

\* The tile turns red exactly when handleMouseUp would refuse the drop.
LEMMA RedCollides ==
  ASSUME Base, Grabbed, NEW e \in Editor, gesture[e].st # "none", gesture[e].fresh
  PROVE  /\ PaintRed(e, gesture[e].dev) <=> Collides(e, gesture[e])
         /\ Look(e, gesture[e].dev) = "conflict" <=> Collides(e, gesture[e])
  <1>1. GrabbedAt(e) /\ gesture[e] \in Gestures
    BY DEF Grabbed, Base, Typed
  <1>2. PaintRed(e, gesture[e].dev) <=> Collides(e, gesture[e])
    BY <1>1 DEF PaintRed, Collides, GrabbedAt, Gestures
  <1>3. Look(e, gesture[e].dev) = "conflict" <=> PaintRed(e, gesture[e].dev)
    BY Colours
  <1> QED
    BY <1>2, <1>3
-----------------------------------------------------------------------------
\* The units over which a grabbed tile is drawn are those that the tiles are
\* compared with.
LEMMA DrawnAsCompared ==
  ASSUME Base, Grabbed, NEW e \in Editor, gesture[e].st # "none", gesture[e].fresh
  PROVE  /\ \A o \in Tiles(e) \ {gesture[e].dev} :
              PaintTarget(e, o) <=> DrawnUnits(e, gesture[e].dev) \cap DrawnUnits(e, o) # {}
         /\ PaintRed(e, gesture[e].dev) <=> \E o \in Tiles(e) \ {gesture[e].dev} : PaintTarget(e, o)
  <1>1. PICK g \in Gestures : g = gesture[e]
    BY DEF Base, Typed
  <1>2. /\ g.st \in {"drag", "resize"} /\ g.to \in Unit /\ g.other \in Unit
        /\ GrabbedAt(e) /\ g.dev \in Tiles(e)
    BY <1>1 DEF Gestures, Grabbed, GrabbedAt
  <1>3. view[e][g.dev] \in Place
    BY <1>2, TilesHere, SeenPlace DEF Base
  <1>4. PICK s \in Unit : s = IF g.st = "drag" THEN g.to ELSE view[e][g.dev].start
    BY <1>2, <1>3 DEF Place
  <1>5. PICK n \in Unit : n = IF g.st = "drag" THEN view[e][g.dev].size ELSE g.to
    BY <1>2, <1>3 DEF Place
  <1>6. g.st = "drag" => g.other = n
    BY <1>1, <1>2, <1>5 DEF GrabbedAt
  <1>7. DrawnUnits(e, g.dev) = s .. s + n - 1
    BY <1>1, <1>2, <1>4, <1>5 DEF DrawnUnits, Units
  <1>8. \A o : PaintTarget(e, o) <=>
          o \in Tiles(e) \ {g.dev} /\ (s .. s + n - 1) \cap Units(view[e][o]) # {}
    BY <1>1, <1>2, <1>4, <1>5, <1>6 DEF PaintTarget, Interacting, Units
  <1>9. ASSUME NEW o \in Tiles(e) \ {g.dev}
        PROVE  /\ DrawnUnits(e, o) = Units(view[e][o])
               /\ (s .. s + n - 1) \cap Units(view[e][o]) # {} <=>
                    s <= End(view[e][o]) /\ s + n - 1 >= view[e][o].start
    <2>1. view[e][o] \in Place
      BY TilesHere, SeenPlace DEF Base
    <2>2. DrawnUnits(e, o) = Units(view[e][o])
      BY <1>1 DEF DrawnUnits, Units
    <2>3. /\ s \in Nat \ {0} /\ n \in Nat \ {0}
          /\ view[e][o].start \in Nat \ {0} /\ view[e][o].size \in Nat \ {0}
      BY <2>1, RackAssumption DEF Place, Unit
    <2> QED
      BY <2>2, <2>3, Overlap DEF Units, End
  <1>10. PaintRed(e, g.dev) <=>
           \E o \in Tiles(e) \ {g.dev} : s <= End(view[e][o]) /\ s + n - 1 >= view[e][o].start
    BY <1>1, <1>2, <1>4, <1>5 DEF PaintRed, HasConflict
  <1> QED
    BY <1>1, <1>7, <1>8, <1>9, <1>10

\* What the user sees explains itself, as long as neither the rack nor the view
\* changed since the grab.
THEOREM ConflictsAreDrawn == Spec => []ConflictIsDrawn
  <1>1. Base /\ Grabbed => ConflictIsDrawn
    <2>1. SUFFICES ASSUME Base, Grabbed, NEW e \in Editor,
                          gesture[e].st # "none", gesture[e].fresh
                   PROVE  /\ Look(e, gesture[e].dev) = "conflict"
                               <=> \E o \in Tiles(e) : Look(e, o) = "target"
                          /\ \A o \in Tiles(e) \ {gesture[e].dev} :
                               Look(e, o) = "target"
                                 <=> DrawnUnits(e, gesture[e].dev) \cap DrawnUnits(e, o) # {}
      BY DEF ConflictIsDrawn
    <2>2. \A o : Look(e, o) = "target" <=> PaintTarget(e, o)
      <3>1. \A o : PaintTarget(e, o) => ~PaintRed(e, o)
        BY DEF PaintTarget, PaintRed
      <3> QED
        BY <3>1, Colours
    <2>3. \A o : PaintTarget(e, o) => o \in Tiles(e) \ {gesture[e].dev}
      BY DEF PaintTarget
    <2> QED
      BY <2>1, <2>2, <2>3, Colours, DrawnAsCompared
  <1> QED
    BY <1>1, BaseAlways, GrabAlways, PTL

\* Only a drop ends a gesture.
LEMMA EndsInDrop ==
  ASSUME Base, Next, NEW e \in Editor, gesture[e].st # "none", gesture'[e].st = "none"
  PROVE  Drop(e)
  <1>1. gesture \in [Editor -> Gestures]
    BY DEF Base, Typed
  <1>2. ASSUME NEW f \in Editor, NEW d \in Tiles(f), NEW st \in {"drag", "resize"}, Press(f, d, st)
        PROVE  FALSE
    <2>1. gesture'[e] = gesture[e] \/ gesture'[e].st = st
      BY <1>1, <1>2 DEF Press
    <2> QED
      BY <2>1
  <1>3. ASSUME NEW f \in Editor, Move(f)  PROVE  FALSE
    BY <1>1, <1>3 DEF Move, Gestures
  <1>4. ASSUME NEW f \in Editor, Drop(f)  PROVE  Drop(e)
    BY <1>1, <1>4 DEF Drop
  <1>5. ASSUME gesture' = [f \in Editor |-> [gesture[f] EXCEPT !.fresh = FALSE]]  PROVE  FALSE
    BY <1>1, <1>5 DEF Gestures
  <1>6. ASSUME NEW f \in Editor, FetchLands(f)  PROVE  FALSE
    <2>1. PICK b : b = (gesture[f].fresh /\ view' = view)
      OBVIOUS
    <2>2. gesture' = [gesture EXCEPT ![f] = [gesture[f] EXCEPT !.fresh = b]]
      BY <1>1, <1>6, <2>1 DEF FetchLands, Gestures
    <2> QED
      BY <1>1, <2>2 DEF Gestures
  <1>7. ASSUME UNCHANGED gesture  PROVE  FALSE
    BY <1>7
  <1>8. ASSUME NEW f \in Editor, Opens(f) \/ Dialog(f) \/ Looks(f)  PROVE  FALSE
    BY <1>7, <1>8 DEF Opens, OpenDialog, Dialog, TypeHeight, TypeUnit, Submit, Cancel, Looks,
       PanelOpenDevice, PanelBack
  <1>9. ASSUME NEW f \in Editor, FetchServed(f) \/ FetchFails(f) \/ Refocus(f)  PROVE  FALSE
    BY <1>7, <1>9 DEF FetchServed, FetchFails, Refocus
  <1>10. ASSUME NEW w \in writes, \/ Lose(w) \/ DropAnswered(w) \/ DropRefused(w)
                                  \/ CreateAnswered(w) \/ CreateRefused(w)
         PROVE  FALSE
    BY <1>7, <1>10 DEF Lose, DropAnswered, DropRefused, CreateAnswered, CreateRefused
  <1>11. ASSUME NEW w \in writes, Serve(w)  PROVE  FALSE
    BY <1>5, <1>11 DEF Serve, Apply
  <1>12. ASSUME NEW d \in Device, Elsewhere(d)  PROVE  FALSE
    BY <1>5, <1>12 DEF Elsewhere
  <1> QED
    BY <1>2, <1>3, <1>4, <1>6, <1>8, <1>9, <1>10, <1>11, <1>12, Steps DEF Grab, Query

\* If neither the rack nor the view changed since the grab, then exactly what
\* is painted red is not written.
THEOREM RedRefused == Spec => RedIsRefused
  <1>1. ASSUME Base, Grabbed, [Next]_vars, NEW e \in Editor,
               gesture[e].st # "none", gesture'[e].st = "none", gesture[e].fresh
        PROVE  writes' # writes <=> gesture[e].to # gesture[e].from
                                      /\ Look(e, gesture[e].dev) # "conflict"
    <2>1. Drop(e)
      BY <1>1, EndsInDrop DEF vars
    <2>2. Look(e, gesture[e].dev) = "conflict" <=> Collides(e, gesture[e])
      BY <1>1, RedCollides
    <2>3. CASE gesture[e].to = gesture[e].from \/ Collides(e, gesture[e])
      BY <2>1, <2>2, <2>3 DEF Drop
    <2>4. CASE ~(gesture[e].to = gesture[e].from \/ Collides(e, gesture[e]))
      <3>1. PICK w : w = [id |-> work', ed |-> e, dev |-> gesture[e].dev, st |-> "sent",
                 op |-> gesture[e].st, unit |-> IF gesture[e].st = "drag" THEN gesture[e].to ELSE 1,
                 size |-> IF gesture[e].st = "drag" THEN 1 ELSE gesture[e].to,
                 sure |-> gesture[e].fresh, no |-> 0, orphan |-> FALSE]
        OBVIOUS
      <3>2. writes' = writes \cup {w} /\ work' = work + 1
        BY <2>1, <2>4, <3>1 DEF Drop, Work
      <3>3. w.id = work'
        BY <3>1
      <3>4. w \notin writes
        BY <1>1, <3>2, <3>3 DEF Base, Typed, Ids
      <3> QED
        BY <2>2, <2>4, <3>2, <3>4
    <2> QED
      BY <2>3, <2>4
  <1>2. Base /\ Grabbed /\ [Next]_vars =>
          [\A e \in Editor :
             LET g == gesture[e] IN
             g.st # "none" /\ gesture'[e].st = "none" /\ g.fresh =>
               (writes' # writes <=> g.to # g.from /\ Look(e, g.dev) # "conflict")]_vars
    BY <1>1
  <1> QED
    BY <1>2, BaseAlways, GrabAlways, PTL DEF Spec, RedIsRefused
-----------------------------------------------------------------------------
(* What a checked decision leaves *)

\* n units from s on are within the rack, and free.
Free(s, n) ==
  /\ s + n - 1 <= TotalU
  /\ \A o \in Device \ Pdu : Active(o) => (s .. s + n - 1) \cap Units(rack[o]) = {}

\* Device d may stand at p.
FitsIn(d, p) ==
  /\ End(p) <= TotalU
  /\ d \notin Pdu =>
       \A o \in Device \ Pdu : d # o /\ Active(o) => Units(p) \cap Units(rack[o]) = {}

SureWrite(w) == w.sure /\ w.st = "sent" => FitsIn(w.dev, Stored(w))

SureDialog(g) ==
  g.sure => /\ g.st # "closed"
            /\ g.st = "open" => Free(g.unit, g.size)
            /\ g.st = "asked" => g.at # 0 /\ Free(g.at, 1)

\* A decision that counts as checked is right about the rack as it is now.
Decided ==
  /\ \A w \in writes : SureWrite(w)
  /\ \A e \in Editor : SureDialog(dialog[e])
  /\ Fits

\* An elevation that is up to date has exactly the active devices, each at its
\* place.
LEMMA UpToDateRow ==
  ASSUME Base, NEW v, v = Shown(rack), NEW d \in Device
  PROVE  /\ d \in DOMAIN v /\ v # NoData
         /\ v[d] # Gone <=> Active(d)
         /\ Active(d) => v[d].start = rack[d].start /\ v[d].size = rack[d].size
  <1>1. rack[d] \in Row
    BY DEF Base, Typed
  <1>2. d \in DOMAIN v
    BY DEF Shown
  <1>3. v # NoData
    BY <1>2 DEF NoData
  <1>4. v[d] = IF rack[d].st = "active" THEN [start |-> rack[d].start, size |-> rack[d].size] ELSE Gone
    BY DEF Shown
  <1>5. Active(d) => v[d] # Gone
    BY <1>1, <1>4 DEF Active, Gone, Row, Unit
  <1> QED
    BY <1>2, <1>3, <1>4, <1>5 DEF Active

LEMMA UpToDateHere ==
  ASSUME Base, NEW e \in Editor, UpToDate(e), NEW d \in Device
  PROVE  /\ d \in Here(e) <=> Active(d)
         /\ Active(d) => view[e][d].start = rack[d].start /\ view[e][d].size = rack[d].size
  BY UpToDateRow DEF UpToDate, Here, Loaded

\* What nextFreeSlot proposes is free, if the search found a place.
LEMMA SureFree ==
  ASSUME Base, NEW v, NEW h \in Unit, Sure(v, h)
  PROVE  Free(NextFreeSlot(v, h), h)
  <1>1. FreeSlots(v, h) # {}
    BY DEF Sure, FreeSlots
  <1>2. PICK u \in FreeSlots(v, h) : u = NextFreeSlot(v, h)
    BY <1>1, NextUnit
  <1>3. u + h - 1 <= TotalU /\ (u .. u + h - 1) \cap Taken(v) = {}
    BY <1>2 DEF FreeSlots
  <1>4. ASSUME NEW o \in Device \ Pdu, Active(o)
        PROVE  (u .. u + h - 1) \cap Units(rack[o]) = {}
    <2>1. o \in DOMAIN v /\ v[o].start = rack[o].start /\ v[o].size = rack[o].size
      BY <1>4, UpToDateRow DEF Sure
    <2>2. Units(rack[o]) = Units(v[o]) /\ Units(v[o]) \subseteq Taken(v)
      BY <2>1 DEF Units, Taken
    <2> QED
      BY <1>3, <2>2
  <1> QED
    BY <1>2, <1>3, <1>4 DEF Free

LEMMA SureMounted ==
  ASSUME Base, NEW g \in Dialogs, NEW v, g.st = "asked", SureDialog(g)
  PROVE  SureDialog(Mounted(g, v))
  <1>1. g.size = 1 /\ 1 \in Unit
    BY Firsts DEF Dialogs
  <1>2. PICK u : u = IF g.at = 0 THEN NextFreeSlot(v, 1) ELSE g.at
    OBVIOUS
  <1>3. PICK b : b = (g.sure \/ (g.at = 0 /\ Sure(v, 1)))
    OBVIOUS
  <1>4. PICK h : h = [g EXCEPT !.st = "open", !.unit = u, !.sure = b]
    OBVIOUS
  <1>5. Mounted(g, v) = h
    BY <1>2, <1>3, <1>4 DEF Mounted
  <1>6. h.st = "open" /\ h.unit = u /\ h.sure = b /\ h.size = 1
    BY <1>1, <1>4 DEF Dialogs
  <1>7. b => Free(u, 1)
    <2>1. CASE g.sure
      BY <1>2, <2>1 DEF SureDialog
    <2>2. CASE ~g.sure
      BY <1>1, <1>2, <1>3, <2>2, SureFree
    <2> QED
      BY <2>1, <2>2
  <1> QED
    BY <1>5, <1>6, <1>7 DEF SureDialog

\* Nothing but the mishap of another or a write changes the rack.
LEMMA SureKept ==
  ASSUME UNCHANGED rack
  PROVE  /\ \A w : SureWrite(w) <=> SureWrite(w)'
         /\ \A g : SureDialog(g) <=> SureDialog(g)'
         /\ UNCHANGED checked /\ Fits => Fits'
  <1>1. \A s, n : Free(s, n)' <=> Free(s, n)
    BY DEF Free, Active
  <1>2. \A w : SureWrite(w) <=> SureWrite(w)'
    BY DEF SureWrite, FitsIn, Stored, Active
  <1>3. \A g : SureDialog(g) <=> SureDialog(g)'
    BY <1>1 DEF SureDialog
  <1>4. UNCHANGED checked /\ Fits => Fits'
    BY DEF Fits, NoOverlap, InRack, Active
  <1> QED
    BY <1>2, <1>3, <1>4
-----------------------------------------------------------------------------
\* handleMouseUp lets through what fits.
LEMMA DropFits ==
  ASSUME Base, Grabbed, NEW e \in Editor, gesture[e].st # "none", gesture[e].fresh,
         gesture[e].to # gesture[e].from, ~Collides(e, gesture[e]),
         NEW w, w.dev = gesture[e].dev, w.op = gesture[e].st,
         w.op = "drag" => w.unit = gesture[e].to, w.op = "resize" => w.size = gesture[e].to
  PROVE  FitsIn(w.dev, Stored(w))
  <1>1. PICK g \in Gestures : g = gesture[e]
    BY DEF Base, Typed
  <1>2. /\ g.st \in {"drag", "resize"} /\ g.to \in Unit /\ g.other \in Unit
        /\ GrabbedAt(e) /\ g.dev \in Tiles(e) /\ UpToDate(e) /\ g.dev \in Device
    BY <1>1 DEF Gestures, Grabbed, GrabbedAt
  <1>3. /\ rack[g.dev] \in Row /\ g.dev \in Here(e)
        /\ view[e][g.dev].start = rack[g.dev].start /\ view[e][g.dev].size = rack[g.dev].size
    BY <1>2, TilesHere, UpToDateHere DEF Base, Typed
  <1>4. g.to \in Reach(g)
    BY <1>1, <1>2 DEF GrabbedAt
  <1>5. PICK s \in Unit : s = IF g.st = "drag" THEN g.to ELSE g.other
    BY <1>2
  <1>6. PICK n \in Unit : n = IF g.st = "drag" THEN g.other ELSE g.to
    BY <1>2
  <1>7. PICK p : p = Stored(w)
    OBVIOUS
  <1>8. p.start = s /\ p.size = n
    <2>1. CASE g.st = "drag"
      <3>1. p = [rack[g.dev] EXCEPT !.start = g.to]
        BY <1>1, <1>7, <2>1 DEF Stored
      <3>2. p.start = g.to /\ p.size = rack[g.dev].size
        BY <1>3, <3>1 DEF Row
      <3> QED
        BY <1>1, <1>2, <1>3, <1>5, <1>6, <2>1, <3>2 DEF GrabbedAt
    <2>2. CASE g.st = "resize"
      <3>1. p = [rack[g.dev] EXCEPT !.size = g.to]
        BY <1>1, <1>7, <2>2 DEF Stored
      <3>2. p.size = g.to /\ p.start = rack[g.dev].start
        BY <1>3, <3>1 DEF Row
      <3> QED
        BY <1>1, <1>2, <1>3, <1>5, <1>6, <2>2, <3>2 DEF GrabbedAt
    <2> QED
      BY <1>2, <2>1, <2>2
  <1>9. s + n - 1 <= TotalU /\ s \in Nat \ {0} /\ n \in Nat \ {0}
    BY <1>2, <1>4, <1>5, <1>6, RackAssumption DEF Reach, Unit
  <1>10. ~HasConflict(e, g.dev, s, n)
    BY <1>1, <1>2, <1>5, <1>6 DEF Collides
  <1>11. ASSUME NEW o \in Device \ Pdu, g.dev # o, Active(o)
         PROVE  (s .. s + n - 1) \cap Units(rack[o]) = {}
    <2>1. /\ o \in Here(e) /\ view[e][o].start = rack[o].start
          /\ view[e][o].size = rack[o].size
      BY <1>2, <1>11, UpToDateHere
    <2>2. o \in Tiles(e) \ {g.dev}
      BY <1>11, <2>1, TilesHere DEF Base
    <2>3. ~(s <= End(view[e][o]) /\ s + n - 1 >= view[e][o].start)
      BY <1>10, <2>2 DEF HasConflict
    <2>4. ~(s <= rack[o].start + rack[o].size - 1 /\ s + n - 1 >= rack[o].start)
      BY <2>1, <2>3 DEF End
    <2>5. rack[o].start \in Nat \ {0} /\ rack[o].size \in Nat \ {0}
      BY RackAssumption DEF Base, Typed, Row, Unit
    <2> QED
      BY <1>9, <2>4, <2>5, Overlap DEF Units
  <1>12. Units(p) = s .. s + n - 1 /\ End(p) = s + n - 1
    BY <1>8 DEF Units, End
  <1> QED
    BY <1>1, <1>7, <1>9, <1>11, <1>12 DEF FitsIn

LEMMA OpenFree ==
  ASSUME Base, NEW e \in Editor, NEW u \in EmptySlots(e), UpToDate(e)
  PROVE  Free(u, 1)
  <1>1. u \in Unit /\ u \notin Occupied(e)
    BY DEF EmptySlots
  <1>2. u \in Nat /\ u + 1 - 1 <= TotalU /\ u .. u + 1 - 1 = {u}
    BY <1>1, RackAssumption DEF Unit
  <1>3. ASSUME NEW o \in Device \ Pdu, Active(o)  PROVE  u \notin Units(rack[o])
    <2>1. /\ o \in Here(e) /\ view[e][o].start = rack[o].start
          /\ view[e][o].size = rack[o].size
      BY <1>3, UpToDateHere
    <2>2. o \in Tiles(e)
      BY <1>3, <2>1, TilesHere DEF Base
    <2>3. Units(rack[o]) = Units(view[e][o])
      BY <2>1 DEF Units
    <2> QED
      BY <1>1, <2>2, <2>3 DEF Occupied
  <1> QED
    BY <1>2, <1>3 DEF Free

\* The steps that leave the rack alone.
LEMMA DecidedQuiet ==
  ASSUME Base, Decided, UNCHANGED <<rack, checked>>,
         \A w \in writes' : SureWrite(w), \A e \in Editor : SureDialog(dialog'[e])
  PROVE  Decided'
  <1>1. Fits'
    BY SureKept DEF Decided
  <1>2. \A w \in writes' : SureWrite(w)'
    BY SureKept
  <1>3. \A e \in Editor : SureDialog(dialog[e])'
    <2>1. ASSUME NEW e \in Editor  PROVE  SureDialog(dialog[e])'
      <3>1. PICK g : g = dialog'[e]
        OBVIOUS
      <3>2. SureDialog(g) /\ SureDialog(g)'
        BY <3>1, SureKept
      <3> QED
        BY <3>1, <3>2 DEF SureDialog
    <2> QED
      BY <2>1
  <1> QED
    BY <1>1, <1>2, <1>3 DEF Decided

\* A change of the rack leaves no decision that counts as checked.
LEMMA NoneSure ==
  ASSUME \A w \in writes' : ~w.sure \/ w.st # "sent", \A e \in Editor : ~dialog'[e].sure, Fits'
  PROVE  Decided'
  <1>1. \A w \in writes' : SureWrite(w)'
    BY DEF SureWrite
  <1>2. \A e \in Editor : SureDialog(dialog[e])'
    BY DEF SureDialog
  <1> QED
    BY <1>1, <1>2 DEF Decided

LEMMA ServeDecided ==
  ASSUME Base, Decided, NEW w \in writes, Serve(w)
  PROVE  Decided'
  <1>1. w \in Writes /\ w.dev \in Device /\ w.st = "sent" /\ SureWrite(w)
    BY DEF Base, Typed, Writes, Serve, Decided
  <1>2. PICK p \in Row : p = Stored(w)
    BY StoredRow DEF Base
  <1>3. rack' = [rack EXCEPT ![w.dev] = p]
    BY <1>2 DEF Serve, Apply
  <1>4. checked' = IF w.sure THEN checked \cup {w.dev} ELSE checked \ {w.dev}
    BY DEF Serve, Apply
  <1>5. rack'[w.dev] = p /\ \A d \in Device \ {w.dev} : rack'[d] = rack[d]
    BY <1>1, <1>3 DEF Base, Typed
  <1>6. \A d \in checked' : d \in Device /\ (d # w.dev => d \in checked) /\ (d = w.dev => w.sure)
    BY <1>1, <1>4 DEF Base, Typed
  <1>7. w.sure => FitsIn(w.dev, p)
    BY <1>1, <1>2 DEF SureWrite
  <1>8. ASSUME NEW d \in checked' \ Pdu, NEW o \in checked' \ Pdu, d # o,
               rack'[d].st = "active", rack'[o].st = "active"
        PROVE  Units(rack'[d]) \cap Units(rack'[o]) = {}
    <2>1. CASE d # w.dev /\ o # w.dev
      BY <1>5, <1>6, <1>8, <2>1 DEF Decided, Fits, NoOverlap, Active
    <2>2. CASE d = w.dev
      BY <1>5, <1>6, <1>7, <1>8, <2>2 DEF FitsIn, Active
    <2>3. CASE o = w.dev
      <3>1. Units(p) \cap Units(rack[d]) = {}
        BY <1>5, <1>6, <1>7, <1>8, <2>3 DEF FitsIn, Active
      <3> QED
        BY <1>5, <1>6, <1>8, <2>3, <3>1
    <2> QED
      BY <2>1, <2>2, <2>3
  <1>9. ASSUME NEW d \in checked', rack'[d].st = "active"
        PROVE  End(rack'[d]) <= TotalU
    <2>1. CASE d # w.dev
      BY <1>5, <1>6, <1>9, <2>1 DEF Decided, Fits, InRack, Active
    <2>2. CASE d = w.dev
      BY <1>5, <1>6, <1>7, <2>2 DEF FitsIn
    <2> QED
      BY <2>1, <2>2
  <1>10. Fits'
    BY <1>8, <1>9 DEF Fits, NoOverlap, InRack, Active
  <1>11. \A x \in writes' : ~x.sure \/ x.st # "sent"
    <2>1. PICK v : v = [w EXCEPT !.st = "served"]
      OBVIOUS
    <2>2. v.st = "served"
      BY <1>1, <2>1 DEF Writes
    <2>3. \A x \in writes' : x \in Unsure(writes \ {w}) \/ x = v
      BY <2>1 DEF Serve
    <2> QED
      BY <2>2, <2>3, UnsureTyped DEF Base
  <1>12. \A e \in Editor : ~dialog'[e].sure
    BY DEF Serve, Base, Typed, Dialogs
  <1> QED
    BY <1>10, <1>11, <1>12, NoneSure

LEMMA ElsewhereDecided ==
  ASSUME Base, Decided, NEW d \in Device, Elsewhere(d)
  PROVE  Decided'
  <1>1. checked' = checked \ {d} /\ \A o \in Device \ {d} : rack'[o] = rack[o]
    BY DEF Elsewhere, Base, Typed
  <1>2. Fits'
    BY <1>1 DEF Base, Typed, Decided, Fits, NoOverlap, InRack, Active
  <1>3. \A x \in writes' : ~x.sure
    BY UnsureTyped DEF Elsewhere, Base
  <1>4. \A e \in Editor : ~dialog'[e].sure
    BY DEF Elsewhere, Base, Typed, Dialogs
  <1> QED
    BY <1>2, <1>3, <1>4, NoneSure

LEMMA NetworkDecided ==
  ASSUME Base, Decided, NEW w \in writes,
         \/ Lose(w) \/ DropAnswered(w) \/ DropRefused(w) \/ CreateAnswered(w) \/ CreateRefused(w)
  PROVE  Decided'
  <1>1. UNCHANGED <<rack, checked>>
    BY DEF Lose, DropAnswered, DropRefused, CreateAnswered, CreateRefused, server
  <1>2. w \in Writes /\ dialog \in [Editor -> Dialogs] /\ \A x \in writes : SureWrite(x)
    BY DEF Base, Typed, Decided
  <1>3. \A x \in writes' : SureWrite(x)
    <2>1. CASE Lose(w)
      <3>1. PICK v : v = [w EXCEPT !.orphan = TRUE]
        OBVIOUS
      <3>2. /\ v.sure = w.sure /\ v.st = w.st /\ v.dev = w.dev /\ v.op = w.op
            /\ v.unit = w.unit /\ v.size = w.size
        BY <1>2, <3>1 DEF Writes
      <3>3. SureWrite(v)
        BY <1>2, <3>2 DEF SureWrite, Stored
      <3>4. \A x \in writes' : x \in writes \/ x = v
        BY <2>1, <3>1 DEF Lose
      <3> QED
        BY <1>2, <3>3, <3>4
    <2>2. CASE ~Lose(w)
      BY <1>2, <2>2 DEF DropAnswered, DropRefused, CreateAnswered, CreateRefused
    <2> QED
      BY <2>1, <2>2
  <1>4. \A e \in Editor : \/ dialog'[e] = Closed
                          \/ /\ dialog'[e].sure = dialog[e].sure /\ dialog'[e].st = dialog[e].st
                             /\ dialog'[e].unit = dialog[e].unit /\ dialog'[e].at = dialog[e].at
                             /\ dialog'[e].size = dialog[e].size
    BY <1>2 DEF Lose, DropAnswered, DropRefused, CreateAnswered, CreateRefused, Dialogs
  <1>5. \A e \in Editor : SureDialog(dialog'[e])
    BY <1>4 DEF SureDialog, Closed, Decided
  <1> QED
    BY <1>1, <1>3, <1>5, DecidedQuiet
-----------------------------------------------------------------------------
LEMMA EditorDecided ==
  ASSUME Base, Grabbed, Decided, NEW e \in Editor,
         \/ Grab(e) \/ Move(e) \/ Drop(e) \/ Opens(e) \/ Dialog(e) \/ Looks(e) \/ Query(e)
  PROVE  Decided'
  <1>1. UNCHANGED <<rack, checked>>
    BY DEF Grab, Press, Move, Drop, Opens, OpenDialog, Dialog, TypeHeight, TypeUnit, Submit, Cancel,
       Looks, PanelOpenDevice, PanelBack, Query, FetchServed, FetchLands, FetchFails, Refocus, server
  <1>2. dialog \in [Editor -> Dialogs] /\ gesture \in [Editor -> Gestures]
    BY DEF Base, Typed
  <1>3. (\A x \in writes : SureWrite(x)) /\ (\A f \in Editor : SureDialog(dialog[f]))
    BY DEF Decided
  <1>4. ASSUME UNCHANGED writes, NEW g, SureDialog(g), dialog' = [dialog EXCEPT ![e] = g]
        PROVE  Decided'
    <2>1. \A f \in Editor : SureDialog(dialog'[f])
      BY <1>2, <1>3, <1>4
    <2> QED
      BY <1>1, <1>3, <1>4, <2>1, DecidedQuiet
  <1>5. ASSUME UNCHANGED <<writes, dialog>>  PROVE  Decided'
    BY <1>1, <1>3, <1>5, DecidedQuiet
  <1>6. CASE Grab(e) \/ Move(e) \/ Looks(e)
    BY <1>5, <1>6 DEF Grab, Press, Move, Looks, PanelOpenDevice, PanelBack
  <1>7. CASE Drop(e)
    <2>1. PICK w : w = [id |-> work', ed |-> e, dev |-> gesture[e].dev, st |-> "sent",
                 op |-> gesture[e].st, unit |-> IF gesture[e].st = "drag" THEN gesture[e].to ELSE 1,
                 size |-> IF gesture[e].st = "drag" THEN 1 ELSE gesture[e].to,
                 sure |-> gesture[e].fresh, no |-> 0, orphan |-> FALSE]
      OBVIOUS
    <2>2. UNCHANGED dialog /\ gesture[e].st # "none"
      BY <1>7 DEF Drop, Interacting
    <2>3. UNCHANGED writes
            \/ /\ writes' = writes \cup {w} /\ gesture[e].to # gesture[e].from
               /\ ~Collides(e, gesture[e])
      BY <1>7, <2>1 DEF Drop
    <2>4. CASE UNCHANGED writes
      BY <1>5, <2>2, <2>4
    <2>5. CASE ~UNCHANGED writes
      <3>1. /\ w.dev = gesture[e].dev /\ w.op = gesture[e].st /\ w.sure = gesture[e].fresh
            /\ w.op = "drag" => w.unit = gesture[e].to
            /\ w.op = "resize" => w.size = gesture[e].to
        BY <2>1
      <3>2. gesture[e].fresh => FitsIn(w.dev, Stored(w))
        BY <2>2, <2>3, <2>5, <3>1, DropFits
      <3>3. SureWrite(w)
        BY <3>1, <3>2 DEF SureWrite
      <3> QED
        BY <1>1, <1>3, <2>2, <2>3, <2>5, <3>3, DecidedQuiet
    <2> QED
      BY <2>4, <2>5
  <1>8. ASSUME NEW u \in EmptySlots(e) \cup {0}, OpenDialog(e, u)  PROVE  Decided'
    <2>1. PICK n \in Nat : n = NewNo
      BY NewNoFree, RackAssumption DEF Base
    <2>2. u \in 0..TotalU /\ (u # 0 => u \in EmptySlots(e))
      BY RackAssumption DEF EmptySlots, Unit
    <2>3. PICK b \in BOOLEAN : b = (u # 0 /\ UpToDate(e))
      OBVIOUS
    <2>4. PICK g : g = [Closed EXCEPT !.st = "asked", !.no = n, !.at = u, !.sure = b]
      OBVIOUS
    <2>5. g \in Dialogs /\ g.st = "asked" /\ g.at = u /\ g.sure = b
      BY <2>2, <2>4, Firsts DEF Closed, Dialogs
    <2>6. b => Free(u, 1)
      BY <2>2, <2>3, OpenFree
    <2>7. SureDialog(g)
      BY <2>3, <2>5, <2>6 DEF SureDialog
    <2>8. PICK h : h = IF Loaded(e) THEN Mounted(g, view[e]) ELSE g
      OBVIOUS
    <2>9. SureDialog(h)
      BY <2>5, <2>7, <2>8, SureMounted
    <2>10. dialog' = [dialog EXCEPT ![e] = h] /\ UNCHANGED writes
      BY <1>8, <2>1, <2>3, <2>4, <2>8 DEF OpenDialog
    <2> QED
      BY <1>4, <2>9, <2>10
  <1>9. ASSUME NEW h \in Unit, TypeHeight(e, h)  PROVE  Decided'
    <2>1. PICK u : u = NextFreeSlot(view[e], h)
      OBVIOUS
    <2>2. PICK b : b = Sure(view[e], h)
      OBVIOUS
    <2>3. PICK g : g = [dialog[e] EXCEPT !.size = h, !.unit = u, !.sure = b]
      OBVIOUS
    <2>4. g.size = h /\ g.unit = u /\ g.sure = b /\ g.st = "open"
      BY <1>2, <1>9, <2>3 DEF Dialogs, TypeHeight
    <2>5. SureDialog(g)
      BY <2>1, <2>2, <2>4, SureFree DEF SureDialog
    <2>6. dialog' = [dialog EXCEPT ![e] = g] /\ UNCHANGED writes
      BY <1>2, <1>9, <2>1, <2>2, <2>3 DEF TypeHeight
    <2> QED
      BY <1>4, <2>5, <2>6
  <1>10. ASSUME NEW u \in Unit, TypeUnit(e, u)  PROVE  Decided'
    <2>1. PICK g : g = [dialog[e] EXCEPT !.unit = u, !.sure = FALSE]
      OBVIOUS
    <2>2. SureDialog(g)
      BY <1>2, <2>1 DEF SureDialog, Dialogs
    <2>3. dialog' = [dialog EXCEPT ![e] = g] /\ UNCHANGED writes
      BY <1>2, <1>10, <2>1 DEF TypeUnit
    <2> QED
      BY <1>4, <2>2, <2>3
  <1>11. ASSUME NEW d \in Device, Submit(e, d)  PROVE  Decided'
    <2>1. PICK w : w = [id |-> work', ed |-> e, dev |-> d, st |-> "sent", op |-> "create",
                             unit |-> dialog[e].unit, size |-> dialog[e].size,
                             sure |-> dialog[e].sure, no |-> dialog[e].no, orphan |-> FALSE]
      OBVIOUS
    <2>2. writes' = writes \cup {w} /\ dialog[e].st = "open"
      BY <1>11, <2>1 DEF Submit, SubmitEnabled
    <2>3. dialog' = [dialog EXCEPT ![e] = [dialog[e] EXCEPT !.pend = work']]
      BY <1>2, <1>11 DEF Submit
    <2>4. PICK p : p = Stored(w)
      OBVIOUS
    <2>5. p.start = dialog[e].unit /\ p.size = dialog[e].size
      BY <2>1, <2>4 DEF Stored
    <2>6. dialog[e].sure => Free(dialog[e].unit, dialog[e].size)
      BY <1>3, <2>2 DEF SureDialog
    <2>7. dialog[e].sure => FitsIn(d, p)
      BY <2>5, <2>6 DEF Free, FitsIn, Units, End
    <2>8. SureWrite(w)
      BY <2>1, <2>4, <2>7 DEF SureWrite
    <2>9. \A f \in Editor : /\ dialog'[f].sure = dialog[f].sure /\ dialog'[f].st = dialog[f].st
                            /\ dialog'[f].unit = dialog[f].unit /\ dialog'[f].at = dialog[f].at
                            /\ dialog'[f].size = dialog[f].size
      BY <1>2, <2>3 DEF Dialogs
    <2>10. \A f \in Editor : SureDialog(dialog'[f])
      BY <1>3, <2>9 DEF SureDialog
    <2> QED
      BY <1>1, <1>3, <2>2, <2>8, <2>10, DecidedQuiet
  <1>12. CASE Cancel(e)
    <2>1. SureDialog(Closed)
      BY DEF SureDialog, Closed
    <2> QED
      BY <1>4, <1>12, <2>1 DEF Cancel
  <1>13. CASE FetchLands(e)
    <2>1. UNCHANGED writes
      BY <1>13 DEF FetchLands
    <2>2. CASE dialog[e].st # "asked"
      BY <1>5, <1>13, <2>1, <2>2 DEF FetchLands
    <2>3. CASE dialog[e].st = "asked"
      <3>1. PICK g \in Dialogs : g = dialog[e]
        BY <1>2
      <3>2. SureDialog(Mounted(g, fetch[e].snap))
        BY <1>3, <2>3, <3>1, SureMounted
      <3>3. dialog' = [dialog EXCEPT ![e] = Mounted(g, fetch[e].snap)]
        BY <1>2, <1>13, <2>3, <3>1 DEF FetchLands
      <3> QED
        BY <1>4, <2>1, <3>2, <3>3
    <2> QED
      BY <2>2, <2>3
  <1>14. CASE FetchFails(e)
    <2>1. PICK g : g = [Closed EXCEPT !.st = "asked", !.at = dialog[e].at]
      OBVIOUS
    <2>2. SureDialog(g)
      BY <2>1 DEF SureDialog, Closed
    <2>3. UNCHANGED writes /\ (dialog' = dialog \/ dialog' = [dialog EXCEPT ![e] = g])
      BY <1>14, <2>1 DEF FetchFails
    <2> QED
      BY <1>4, <1>5, <2>2, <2>3
  <1>15. CASE FetchServed(e) \/ Refocus(e)
    BY <1>5, <1>15 DEF FetchServed, Refocus
  <1> QED
    BY <1>6, <1>7, <1>8, <1>9, <1>10, <1>11, <1>12, <1>13, <1>14, <1>15 DEF Opens, Dialog, Query

\* What the editors decide on a view that was up to date keeps the rack sound:
\* no overlap, nothing outside.
THEOREM CheckedFits == Spec => []Fits
  <1>1. ASSUME Init  PROVE  Decided
    <2>1. PICK s \in Scenarios : rack = s.rack
      BY <1>1 DEF Init
    <2>2. Sound(rack) /\ checked = Device
      BY <1>1, <2>1, RackAssumption DEF Init
    <2>3. Fits
      BY <2>2 DEF Sound, Fits, NoOverlap, InRack, Active
    <2>4. \A e \in Editor : SureDialog(dialog[e])
      BY <1>1 DEF Init, SureDialog, Closed
    <2> QED
      BY <1>1, <2>3, <2>4 DEF Init, Decided
  <1>2. ASSUME Base, Grabbed, Decided, Next  PROVE  Decided'
    BY <1>2, Steps, EditorDecided, ServeDecided, NetworkDecided, ElsewhereDecided
  <1>3. ASSUME Base, Decided, UNCHANGED vars  PROVE  Decided'
    BY <1>3, DecidedQuiet DEF vars, Decided
  <1>4. Base /\ Grabbed /\ Decided /\ [Next]_vars => Decided'
    BY <1>2, <1>3
  <1>5. Decided => Fits
    BY DEF Decided
  <1> QED
    BY <1>1, <1>4, <1>5, BaseAlways, GrabAlways, PTL DEF Spec
=============================================================================
