----------------------------- MODULE RackEditor -----------------------------
(***************************************************************************)
(* The four rack elevation editors of the frontend (RackElevation,         *)
(* FloorPlanRackPanel, RackDiagram and the columns of RoomRackView) and    *)
(* their Add Device dialog, at work on one rack in several browsers.  An   *)
(* editor decides on its cached elevation whether a drop, a resize or a    *)
(* new device fits; the server stores what it is sent.                     *)
(***************************************************************************)
EXTENDS Naturals, FiniteSets, FiniteSetsExt

CONSTANTS Editor,     \* mounted editors, each in a browser of its own
          Scenarios,  \* [kind: the component of each editor, rack: the first rows]
          Device, Pdu, \* devices of the rack, and those of type pdu
          TotalU,     \* its height
          None,       \* no device
          MaxWork,    \* bound: writes sent
          MaxMishap   \* bound: failures, losses and changes made elsewhere

Kind == {"elevation", "panel", "diagram", "column"}

Unit == 1..TotalU
Row == [st : {"active", "inactive", "none"}, start : Unit, size : Unit]

Units(p) == p.start .. p.start + p.size - 1
End(p) == p.start + p.size - 1

\* The first rows are within the rack, and do not overlap.
Sound(r) ==
  /\ \A d \in Device : r[d].st = "active" => End(r[d]) <= TotalU
  /\ \A d, o \in Device \ Pdu :
       d # o /\ r[d].st = "active" /\ r[o].st = "active" => Units(r[d]) \cap Units(r[o]) = {}

ASSUME RackAssumption ==
  /\ TotalU \in Nat \ {0} /\ MaxWork \in Nat /\ MaxMishap \in Nat
  /\ Scenarios \subseteq [kind : [Editor -> Kind], rack : [Device -> Row]]
  /\ \A s \in Scenarios : Sound(s.rack)
  /\ Pdu \subseteq Device /\ None \notin Device

VARIABLES
  kind,      \* the component of each editor
  rack,      \* the server's rows
  view,      \* the cached elevation of each editor
  fetch,     \* its query
  gesture,   \* its dragState or resizeState
  dialog,    \* its Add Device dialog
  detail,    \* panels that show a device instead of the rack
  writes,    \* requests under way that change the rack
  work, mishaps,
  checked,   \* history: devices placed by a checked change (see Apply)
  lag        \* history: <<e, id>>, applied writes that their editor does not show

vars == <<kind, rack, view, fetch, gesture, dialog, detail, writes, work, mishaps, checked, lag>>
browser == <<kind, view, fetch, gesture, dialog, detail, work>>
server == <<rack, checked, lag>>

Place == [start : Unit, size : Unit]
Gone == [start |-> 0, size |-> 0]
NoData == [d \in {} |-> Gone]
Elevations == [Device -> Place \cup {Gone}]

NoGesture == [st |-> "none", dev |-> None, from |-> 0, to |-> 0, other |-> 0, fresh |-> FALSE]
Closed == [st |-> "closed", no |-> 0, at |-> 0, unit |-> 0, size |-> 1, sure |-> FALSE,
           pend |-> 0, made |-> 0]
Idle == [st |-> "idle", err |-> FALSE, snap |-> NoData, covers |-> {}]

Work == work < MaxWork /\ work' = work + 1
Mishap == mishaps < MaxMishap /\ mishaps' = mishaps + 1

-----------------------------------------------------------------------------
(* What an editor sees *)

\* GET /topology/rack-elevation: the devices that are not inactive.
Shown(r) == [d \in Device |-> IF r[d].st = "active"
                              THEN [start |-> r[d].start, size |-> r[d].size] ELSE Gone]

Loaded(e) == view[e] # NoData
Here(e) == IF Loaded(e) THEN {d \in Device : view[e][d] # Gone} ELSE {}
UpToDate(e) == view[e] = Shown(rack)

\* PDUs hang on the side rails and take no units.
ElevationTiles(e) == Here(e) \ Pdu
PanelTiles(e) == Here(e) \ Pdu
DiagramTiles(e) == Here(e) \ Pdu

\* The columns of the room view draw a PDU like any other device.
ColumnTiles(e) == Here(e)

Tiles(e) == CASE kind[e] = "elevation" -> ElevationTiles(e) [] kind[e] = "panel" -> PanelTiles(e)
              [] kind[e] = "diagram" -> DiagramTiles(e)     [] OTHER -> ColumnTiles(e)

\* Mutant: the last unit of the other device is taken for free.
HasConflictShort(e, d, start, size) ==
  \E o \in Tiles(e) \ {d} : /\ start < End(view[e][o])
                            /\ start + size - 1 >= view[e][o].start

HasConflict(e, d, start, size) ==
  \E o \in Tiles(e) \ {d} : /\ start <= End(view[e][o])
                            /\ start + size - 1 >= view[e][o].start

Occupied(e) == UNION {Units(view[e][d]) : d \in Tiles(e)}

-----------------------------------------------------------------------------
(* Queries and gestures *)

\* invalidateQueries and refetch() cancel the fetch that is under way.
Refetch(e) ==
  fetch' = [fetch EXCEPT ![e] = [Idle EXCEPT !.st = "sent", !.err = Loaded(e) /\ fetch[e].err]]

Interacting(e) == gesture[e].st # "none"

\* A panel with a device open, and an elevation whose query failed, have no
\* rack to grab.
RackVisible(e) == Loaded(e) /\ e \notin detail /\ ~(kind[e] = "elevation" /\ fetch[e].err)

\* startDrag and startResize.
Press(e, d, st) ==
  LET p == view[e][d] IN
  /\ RackVisible(e) /\ ~Interacting(e) /\ dialog[e].st # "open"
  /\ gesture' = [gesture EXCEPT ![e] =
       [st |-> st, dev |-> d, fresh |-> UpToDate(e),
        from |-> IF st = "drag" THEN p.start ELSE p.size,
        to |-> IF st = "drag" THEN p.start ELSE p.size,
        other |-> IF st = "drag" THEN p.size ELSE p.start]]
  /\ UNCHANGED <<kind, view, fetch, dialog, detail, writes, work, mishaps, server>>

\* Where the mouse can take it: a device of height h to 1..TotalU - h + 1, an
\* edge to 1..TotalU - start + 1; both are other = h or start.
Reach(g) == 1 .. (IF TotalU - g.other + 1 < 1 THEN 1 ELSE TotalU - g.other + 1)

Move(e) ==
  /\ Interacting(e) /\ (gesture[e].st = "resize" \/ RackVisible(e))
  /\ \E u \in Reach(gesture[e]) : gesture' = [gesture EXCEPT ![e].to = u]
  /\ gesture' # gesture
  /\ UNCHANGED <<kind, view, fetch, dialog, detail, writes, work, mishaps, server>>

Collides(e, g) == IF g.st = "drag" THEN HasConflict(e, g.dev, g.to, g.other)
                  ELSE HasConflict(e, g.dev, g.other, g.to)

\* handleMouseUp: a PUT if something changed and the cached devices leave room.
Drop(e) ==
  LET g == gesture[e] IN
  /\ Interacting(e)
  /\ gesture' = [gesture EXCEPT ![e] = NoGesture]
  /\ IF g.to = g.from \/ Collides(e, g)
     THEN UNCHANGED <<writes, work>>
     ELSE /\ Work
          /\ writes' = writes \cup {[id |-> work', ed |-> e, dev |-> g.dev, st |-> "sent",
                 op |-> g.st, unit |-> IF g.st = "drag" THEN g.to ELSE 1,
                 size |-> IF g.st = "drag" THEN 1 ELSE g.to, sure |-> g.fresh,
                 no |-> 0, orphan |-> FALSE]}
  /\ UNCHANGED <<kind, view, fetch, dialog, detail, mishaps, server>>

-----------------------------------------------------------------------------
(* The Add Device dialog *)

\* The units that the devices of elevation v take, PDUs too.
Taken(v) == UNION {Units(v[d]) : d \in DOMAIN v}

\* Mutant: the search goes on to the last unit, whatever the height.
FreeSlotsOver(v, h) == {u \in Unit : (u..(u + h - 1)) \cap Taken(v) = {}}

FreeSlots(v, h) == {u \in Unit : u + h - 1 <= TotalU /\ (u..(u + h - 1)) \cap Taken(v) = {}}

\* The first place for h units; U1 if there is none.
NextFreeSlot(v, h) == IF FreeSlots(v, h) = {} THEN 1 ELSE Min(FreeSlots(v, h))

\* History: the place that v proposes is a free one.
Sure(v, h) == v = Shown(rack) /\ \E u \in Unit : /\ u + h - 1 <= TotalU
                                                /\ (u..(u + h - 1)) \cap Taken(v) = {}

\* The dialog is mounted: with the clicked unit, or with a search.
Mounted(dlg, v) == [dlg EXCEPT !.st = "open",
                               !.unit = IF dlg.at = 0 THEN NextFreeSlot(v, 1) ELSE dlg.at,
                               !.sure = dlg.sure \/ (dlg.at = 0 /\ Sure(v, 1))]

\* A number that no dialog with a request under way has.
NewNo == Min((1..MaxWork + 1) \ {w.no : w \in writes})

\* A slot of the grid (at = its unit) or the Add Device button (at = 0) opens
\* the dialog; without data it is rendered when they arrive.
OpenDialog(e, at) ==
  /\ ~Interacting(e) /\ dialog[e].st # "open"
  /\ LET asked == [Closed EXCEPT !.st = "asked", !.no = NewNo, !.at = at,
                                 !.sure = at # 0 /\ UpToDate(e)]
     IN dialog' = [dialog EXCEPT ![e] = IF Loaded(e) THEN Mounted(asked, view[e]) ELSE asked]
  /\ UNCHANGED <<kind, view, fetch, gesture, detail, writes, work, mishaps, server>>

\* handleHeightChange proposes a place anew, also when a slot was clicked.
TypeHeight(e, h) ==
  /\ dialog[e].st = "open" /\ h # dialog[e].size
  /\ dialog' = [dialog EXCEPT ![e].size = h, ![e].unit = NextFreeSlot(view[e], h),
                              ![e].sure = Sure(view[e], h)]
  /\ UNCHANGED <<kind, view, fetch, gesture, detail, writes, work, mishaps, server>>

\* The unit can be overwritten with any unit of the rack.
TypeUnit(e, u) ==
  /\ dialog[e].st = "open" /\ u # dialog[e].unit
  /\ dialog' = [dialog EXCEPT ![e].unit = u, ![e].sure = FALSE]
  /\ UNCHANGED <<kind, view, fetch, gesture, detail, writes, work, mishaps, server>>

\* Mutant: the submit button is not disabled while the request is pending.
SubmitEnabledAlways(e) == dialog[e].st = "open"

SubmitEnabled(e) == dialog[e].st = "open" /\ dialog[e].pend = 0

\* handleSubmit: a POST.  A PDU is sent without a unit, and with a rack.
Submit(e, d) ==
  /\ SubmitEnabled(e)
  /\ rack[d].st = "none" /\ \A w \in writes : w.dev # d
  /\ Work
  /\ dialog' = [dialog EXCEPT ![e].pend = work']
  /\ writes' = writes \cup {[id |-> work', ed |-> e, dev |-> d, st |-> "sent", op |-> "create",
                             unit |-> dialog[e].unit, size |-> dialog[e].size,
                             sure |-> dialog[e].sure, no |-> dialog[e].no, orphan |-> FALSE]}
  /\ UNCHANGED <<kind, view, fetch, gesture, detail, mishaps, server>>

\* Cancel, the cross and the overlay are never disabled.
Cancel(e) ==
  /\ dialog[e].st = "open"
  /\ dialog' = [dialog EXCEPT ![e] = Closed]
  /\ UNCHANGED <<kind, view, fetch, gesture, detail, writes, work, mishaps, server>>

Dialog(e) == \/ \E h \in Unit : TypeHeight(e, h)
             \/ \E u \in Unit : TypeUnit(e, u)
             \/ \E d \in Device : Submit(e, d)
             \/ Cancel(e)

-----------------------------------------------------------------------------
(* The editors *)

Grab(e) == \E d \in Tiles(e), st \in {"drag", "resize"} : Press(e, d, st)

\* The units whose row can be clicked.
EmptySlots(e) == Unit \ Occupied(e)

ElevationGestures(e) == kind[e] = "elevation" /\ (Grab(e) \/ Move(e) \/ Drop(e))
PanelGestures(e) == kind[e] = "panel" /\ (Grab(e) \/ Move(e) \/ Drop(e))
DiagramGestures(e) == kind[e] = "diagram" /\ (Grab(e) \/ Move(e) \/ Drop(e))
ColumnGestures(e) == kind[e] = "column" /\ (Grab(e) \/ Move(e) \/ Drop(e))

\* Until the data are there the elevation shows "Loading" or an error, and
\* again when a later fetch failed.
ElevationSlots(e) ==
  /\ kind[e] = "elevation" /\ RackVisible(e)
  /\ \E u \in EmptySlots(e) : OpenDialog(e, u)

\* The panel shows its grid once it is not loading, data or not.
PanelSlots(e) ==
  /\ kind[e] = "panel" /\ e \notin detail /\ (Loaded(e) \/ fetch[e].st = "failed")
  /\ \E u \in EmptySlots(e) : OpenDialog(e, u)

DiagramSlots(e) ==
  /\ kind[e] = "diagram" /\ (Loaded(e) \/ fetch[e].st = "failed")
  /\ \E u \in EmptySlots(e) : OpenDialog(e, u)

\* A column shows the rows of its grid from the start.
ColumnSlots(e) == kind[e] = "column" /\ \E u \in EmptySlots(e) : OpenDialog(e, u)

PanelAdd(e) == kind[e] = "panel" /\ e \notin detail /\ OpenDialog(e, 0)
DiagramAdd(e) == kind[e] = "diagram" /\ (Loaded(e) \/ fetch[e].st = "failed") /\ OpenDialog(e, 0)
ColumnAdd(e) == kind[e] = "column" /\ OpenDialog(e, 0)

\* The PDUs at both sides can be clicked, not grabbed.
PanelRails(e) == Here(e) \cap Pdu

\* A click on a tile or a PDU opens the device in place of the rack.  (The
\* other editors tell the page beside them.)
PanelOpenDevice(e) ==
  /\ kind[e] = "panel" /\ e \notin detail /\ ~Interacting(e)
  /\ PanelTiles(e) \cup PanelRails(e) # {}
  /\ dialog[e].st # "open"
  /\ detail' = detail \cup {e}
  /\ UNCHANGED <<kind, view, fetch, gesture, dialog, writes, work, mishaps, server>>

PanelBack(e) ==
  /\ e \in detail
  /\ detail' = detail \ {e}
  /\ UNCHANGED <<kind, view, fetch, gesture, dialog, writes, work, mishaps, server>>

-----------------------------------------------------------------------------
(* What the tiles show *)

\* Mutant: a resized tile is not compared with the others.
PaintRedDragOnly(e, d) == /\ gesture[e].dev = d /\ gesture[e].st = "drag"
                          /\ HasConflict(e, d, gesture[e].to, view[e][d].size)

\* A grabbed tile turns red where it would collide; its own height or unit is
\* the cached one.
PaintRed(e, d) ==
  LET g == gesture[e] IN
  /\ g.dev = d
  /\ \/ g.st = "drag" /\ HasConflict(e, d, g.to, view[e][d].size)
     \/ g.st = "resize" /\ HasConflict(e, d, view[e][d].start, g.to)

\* Mutant: a resized tile marks nothing.
PaintTargetDragOnly(e, d) ==
  LET g == gesture[e] IN
  /\ g.st = "drag" /\ g.dev # d /\ d \in Tiles(e)
  /\ Units([start |-> g.to, size |-> g.other]) \cap Units(view[e][d]) # {}

\* Another tile turns red under what would collide with it; the height of a
\* dragged device is the one it was grabbed with.
PaintTarget(e, d) ==
  LET g == gesture[e] IN
  /\ Interacting(e) /\ g.dev # d /\ d \in Tiles(e)
  /\ LET p == IF g.st = "drag" THEN [start |-> g.to, size |-> g.other]
              ELSE [start |-> view[e][g.dev].start, size |-> g.to]
     IN (g.st = "drag" \/ g.dev \in Tiles(e)) /\ Units(p) \cap Units(view[e][d]) # {}

\* The colour of a tile.
Look(e, d) == CASE PaintRed(e, d) -> "conflict" [] PaintTarget(e, d) -> "target" [] OTHER -> "plain"

\* The units a tile is drawn over: a grabbed one follows the mouse.
DrawnUnits(e, d) ==
  LET g == gesture[e] IN
  Units([start |-> IF g.dev = d /\ g.st = "drag" THEN g.to ELSE view[e][d].start,
         size |-> IF g.dev = d /\ g.st = "resize" THEN g.to ELSE view[e][d].size])

-----------------------------------------------------------------------------
(* The server and the network *)

\* History.  A change that is applied makes every decision not yet applied an
\* unsure one; w itself was sure if nothing changed between the view it was
\* decided on and now.
Apply(w, row) ==
  /\ rack' = [rack EXCEPT ![w.dev] = row]
  /\ checked' = IF w.sure THEN checked \cup {w.dev} ELSE checked \ {w.dev}
  /\ lag' = IF w.orphan THEN lag ELSE lag \cup {<<w.ed, w.id>>}
  /\ gesture' = [e \in Editor |-> [gesture[e] EXCEPT !.fresh = FALSE]]

Unsure(ws) == {[w EXCEPT !.sure = FALSE] : w \in ws}

\* The row that a request leaves: a PUT changes only the field it sends.
Stored(w) ==
  CASE w.op = "create" -> [st |-> "active", start |-> w.unit, size |-> w.size]
    [] w.op = "drag" -> [rack[w.dev] EXCEPT !.start = w.unit]
    [] OTHER -> [rack[w.dev] EXCEPT !.size = w.size]

\* POST and PUT /devices: stored without a look at the rack.
Serve(w) ==
  /\ w.st = "sent" /\ ~(w.op = "create" /\ w.dev \in Pdu)
  /\ Apply(w, Stored(w))
  /\ writes' = Unsure(writes \ {w}) \cup (IF w.orphan THEN {} ELSE {[w EXCEPT !.st = "served"]})
  /\ dialog' = [e \in Editor |->
       [dialog[e] EXCEPT !.sure = FALSE,
                         !.made = @ + (IF e = w.ed /\ w.no # 0 /\ w.no = dialog[e].no
                                       THEN 1 ELSE 0)]]
  /\ UNCHANGED <<kind, view, fetch, detail, work, mishaps>>

\* Mutant: the elevation is not invalidated after a resize.
AnsweredDragOnly(w) == IF w.op = "resize" THEN UNCHANGED fetch ELSE Refetch(w.ed)

\* The answered write: the elevation is invalidated.
Answered(w) == Refetch(w.ed)

DropAnswered(w) ==
  /\ w.st = "served" /\ w.op # "create"
  /\ writes' = writes \ {w}
  /\ Answered(w)
  /\ UNCHANGED <<kind, view, gesture, dialog, detail, work, mishaps, server>>

\* A refused drop (401, 500) fetches the elevation again, so that the tile
\* jumps back.
DropRefused(w) ==
  /\ w.st = "sent" /\ ~w.orphan /\ w.op # "create" /\ Mishap
  /\ writes' = writes \ {w}
  /\ Refetch(w.ed)
  /\ UNCHANGED <<kind, view, gesture, dialog, detail, work, server>>

\* onClose closes the dialog that is open now, also a later one.
CreateAnswered(w) ==
  /\ w.st = "served" /\ w.op = "create"
  /\ writes' = writes \ {w}
  /\ Refetch(w.ed)
  /\ dialog' = [dialog EXCEPT ![w.ed] = Closed]
  /\ UNCHANGED <<kind, view, gesture, detail, work, mishaps, server>>

\* 422 for a PDU (a rack, but no unit), 401 or 500 for the others: the dialog
\* that sent it stays open with the error.
CreateRefused(w) ==
  /\ w.st = "sent" /\ ~w.orphan /\ w.op = "create"
  /\ IF w.dev \in Pdu THEN UNCHANGED mishaps ELSE Mishap
  /\ writes' = writes \ {w}
  /\ dialog' = [dialog EXCEPT ![w.ed].pend = IF @ = w.id THEN 0 ELSE @]
  /\ UNCHANGED <<kind, view, fetch, gesture, detail, work, server>>

\* The connection breaks: an error for the browser, but the server may have
\* applied the change, or may still do so, or never.
Lose(w) ==
  /\ ~w.orphan /\ Mishap
  /\ writes' = (writes \ {w}) \cup (IF w.st = "sent" THEN {[w EXCEPT !.orphan = TRUE]} ELSE {})
  /\ IF w.op = "create"
     THEN /\ dialog' = [dialog EXCEPT ![w.ed].pend = IF @ = w.id THEN 0 ELSE @,
                                      ![w.ed].made = IF w.no = dialog[w.ed].no THEN 0 ELSE @,
                                      ![w.ed].no = IF w.no = @ THEN NewNo ELSE @]
          /\ UNCHANGED fetch
     ELSE Refetch(w.ed) /\ UNCHANGED dialog
  /\ lag' = lag \ {<<w.ed, w.id>>}
  /\ UNCHANGED <<kind, view, gesture, detail, work, rack, checked>>

\* A deletion or a sync takes a device out of the rack, or puts it back.
Elsewhere(d) ==
  /\ rack[d].st # "none" /\ Mishap
  /\ rack' = [rack EXCEPT ![d].st = IF @ = "active" THEN "inactive" ELSE "active"]
  /\ checked' = checked \ {d}
  /\ gesture' = [e \in Editor |-> [gesture[e] EXCEPT !.fresh = FALSE]]
  /\ dialog' = [e \in Editor |-> [dialog[e] EXCEPT !.sure = FALSE]]
  /\ writes' = Unsure(writes)
  /\ UNCHANGED <<kind, view, fetch, detail, work, lag>>

-----------------------------------------------------------------------------
(* The elevation query *)

FetchServed(e) ==
  /\ fetch[e].st = "sent"
  /\ fetch' = [fetch EXCEPT ![e].st = "served", ![e].snap = Shown(rack), ![e].covers = lag]
  /\ UNCHANGED <<kind, view, gesture, dialog, detail, writes, work, mishaps, server>>

\* A dialog that was asked for is mounted with the data.
FetchLands(e) ==
  /\ fetch[e].st = "served"
  /\ fetch' = [fetch EXCEPT ![e] = Idle]
  /\ view' = [view EXCEPT ![e] = fetch[e].snap]
  /\ lag' = lag \ {l \in fetch[e].covers : l[1] = e}
  /\ dialog' = IF dialog[e].st # "asked" THEN dialog
               ELSE [dialog EXCEPT ![e] = Mounted(@, fetch[e].snap)]
  /\ gesture' = [gesture EXCEPT ![e].fresh = @ /\ view' = view]
  /\ UNCHANGED <<kind, detail, writes, work, mishaps, rack, checked>>

\* The error page of the elevation unmounts its dialog, with what was typed
\* into it.
FetchFails(e) ==
  /\ fetch[e].st = "sent" /\ Mishap
  /\ fetch' = [fetch EXCEPT ![e] = [Idle EXCEPT !.st = "failed", !.err = TRUE]]
  /\ dialog' = IF kind[e] # "elevation" \/ dialog[e].st # "open" THEN dialog
               ELSE [dialog EXCEPT ![e] = [Closed EXCEPT !.st = "asked", !.at = dialog[e].at]]
  /\ UNCHANGED <<kind, view, gesture, detail, writes, work, server>>

\* The window gets the focus back and the data are stale.
Refocus(e) ==
  /\ (fetch[e].st = "idle" /\ ~UpToDate(e)) \/ fetch[e].st = "failed"
  /\ Refetch(e)
  /\ UNCHANGED <<kind, view, gesture, dialog, detail, writes, work, mishaps, server>>

-----------------------------------------------------------------------------
Init ==
  /\ \E s \in Scenarios : kind = s.kind /\ rack = s.rack
  /\ view = [e \in Editor |-> NoData]
  /\ fetch = [e \in Editor |-> [Idle EXCEPT !.st = "sent"]]
  /\ gesture = [e \in Editor |-> NoGesture]
  /\ dialog = [e \in Editor |-> Closed]
  /\ detail = {} /\ writes = {} /\ work = 0 /\ mishaps = 0
  /\ checked = Device /\ lag = {}

Elevation(e) == ElevationGestures(e) \/ ElevationSlots(e)
Panel(e) == PanelGestures(e) \/ PanelSlots(e) \/ PanelAdd(e) \/ PanelOpenDevice(e) \/ PanelBack(e)
Diagram(e) == DiagramGestures(e) \/ DiagramSlots(e) \/ DiagramAdd(e)
Column(e) == ColumnGestures(e) \/ ColumnSlots(e) \/ ColumnAdd(e)
Query(e) == FetchServed(e) \/ FetchLands(e) \/ FetchFails(e) \/ Refocus(e)

Next ==
  \/ \E e \in Editor : Elevation(e) \/ Panel(e) \/ Diagram(e) \/ Column(e) \/ Dialog(e) \/ Query(e)
  \/ \E w \in writes : \/ Serve(w) \/ Lose(w) \/ DropAnswered(w)
                        \/ DropRefused(w) \/ CreateAnswered(w) \/ CreateRefused(w)
  \/ \E d \in Device : Elsewhere(d)

Spec == Init /\ [][Next]_vars

-----------------------------------------------------------------------------
(* Properties *)

Active(d) == rack[d].st = "active"

\* Two devices of the rack overlap only if one of them was placed by a change
\* that nobody could check: decided on a view that was not up to date or was
\* overtaken, typed by hand, proposed for a full rack, or made elsewhere.
\* (hasConflict and nextFreeSlot; PDUs take no units.)
NoOverlap ==
  \A d, o \in checked \ Pdu :
     d # o /\ Active(d) /\ Active(o) => Units(rack[d]) \cap Units(rack[o]) = {}

\* A checked change leaves the device within the rack.  (The clamp of
\* handleMouseMove.)
InRack == \A d \in checked : Active(d) => End(rack[d]) <= TotalU

\* What the editors decide on a view that was up to date keeps the rack sound:
\* no overlap, nothing outside.  (hasConflict, nextFreeSlot and the clamp of
\* handleMouseMove; behind them the server stores what it is sent.)
Fits == NoOverlap /\ InRack

\* An editor whose elevation is not being fetched shows all of its own writes
\* that were answered.  (invalidateQueries after the answer, which cancels a
\* fetch that is under way.)
OwnWritesShown ==
  \A l \in lag : (\A w \in writes : w.id # l[2]) => fetch[l[1]].st # "idle"

\* One dialog makes one device; a lost answer starts the count again, for then
\* the user may try again.  (The disabled submit button.)
OneDevicePerDialog == \A e \in Editor : dialog[e].made <= 1

\* What the user sees explains itself, as long as neither the rack nor the view
\* changed since the grab: a grabbed tile is drawn over another one exactly if
\* it is red, and then the other one is marked.  (isConflict, isConflictTarget.)
ConflictIsDrawn ==
  \A e \in Editor : LET g == gesture[e] IN
    g.st # "none" /\ g.fresh =>
      /\ Look(e, g.dev) = "conflict" <=> \E o \in Tiles(e) : Look(e, o) = "target"
      /\ \A o \in Tiles(e) \ {g.dev} :
           Look(e, o) = "target" <=> DrawnUnits(e, g.dev) \cap DrawnUnits(e, o) # {}

\* If neither the rack nor the view changed since the grab, then exactly what
\* is painted red is not written: the tile and handleMouseUp agree.
RedIsRefused ==
  [][\A e \in Editor :
       LET g == gesture[e] IN
       g.st # "none" /\ gesture'[e].st = "none" /\ g.fresh =>
         (writes' # writes <=> g.to # g.from /\ Look(e, g.dev) # "conflict")]_vars

=============================================================================
