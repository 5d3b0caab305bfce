-------------------------- MODULE EntityPagesProofs --------------------------
(***************************************************************************)
(* Proofs about EntityPages, for any of its pages, any number of rows, any *)
(* page size and any number of changes: what a list shows or may show has  *)
(* the browser's own answered changes, a save changes what the user asked  *)
(* for and the blanks that its form fills, and no save is sent while one   *)
(* of its kind, or of its shared dialog, is not answered.                  *)
(*                                                                         *)
(* The argument: the row that an open dialog holds is the one that was     *)
(* clicked, and none in a create dialog; fields that were not typed are as *)
(* they were loaded, or a blank that the form has filled (Edits); so it is *)
(* with a change when it is sent (Sent), until it is answered.  Saving is  *)
(* disabled while a change of that kind is under way, and answers only     *)
(* remove changes (OneSaveAtATime).  The changes have different numbers    *)
(* (Ids).  A list page that lacks an applied change waits for its answer   *)
(* or is fetched before it counts as fresh (Lagging).  Births only says    *)
(* that the bound on rows leaves room for the creations under way.         *)
(***************************************************************************)
EXTENDS EntityPages, FiniteSetTheorems, WellFoundedInduction, TLAPS

-----------------------------------------------------------------------------
(* The inductive invariant *)

Lists == [rows : UNION {[S -> Content] : S \in SUBSET Row}, total : Nat]

Queries ==
  {q \in [st : {"idle", "sent", "served", "failed"}, has : BOOLEAN, stale : BOOLEAN,
          data : Lists, snap : Lists, covers : SUBSET (PageNo \X Id)] :
     ~q.has => q.data = NoList}

Dialogs == [open : {"none"} \cup page.opens, row : Row \cup {None}, form : Content,
            asked : Row \cup {None}, typed : SUBSET Field, base : Content]

Writes == [id : Id, op : Op, st : {"sent", "done", "text", "list"}, row : Row \cup {None},
           body : Content, asked : Row \cup {None}, typed : SUBSET Field, base : Content]

Typed ==
  /\ page \in Configs
  /\ rows \in [Row -> Content \cup {Absent, Gone}]
  /\ query \in [PageNo -> Queries] /\ no \in PageNo
  /\ dialog \in Dialogs /\ draft \in Content
  /\ error \in {"none", "text", "list"} /\ asking \in Row \cup {None}
  /\ writes \subseteq Writes
  /\ crashed \in BOOLEAN /\ work \in 0..MaxWork /\ mishaps \in 0..MaxMishap
  /\ lag \subseteq PageNo \X Id

\* Changes under way have different numbers, given out already.
Ids ==
  /\ \A w \in writes : w.id <= work
  /\ \A v, w \in writes : v.id = w.id => v = w
  /\ \A l \in lag : l[2] <= work

\* A field that was not typed is as it was loaded, or a blank that was filled.
Untyped(typed, shown, base) ==
  \A f \in Field \ typed :
    shown[f] = base[f] \/ (page.fills /\ base[f] = "blank" /\ shown[f] = "default")

\* The dialog edits the row that was clicked, or none.
Edits ==
  /\ dialog.open \in {"none", "create", "edit", "reset"}
  /\ dialog.open \in {"edit", "reset"} => dialog.row # None /\ dialog.asked = dialog.row
  /\ dialog.open = "create" => dialog.row = None
  /\ dialog.open = "none" /\ page.modals # "shared" => dialog.row = None
  /\ dialog.open = "edit" => Untyped(dialog.typed, dialog.form, dialog.base)
  /\ asking # None => dialog.open = "none"

\* So does a change that is sent.
Sent ==
  \A w \in writes : w.st = "sent" =>
    /\ w.op # "create" => w.row # None /\ w.asked = w.row
    /\ w.op = "update" => Untyped(w.typed, w.body, w.base)

\* There is a row to be born for every creation that is sent.
Creations == {w \in writes : w.op = "create" /\ w.st = "sent"}
Births == IsFiniteSet(writes) /\ Cardinality(Creations) <= Cardinality(Unborn)

\* An applied change that a cached list page lacks: its answer is still under
\* way, or the page will be fetched before it counts as fresh.
Known(l) ==
  LET q == query[l[1]] IN
    \/ q.st \in {"sent", "failed"}
    \/ q.st = "served" /\ l \in q.covers
    \/ q.st = "idle" /\ l[1] # no /\ (q.stale \/ ~q.has)
    \/ crashed /\ l[1] = no

Lagging ==
  \A l \in lag :
    /\ \A w \in writes : w.id = l[2] => w.st = "done" /\ w.op \in page.fresh
    /\ (\E w \in writes : w.id = l[2]) \/ Known(l)

-----------------------------------------------------------------------------
(* Steps and helpers *)

Opens(r) == OpenEdit(r) \/ OpenReset(r)

LEMMA Steps ==
  ASSUME Next
  PROVE  \/ \E n \in PageNo : GoPage(n) \/ FetchServed(n) \/ FetchLands(n) \/ FetchFails(n)
         \/ Refocus \/ FailedNextDoor \/ OpenCreate \/ Close \/ SaveRefused \/ Save
         \/ CancelDelete \/ ConfirmDelete
         \/ \E f \in Field, v \in Value : Type(f, v)
         \/ \E r \in Row : Opens(r) \/ AskDelete(r) \/ Acknowledge(r) \/ Elsewhere(r)
         \/ \E w \in writes : Serve(w) \/ Fail(w) \/ Done(w) \/ Failed(w)
  BY DEF Next, User, Network, Opens

\* Nothing changes the page that is open.
LEMMA PageStays ==
  ASSUME [Next]_vars
  PROVE  /\ page' = page
         /\ PageNo' = PageNo /\ Queries' = Queries /\ Dialogs' = Dialogs
  <1>1. CASE UNCHANGED vars
    <2>1. page' = page
      BY <1>1 DEF vars
    <2> QED
      BY <2>1 DEF PageNo, Queries, Dialogs
  <1>2. CASE Next
    <2>1. page' = page
      <3>1. ASSUME NEW n \in PageNo, GoPage(n) \/ FetchServed(n) \/ FetchLands(n) \/ FetchFails(n)
            PROVE  page' = page
        BY <3>1 DEF GoPage, FetchServed, FetchLands, FetchFails
      <3>2. CASE Refocus \/ FailedNextDoor \/ OpenCreate \/ Close \/ SaveRefused \/ Save
        BY <3>2 DEF Refocus, FailedNextDoor, OpenCreate, Opened, Close, SaveRefused, Save
      <3>3. CASE CancelDelete \/ ConfirmDelete
        BY <3>3 DEF CancelDelete, ConfirmDelete
      <3>4. ASSUME NEW f \in Field, NEW v \in Value, Type(f, v) PROVE page' = page
        BY <3>4 DEF Type
      <3>5. ASSUME NEW r \in Row, Opens(r) \/ AskDelete(r) \/ Acknowledge(r) \/ Elsewhere(r)
            PROVE  page' = page
        BY <3>5 DEF Opens, OpenEdit, Opened, OpenReset, AskDelete, Acknowledge, Elsewhere
      <3>6. ASSUME NEW w \in writes, Serve(w) \/ Fail(w) \/ Done(w) \/ Failed(w)
            PROVE  page' = page
        BY <3>6 DEF Serve, Fail, Done, Failed
      <3> QED
        BY <1>2, <3>1, <3>2, <3>3, <3>4, <3>5, <3>6, Steps
    <2> QED
      BY <2>1 DEF PageNo, Queries, Dialogs
  <1> QED
    BY <1>1, <1>2

LEMMA LeastNat ==
  ASSUME NEW S \in SUBSET Nat, S # {}
  PROVE  Min(S) \in S
  <1> DEFINE R == OpToRel(<, Nat)
  <1>1. IsWellFoundedOn(R, Nat)
    BY NatLessThanWellFounded
  <1>2. \A m, n \in Nat : <<m, n>> \in R <=> m < n
    BY DEF OpToRel
  <1> HIDE DEF R
  <1>3. PICK m \in S : \A n \in S : <<n, m>> \notin R
    BY <1>1, WFMin
  <1>4. \A n \in S : n \in Nat /\ m \in Nat /\ ~(n < m)
    BY <1>2, <1>3
  <1>5. \A n \in S : m <= n
    BY <1>4
  <1> QED
    BY <1>5 DEF Min

\* The list page 1 exists, whatever the page.
LEMMA FirstPage ==
  ASSUME NEW p \in Pages, page \in ConfigOf(p)
  PROVE  page \in Configs /\ 1 \in PageNo
  <1>1. PICK named \in BOOLEAN, held \in {{}, {Min(First)}} : page = Config(p, named, held)
    BY DEF ConfigOf
  <1>2. page \in Configs
    BY <1>1 DEF Configs
  <1>3. Cardinality(Row) \in Nat /\ Cardinality(Row) # 0
    BY PagesAssumption, FS_CardinalityType, FS_EmptySet
  <1>4. page.size = (IF View(p).paged THEN PageSize[p] ELSE Cardinality(Row))
    BY <1>1 DEF Config
  <1>5. PageSize[p] \in Nat \ {0}
    BY PagesAssumption
  <1>6. page.size \in Nat \ {0}
    BY <1>3, <1>4, <1>5
  <1>7. (Cardinality(Row) + page.size - 1) \div page.size \in Nat \ {0}
    <2>1. \A n, s \in Nat \ {0} : (n + s - 1) \div s \in Nat \ {0}
      OBVIOUS
    <2> QED
      BY <1>3, <1>6, <2>1
  <1> QED
    BY <1>2, <1>7 DEF PageNo

LEMMA Contents ==
  /\ Empty \in Content /\ Stocked \in Content
  /\ Absent \notin Content /\ Gone \notin Content /\ Absent # Gone
  /\ \A c \in Content : /\ \A f \in Field, v \in Value : [c EXCEPT ![f] = v] \in Content
                        /\ FormOf(c) \in Content
                        /\ [c EXCEPT !.x = "mine"] \in Content
                        /\ [c EXCEPT !.y = "theirs"] \in Content
  <1>1. Empty \in Content /\ Stocked \in Content
    <2>1. Stocked["x"] \in Value /\ Stocked["y"] \in Value /\ DOMAIN Stocked = Field
      BY DEF Stocked, Value, Field
    <2>2. Stocked = [f \in Field |-> Stocked[f]]
      BY DEF Stocked, Field
    <2>3. \A f \in Field : Stocked[f] \in Value
      BY <2>1 DEF Field
    <2> QED
      BY <2>2, <2>3 DEF Empty, Filled, Content, Value
  <1>2. Absent["x"] = "absent" /\ Gone["x"] = "gone"
    BY DEF Absent, Gone, Filled, Field
  <1>3. \A c \in Content : c["x"] \in Value
    BY DEF Content, Field
  <1>4. "absent" \notin Value /\ "gone" \notin Value /\ "absent" # "gone"
    BY DEF Value
  <1>5. Absent \notin Content /\ Gone \notin Content /\ Absent # Gone
    BY <1>2, <1>3, <1>4
  <1>6. "mine" \in Value /\ "theirs" \in Value /\ "default" \in Value
    BY DEF Value
  <1>7. ASSUME NEW c \in Content
        PROVE  /\ \A f \in Field, v \in Value : [c EXCEPT ![f] = v] \in Content
               /\ FormOf(c) \in Content
               /\ [c EXCEPT !.x = "mine"] \in Content
               /\ [c EXCEPT !.y = "theirs"] \in Content
    <2>1. \A f \in Field, v \in Value : [c EXCEPT ![f] = v] \in Content
      BY DEF Content, Field
    <2>2. "x" \in Field /\ "y" \in Field
      BY DEF Field
    <2> QED
      BY <1>6, <2>1, <2>2 DEF FormOf
  <1> QED
    BY <1>1, <1>5, <1>7

LEMMA ThereRows ==
  ASSUME rows \in [Row -> Content \cup {Absent, Gone}]
  PROVE  /\ There \subseteq Row /\ \A r \in There : rows[r] \in Content
         /\ IsFiniteSet(There) /\ Cardinality(There) \in Nat
  <1>1. There \subseteq Row /\ \A r \in There : rows[r] \in Content
    BY DEF There
  <1> QED
    BY <1>1, PagesAssumption, FS_Subset, FS_CardinalityType

LEMMA UnbornRows ==
  /\ Unborn \subseteq Row /\ IsFiniteSet(Unborn) /\ Cardinality(Unborn) \in Nat
  /\ Unborn # {} => Min(Unborn) \in Unborn
  <1>1. Unborn \subseteq Row
    BY DEF Unborn
  <1>2. IsFiniteSet(Unborn) /\ Cardinality(Unborn) \in Nat
    BY <1>1, PagesAssumption, FS_Subset, FS_CardinalityType
  <1>3. Unborn \in SUBSET Nat
    BY <1>1, PagesAssumption
  <1> QED
    BY <1>1, <1>2, <1>3, LeastNat

LEMMA NoListType == NoList \in Lists
  <1>1. [r \in {} |-> Empty] \in [{} -> Content]
    OBVIOUS
  <1>2. {} \in SUBSET Row
    OBVIOUS
  <1>3. [r \in {} |-> Empty] \in UNION {[S -> Content] : S \in SUBSET Row}
    BY <1>1, <1>2
  <1> QED
    BY <1>3 DEF NoList, Lists

LEMMA ServedType ==
  ASSUME Typed, NEW n \in PageNo
  PROVE  Served(n) \in Lists
  <1>1. rows \in [Row -> Content \cup {Absent, Gone}]
    BY DEF Typed
  <1>2. OnPage(n) \subseteq There
    BY DEF OnPage
  <1>3. OnPage(n) \in SUBSET Row /\ \A r \in OnPage(n) : rows[r] \in Content
    BY <1>1, <1>2, ThereRows
  <1>4. [r \in OnPage(n) |-> rows[r]] \in [OnPage(n) -> Content]
    BY <1>3
  <1>5. [r \in OnPage(n) |-> rows[r]] \in UNION {[S -> Content] : S \in SUBSET Row}
    BY <1>3, <1>4
  <1> QED
    BY <1>1, <1>5, ThereRows DEF Served, Lists

LEMMA QueryType ==
  ASSUME Typed, NEW n \in PageNo
  PROVE  /\ query[n] \in Queries
         /\ query[n].st \in {"idle", "sent", "served", "failed"}
         /\ query[n].has \in BOOLEAN /\ query[n].stale \in BOOLEAN
         /\ query[n].data \in Lists /\ query[n].snap \in Lists
         /\ query[n].covers \subseteq PageNo \X Id
         /\ ~query[n].has => query[n].data = NoList
  BY DEF Typed, Queries

LEMMA FetchingType ==
  ASSUME NEW q \in Queries
  PROVE  Fetching(q) \in Queries
  BY NoListType DEF Fetching, Queries

LEMMA ListedRows ==
  ASSUME Typed, NEW r \in Listed
  PROVE  r \in Row /\ query[no].data.rows[r] \in Content
  <1>1. no \in PageNo
    BY DEF Typed
  <1>2. query[no].data \in Lists
    BY <1>1, QueryType
  <1>3. r \in DOMAIN query[no].data.rows
    BY DEF Listed
  <1>4. query[no].data.rows \in UNION {[S -> Content] : S \in SUBSET Row}
    BY <1>2 DEF Lists
  <1>5. PICK S \in SUBSET Row : query[no].data.rows \in [S -> Content]
    BY <1>4
  <1> QED
    BY <1>3, <1>5

LEMMA NoDialogType ==
  /\ NoDialog \in Dialogs /\ NoDialog.open = "none" /\ NoDialog.row = None
  /\ NoDialog.form = Empty /\ NoDialog.base = Empty /\ NoDialog.typed = {}
  BY Contents DEF NoDialog, Dialogs

LEMMA RenderedCases ==
  ASSUME NEW d, NEW dr, NEW ask, NEW e, Rendered(d, dr, ask, e)
  PROVE  /\ error' = e /\ (crashed => crashed') /\ (crashed \in BOOLEAN => crashed' \in BOOLEAN)
         /\ \/ dialog' = d /\ draft' = dr /\ asking' = ask
            \/ dialog' = NoDialog /\ draft' = Empty /\ asking' = None
  <1>1. PICK b \in BOOLEAN : b = (e = "list" /\ OnScreen(d))
    OBVIOUS
  <1>2. /\ crashed' = (crashed \/ b) /\ error' = e
        /\ IF b THEN dialog' = NoDialog /\ draft' = Empty /\ asking' = None
           ELSE dialog' = d /\ draft' = dr /\ asking' = ask
    BY <1>1 DEF Rendered
  <1> QED
    BY <1>2

LEMMA ClosedType ==
  ASSUME NEW d \in Dialogs
  PROVE  Closed(d) \in Dialogs
  BY NoDialogType DEF Closed, Dialogs, NoDialog

LEMMA NotedType ==
  ASSUME NEW e \in {"none", "text", "list"}, NEW d
  PROVE  Noted(e, d) \in {"none", "text", "list"}
  BY DEF Noted

LEMMA LeftType ==
  ASSUME Typed, NEW d \in Dialogs
  PROVE  Left(d) \in Content
  BY DEF Left, Typed, Dialogs

\* What a request turns into.
LEMMA Turned ==
  ASSUME Typed, NEW w \in writes, NEW st \in {"done", "text", "list"}, Turn(w, st)
  PROVE  /\ writes' \subseteq Writes
         /\ \E t \in Writes : /\ t.id = w.id /\ t.op = w.op /\ t.st = st
                              /\ writes' = (writes \ {w}) \cup {t}
  <1> DEFINE t == [id |-> w.id, op |-> w.op, st |-> st, row |-> None, body |-> Empty,
                   asked |-> None, typed |-> {}, base |-> Empty]
  <1>1. w \in Writes
    BY DEF Typed
  <1>2. t \in Writes
    BY <1>1, Contents DEF Writes
  <1>3. writes' = (writes \ {w}) \cup {t}
    BY DEF Turn
  <1> QED
    BY <1>2, <1>3 DEF Typed

-----------------------------------------------------------------------------
(* Types are kept *)

LEMMA TypedInit ==
  ASSUME Init
  PROVE  Typed
  <1>1. PICK p \in Pages : page \in ConfigOf(p)
    BY DEF Init
  <1>2. page \in Configs /\ 1 \in PageNo
    BY <1>1, FirstPage
  <1>3. Unasked \in Queries
    BY NoListType DEF Unasked, Queries
  <1>4. Fetching(Unasked) \in Queries
    BY <1>3, FetchingType
  <1>5. query \in [PageNo -> Queries] /\ no \in PageNo
    BY <1>2, <1>3, <1>4 DEF Init
  <1>6. rows \in [Row -> Content \cup {Absent, Gone}]
    BY Contents DEF Init
  <1>7. dialog \in Dialogs /\ draft \in Content /\ error \in {"none", "text", "list"}
    BY NoDialogType, Contents DEF Init
  <1>8. writes \subseteq Writes /\ lag \subseteq PageNo \X Id
    BY DEF Init
  <1>9. asking \in Row \cup {None} /\ crashed \in BOOLEAN
    BY DEF Init
  <1>10. work \in 0..MaxWork /\ mishaps \in 0..MaxMishap
    BY PagesAssumption DEF Init
  <1> QED
    BY <1>2, <1>5, <1>6, <1>7, <1>8, <1>9, <1>10 DEF Typed

LEMMA MishapType ==
  ASSUME Typed, Mishap
  PROVE  mishaps' \in 0..MaxMishap
  BY PagesAssumption DEF Typed, Mishap

LEMMA WorkType ==
  ASSUME Typed, Work
  PROVE  work' \in 0..MaxWork /\ work' \in Id /\ work' = work + 1 /\ work \in Nat
  BY PagesAssumption DEF Typed, Work, Id

LEMMA TypedFetches ==
  ASSUME Typed, NEW n \in PageNo,
         GoPage(n) \/ FetchServed(n) \/ FetchLands(n) \/ FetchFails(n)
  PROVE  Typed'
  <1>0. page' = page /\ PageNo' = PageNo /\ Queries' = Queries /\ Dialogs' = Dialogs
    BY DEF GoPage, FetchServed, FetchLands, FetchFails, PageNo, Queries, Dialogs
  <1>q. query[n] \in Queries /\ query \in [PageNo -> Queries]
    BY QueryType DEF Typed
  <1>1. CASE GoPage(n)
    <2>1. Fetching(query[n]) \in Queries
      BY <1>q, FetchingType
    <2>2. query' \in [PageNo -> Queries] /\ no' \in PageNo
      BY <1>q, <1>1, <2>1 DEF GoPage
    <2> QED
      BY <1>0, <1>1, <2>2 DEF GoPage, form, Typed
  <1>2. CASE FetchServed(n)
    <2>1. Served(n) \in Lists /\ lag \subseteq PageNo \X Id
      BY ServedType DEF Typed
    <2> DEFINE q == [query[n] EXCEPT !.st = "served", !.snap = Served(n), !.covers = lag]
    <2>2. q \in Queries
      BY <1>q, <2>1 DEF Queries
    <2>3. query' = [query EXCEPT ![n] = q]
      BY <1>2, <1>q DEF FetchServed
    <2>4. query' \in [PageNo -> Queries]
      BY <1>q, <2>2, <2>3
    <2> QED
      BY <1>0, <1>2, <2>4 DEF FetchServed, form, Typed
  <1>3. CASE FetchLands(n)
    <2>1. query[n].snap \in Lists
      BY QueryType
    <2>2. [Unasked EXCEPT !.has = TRUE, !.data = query[n].snap] \in Queries
      BY <2>1, NoListType DEF Unasked, Queries
    <2>3. query' \in [PageNo -> Queries]
      BY <1>q, <1>3, <2>2 DEF FetchLands
    <2>4. lag' \subseteq PageNo \X Id
      BY <1>3 DEF FetchLands, Typed
    <2> QED
      BY <1>0, <1>3, <2>3, <2>4 DEF FetchLands, form, Typed
  <1>4. CASE FetchFails(n)
    <2> DEFINE q == [query[n] EXCEPT !.st = "failed"]
    <2>1. q \in Queries
      BY <1>q DEF Queries
    <2>2. query' = [query EXCEPT ![n] = q]
      BY <1>4, <1>q DEF FetchFails
    <2>3. query' \in [PageNo -> Queries]
      BY <1>q, <2>1, <2>2
    <2>4. mishaps' \in 0..MaxMishap
      BY <1>4, MishapType DEF FetchFails, Typed
    <2> QED
      BY <1>0, <1>4, <2>3, <2>4 DEF FetchFails, form, Typed
  <1> QED
    BY <1>1, <1>2, <1>3, <1>4

LEMMA TypedRefocus ==
  ASSUME Typed, Refocus
  PROVE  Typed'
  <1>0. page' = page /\ PageNo' = PageNo /\ Queries' = Queries /\ Dialogs' = Dialogs
    BY DEF Refocus, PageNo, Queries, Dialogs
  <1>1. no \in PageNo /\ query \in [PageNo -> Queries]
    BY DEF Typed
  <1>2. Fetching(query[no]) \in Queries
    BY <1>1, FetchingType
  <1>3. query' \in [PageNo -> Queries]
    BY <1>1, <1>2 DEF Refocus
  <1> QED
    BY <1>0, <1>3 DEF Refocus, form, Typed

LEMMA TypedDialog ==
  ASSUME Typed, OpenCreate \/ Close \/ SaveRefused \/ CancelDelete
  PROVE  Typed'
  <1>0. page' = page /\ PageNo' = PageNo /\ Queries' = Queries /\ Dialogs' = Dialogs
    BY DEF OpenCreate, Opened, Close, SaveRefused, CancelDelete, PageNo, Queries, Dialogs
  <1>d. dialog \in Dialogs /\ error \in {"none", "text", "list"} /\ draft \in Content
    BY DEF Typed
  <1>1. CASE OpenCreate
    <2> DEFINE d == [NoDialog EXCEPT !.open = "create",
                                     !.row = IF page.modals = "apart" THEN dialog.row ELSE None,
                                     !.form = CreateForm]
               e == IF "create" \in page.clears THEN "none" ELSE error
    <2>1. CreateForm \in Content
      BY <1>d, Contents DEF CreateForm
    <2>2. (IF page.modals = "apart" THEN dialog.row ELSE None) \in Row \cup {None}
      BY <1>d DEF Dialogs
    <2>3. d \in Dialogs
      BY <1>1, <2>1, <2>2, NoDialogType DEF OpenCreate, Dialogs
    <2>4. Rendered(d, draft, asking, e)
      BY <1>1 DEF OpenCreate, Opened
    <2>5. /\ dialog' \in Dialogs /\ draft' \in Content /\ asking' \in Row \cup {None}
          /\ error' \in {"none", "text", "list"} /\ crashed' \in BOOLEAN
      BY <1>d, <2>3, <2>4, RenderedCases, NoDialogType, Contents DEF Typed
    <2> QED
      BY <1>0, <1>1, <2>5 DEF OpenCreate, Typed
  <1>2. CASE Close
    <2>1. dialog' \in Dialogs /\ draft' \in Content
      BY <1>2, <1>d, ClosedType, LeftType DEF Close
    <2>2. error' \in {"none", "text", "list"}
      BY <1>2, <1>d, NotedType DEF Close
    <2> QED
      BY <1>0, <1>2, <2>1, <2>2 DEF Close, Typed
  <1>3. CASE SaveRefused
    BY <1>0, <1>3 DEF SaveRefused, Typed
  <1>4. CASE CancelDelete
    BY <1>0, <1>4 DEF CancelDelete, form, Typed
  <1> QED
    BY <1>1, <1>2, <1>3, <1>4

LEMMA TypedType ==
  ASSUME Typed, NEW f \in Field, NEW v \in Value, Type(f, v)
  PROVE  Typed'
  <1>0. page' = page /\ PageNo' = PageNo /\ Queries' = Queries /\ Dialogs' = Dialogs
    BY DEF Type, PageNo, Queries, Dialogs
  <1>1. dialog \in Dialogs
    BY DEF Typed
  <1>2. dialog.form \in Content /\ dialog.typed \in SUBSET Field
    BY <1>1 DEF Dialogs
  <1>3. [dialog.form EXCEPT ![f] = v] \in Content
    BY <1>2, Contents
  <1>4. dialog' = [dialog EXCEPT !.form = [dialog.form EXCEPT ![f] = v],
                                 !.typed = dialog.typed \cup {f}]
    BY <1>1 DEF Type, Dialogs
  <1>5. dialog' \in Dialogs
    BY <1>1, <1>2, <1>3, <1>4 DEF Dialogs
  <1> QED
    BY <1>0, <1>5 DEF Type, Typed

\* What Save and Request send.
LEMMA NewWrite ==
  ASSUME Typed, Work, NEW op \in Op, NEW r \in Row \cup {None}, NEW b \in Content,
         NEW a \in Row \cup {None}, NEW t \in SUBSET Field, NEW c \in Content
  PROVE  [id |-> work', op |-> op, st |-> "sent", row |-> r, body |-> b,
          asked |-> a, typed |-> t, base |-> c] \in Writes
  BY WorkType DEF Writes

LEMMA RequestType ==
  ASSUME Typed, NEW op \in Op, NEW r \in Row, Request(op, r)
  PROVE  /\ writes' \subseteq Writes /\ work' \in 0..MaxWork
         /\ \E t \in Writes : /\ t.id = work' /\ t.op = op /\ t.st = "sent" /\ t.row = r /\ t.asked = r
                              /\ writes' = writes \cup {t}
  <1> DEFINE t == [id |-> work', op |-> op, st |-> "sent", row |-> r, body |-> Empty,
                   asked |-> r, typed |-> {}, base |-> Empty]
  <1>1. Work /\ writes' = writes \cup {t}
    BY DEF Request
  <1>2. t \in Writes
    BY <1>1, NewWrite, Contents
  <1> QED
    BY <1>1, <1>2, WorkType DEF Typed

LEMMA SaveType ==
  ASSUME Typed, Save
  PROVE  /\ writes' \subseteq Writes /\ work' \in 0..MaxWork
         /\ SaveOp \in {"create", "update", "reset"}
         /\ \E t \in Writes : /\ t.id = work' /\ t.op = SaveOp /\ t.st = "sent" /\ t.row = dialog.row
                              /\ t.body = dialog.form /\ t.asked = dialog.asked
                              /\ t.typed = dialog.typed /\ t.base = dialog.base
                              /\ writes' = writes \cup {t}
  <1> DEFINE t == [id |-> work', op |-> SaveOp, st |-> "sent", row |-> dialog.row,
                   body |-> dialog.form, asked |-> dialog.asked,
                   typed |-> dialog.typed, base |-> dialog.base]
  <1>1. Work /\ writes' = writes \cup {t}
    BY DEF Save
  <1>2. SaveOp \in {"create", "update", "reset"}
    BY DEF SaveOp
  <1>3. dialog \in Dialogs
    BY DEF Typed
  <1>4. /\ dialog.row \in Row \cup {None} /\ dialog.form \in Content
        /\ dialog.asked \in Row \cup {None} /\ dialog.typed \in SUBSET Field
        /\ dialog.base \in Content
    BY <1>3 DEF Dialogs
  <1>5. SaveOp \in Op
    BY <1>2 DEF Op
  <1>6. t \in Writes
    BY <1>1, <1>4, <1>5, NewWrite
  <1> QED
    BY <1>1, <1>2, <1>6, WorkType DEF Typed

LEMMA TypedSave ==
  ASSUME Typed, Save
  PROVE  Typed'
  <1>0. page' = page /\ PageNo' = PageNo /\ Queries' = Queries /\ Dialogs' = Dialogs
    BY DEF Save, PageNo, Queries, Dialogs
  <1>1. error' \in {"none", "text", "list"}
    BY DEF Save, Typed
  <1> QED
    BY <1>0, <1>1, SaveType DEF Save, Typed

LEMMA TypedConfirm ==
  ASSUME Typed, ConfirmDelete
  PROVE  Typed'
  <1>0. page' = page /\ PageNo' = PageNo /\ Queries' = Queries /\ Dialogs' = Dialogs
    BY DEF ConfirmDelete, PageNo, Queries, Dialogs
  <1>1. asking \in Row /\ "delete" \in Op /\ Request("delete", asking)
    BY DEF ConfirmDelete, Typed, Op
  <1>2. writes' \subseteq Writes /\ work' \in 0..MaxWork
    BY <1>1, RequestType
  <1> QED
    BY <1>0, <1>2 DEF ConfirmDelete, form, Typed

LEMMA TypedRow ==
  ASSUME Typed, NEW r \in Row, Opens(r) \/ AskDelete(r) \/ Acknowledge(r) \/ Elsewhere(r)
  PROVE  Typed'
  <1>0. page' = page /\ PageNo' = PageNo /\ Queries' = Queries /\ Dialogs' = Dialogs
    BY DEF Opens, OpenEdit, Opened, OpenReset, AskDelete, Acknowledge, Elsewhere, PageNo, Queries, Dialogs
  <1>1. CASE OpenEdit(r)
    <2> DEFINE c == query[no].data.rows[r]
               d == [NoDialog EXCEPT !.open = "edit", !.row = r, !.asked = r,
                                     !.form = FormOf(c), !.base = c]
               e == IF "update" \in page.clears THEN "none" ELSE error
    <2>1. c \in Content /\ FormOf(c) \in Content
      BY <1>1, ListedRows, Contents DEF OpenEdit
    <2>2. "edit" \in page.opens
      BY <1>1 DEF OpenEdit
    <2>3. d \in Dialogs
      BY <2>1, <2>2, NoDialogType DEF Dialogs
    <2>4. Rendered(d, draft, asking, e)
      BY <1>1 DEF OpenEdit, Opened
    <2>5. /\ dialog' \in Dialogs /\ draft' \in Content /\ asking' \in Row \cup {None}
          /\ error' \in {"none", "text", "list"} /\ crashed' \in BOOLEAN
      BY <2>3, <2>4, RenderedCases, NoDialogType, Contents DEF Typed
    <2> QED
      BY <1>0, <1>1, <2>5 DEF OpenEdit, Typed
  <1>2. CASE OpenReset(r)
    <2>1. dialog' \in Dialogs
      BY <1>2, NoDialogType DEF OpenReset, Dialogs
    <2> QED
      BY <1>0, <1>2, <2>1 DEF OpenReset, Typed
  <1>3. CASE AskDelete(r)
    BY <1>0, <1>3 DEF AskDelete, form, Typed
  <1>4. CASE Acknowledge(r)
    <2>1. "ack" \in Op /\ Request("ack", r)
      BY <1>4 DEF Acknowledge, Op
    <2>2. writes' \subseteq Writes /\ work' \in 0..MaxWork
      BY <2>1, RequestType
    <2> QED
      BY <1>0, <1>4, <2>2 DEF Acknowledge, form, Typed
  <1>5. CASE Elsewhere(r)
    <2>1. rows \in [Row -> Content \cup {Absent, Gone}] /\ r \in There
      BY <1>5 DEF Elsewhere, Typed
    <2>2. rows[r] \in Content
      BY <2>1, ThereRows
    <2>3. [rows[r] EXCEPT !.y = "theirs"] \in Content
      BY <2>2, Contents
    <2>4. rows' = [rows EXCEPT ![r] = [rows[r] EXCEPT !.y = "theirs"]] \/ rows' = [rows EXCEPT ![r] = Gone]
      BY <1>5, <2>1 DEF Elsewhere
    <2>5. rows' \in [Row -> Content \cup {Absent, Gone}]
      BY <2>1, <2>3, <2>4
    <2>6. mishaps' \in 0..MaxMishap
      BY <1>5, MishapType DEF Elsewhere
    <2> QED
      BY <1>0, <1>5, <2>5, <2>6 DEF Elsewhere, form, Typed
  <1> QED
    BY <1>1, <1>2, <1>3, <1>4, <1>5 DEF Opens

\* What an accepted change writes is a row.
LEMMA WrittenType ==
  ASSUME Typed, NEW w \in writes, Accepted(w)
  PROVE  Written(w) \in [Row -> Content \cup {Absent, Gone}]
  <1>1. w \in Writes /\ rows \in [Row -> Content \cup {Absent, Gone}]
    BY DEF Typed
  <1>2. w.op \in Op /\ w.body \in Content
    BY <1>1 DEF Writes
  <1>3. CASE w.op = "create"
    <2>1. Written(w) = [rows EXCEPT ![Min(Unborn)] = w.body]
      BY <1>3 DEF Written
    <2> QED
      BY <1>1, <1>2, <2>1
  <1>4. CASE w.op = "update"
    <2>1. Written(w) = [rows EXCEPT ![w.row] = w.body]
      BY <1>4 DEF Written
    <2> QED
      BY <1>1, <1>2, <2>1
  <1>5. CASE w.op = "delete"
    <2>1. Written(w) = [rows EXCEPT ![w.row] = Gone]
      BY <1>5 DEF Written
    <2> QED
      BY <1>1, <2>1
  <1>6. CASE w.op = "ack"
    <2>1. w.row \in There
      BY <1>6 DEF Accepted
    <2>2. rows[w.row] \in Content /\ w.row \in Row
      BY <1>1, <2>1, ThereRows
    <2>3. [rows[w.row] EXCEPT !.x = "mine"] \in Content
      BY <2>2, Contents
    <2>4. Written(w) = [rows EXCEPT ![w.row] = [rows[w.row] EXCEPT !.x = "mine"]]
      BY <1>1, <1>6, <2>2 DEF Written
    <2> QED
      BY <1>1, <2>3, <2>4
  <1>7. CASE w.op = "reset"
    BY <1>1, <1>7 DEF Written
  <1> QED
    BY <1>2, <1>3, <1>4, <1>5, <1>6, <1>7 DEF Op

\* The rows of a served request: accepted or refused.
LEMMA ServeCases ==
  ASSUME Typed, NEW w \in writes, Serve(w)
  PROVE  \/ /\ Accepted(w) /\ Turn(w, "done") /\ rows' = Written(w)
            /\ lag' = IF w.op \in page.fresh
                      THEN lag \cup ({n \in PageNo : query[n].has \/ query[n].st = "served"} \X {w.id})
                      ELSE lag
         \/ Turn(w, "text") /\ UNCHANGED <<rows, lag>>
  BY DEF Serve

LEMMA TypedServe ==
  ASSUME Typed, NEW w \in writes, Serve(w)
  PROVE  Typed'
  <1>0. page' = page /\ PageNo' = PageNo /\ Queries' = Queries /\ Dialogs' = Dialogs
    BY DEF Serve, PageNo, Queries, Dialogs
  <1>1. writes' \subseteq Writes
    BY ServeCases, Turned
  <1>2. rows' \in [Row -> Content \cup {Absent, Gone}]
    BY ServeCases, WrittenType DEF Typed
  <1>3. w.id \in Id
    BY DEF Typed, Writes
  <1>4. lag' \subseteq PageNo \X Id
    BY <1>3, ServeCases DEF Typed
  <1> QED
    BY <1>0, <1>1, <1>2, <1>4 DEF Serve, form, Typed

LEMMA TypedFail ==
  ASSUME Typed, NEW w \in writes, Fail(w)
  PROVE  Typed'
  <1>0. page' = page /\ PageNo' = PageNo /\ Queries' = Queries /\ Dialogs' = Dialogs
    BY DEF Fail, PageNo, Queries, Dialogs
  <1>1. writes' \subseteq Writes
    BY Turned DEF Fail
  <1>2. mishaps' \in 0..MaxMishap
    BY MishapType DEF Fail
  <1>3. lag' \subseteq PageNo \X Id
    BY DEF Fail, Typed
  <1> QED
    BY <1>0, <1>1, <1>2, <1>3 DEF Fail, form, Typed

LEMMA InvalidateType ==
  ASSUME Typed, Invalidate
  PROVE  query' \in [PageNo -> Queries]
  <1>1. ASSUME NEW n \in PageNo
        PROVE  /\ [query[n] EXCEPT !.stale = query[n].st # "idle" \/ query[n].has] \in Queries
               /\ Fetching([query[n] EXCEPT !.stale = TRUE]) \in Queries
    <2>1. query[n] \in Queries
      BY QueryType
    <2>2. PICK b \in BOOLEAN : b = (query[n].st # "idle" \/ query[n].has)
      OBVIOUS
    <2>3. [query[n] EXCEPT !.stale = b] \in Queries /\ [query[n] EXCEPT !.stale = TRUE] \in Queries
      BY <2>1 DEF Queries
    <2>4. Fetching([query[n] EXCEPT !.stale = TRUE]) \in Queries
      BY <2>3, FetchingType
    <2> QED
      BY <2>2, <2>3, <2>4
  <1>2. PICK R \in SUBSET PageNo : \A n \in PageNo : n \in R <=> Restarted(n)
    <2>1. \A n \in PageNo : n \in {m \in PageNo : Restarted(m)} <=> Restarted(n)
      OBVIOUS
    <2> QED
      BY <2>1
  <1> QED
    BY <1>1, <1>2 DEF Invalidate

LEMMA TypedDone ==
  ASSUME Typed, NEW w \in writes, Done(w)
  PROVE  Typed'
  <1>0. page' = page /\ PageNo' = PageNo /\ Queries' = Queries /\ Dialogs' = Dialogs
    BY DEF Done, PageNo, Queries, Dialogs
  <1>1. query' \in [PageNo -> Queries]
    BY InvalidateType DEF Done, Typed
  <1>2. dialog \in Dialogs /\ draft \in Content /\ error \in {"none", "text", "list"}
    BY DEF Typed
  <1>3. dialog' \in Dialogs
    BY <1>2, ClosedType DEF Done
  <1>4. draft' \in Content
    BY <1>2, LeftType, Contents DEF Done, SavedForm
  <1>5. error' \in {"none", "text", "list"}
    BY <1>2, NotedType DEF Done
  <1>6. writes' \subseteq Writes /\ lag' \subseteq PageNo \X Id /\ asking' \in Row \cup {None}
    BY DEF Done, Typed
  <1> QED
    BY <1>0, <1>1, <1>3, <1>4, <1>5, <1>6 DEF Done, Typed

LEMMA TypedFailed ==
  ASSUME Typed, NEW w \in writes, Failed(w)
  PROVE  Typed'
  <1>0. page' = page /\ PageNo' = PageNo /\ Queries' = Queries /\ Dialogs' = Dialogs
    BY DEF Failed, PageNo, Queries, Dialogs
  <1> DEFINE ask == IF w.op = "delete" /\ page.ends THEN None ELSE asking
             e == Noted(IF w.op \in page.shows THEN w.st ELSE error, dialog)
  <1>1. error \in {"none", "text", "list"} /\ w.st \in {"text", "list"}
    BY DEF Typed, Failed
  <1>2. e \in {"none", "text", "list"} /\ ask \in Row \cup {None}
    BY <1>1, NotedType DEF Typed
  <1>3. Rendered(dialog, draft, ask, e)
    BY DEF Failed
  <1>4. /\ dialog' \in Dialogs /\ draft' \in Content /\ asking' \in Row \cup {None}
        /\ error' \in {"none", "text", "list"} /\ crashed' \in BOOLEAN
    BY <1>2, <1>3, RenderedCases, NoDialogType, Contents DEF Typed
  <1>5. writes' \subseteq Writes
    BY DEF Failed, Typed
  <1> QED
    BY <1>0, <1>4, <1>5 DEF Failed, Typed

LEMMA TypedNextDoor ==
  ASSUME Typed, FailedNextDoor
  PROVE  Typed'
  <1>0. page' = page /\ PageNo' = PageNo /\ Queries' = Queries /\ Dialogs' = Dialogs
    BY DEF FailedNextDoor, PageNo, Queries, Dialogs
  <1>1. mishaps' \in 0..MaxMishap
    BY MishapType DEF FailedNextDoor
  <1> QED
    BY <1>0, <1>1 DEF FailedNextDoor, Typed

LEMMA TypedStep ==
  ASSUME Typed, [Next]_vars
  PROVE  Typed'
  <1>1. CASE UNCHANGED vars
    BY <1>1 DEF vars, Typed, PageNo, Queries, Dialogs
  <1>2. CASE Next
    BY <1>2, Steps, TypedFetches, TypedRefocus, TypedDialog, TypedType, TypedSave, TypedConfirm,
       TypedRow, TypedServe, TypedFail, TypedDone, TypedFailed, TypedNextDoor
  <1> QED
    BY <1>1, <1>2
-----------------------------------------------------------------------------
(* What a step does to the changes under way *)

Adds == \E t \in Writes : /\ t.id = work' /\ t.st = "sent" /\ work' = work + 1
                          /\ writes' = writes \cup {t}
Turns == \E w \in writes, t \in Writes :
           /\ t.id = w.id /\ t.op = w.op /\ t.st # "sent"
           /\ writes' = (writes \ {w}) \cup {t} /\ work' = work
Answers == \E w \in writes : writes' = writes \ {w} /\ work' = work

LEMMA WriteSteps ==
  ASSUME Typed, [Next]_vars
  PROVE  UNCHANGED <<writes, work>> \/ Adds \/ Turns \/ Answers
  <1>1. CASE UNCHANGED vars
    BY <1>1 DEF vars
  <1>2. ASSUME NEW n \in PageNo, GoPage(n) \/ FetchServed(n) \/ FetchLands(n) \/ FetchFails(n)
        PROVE  UNCHANGED <<writes, work>>
    BY <1>2 DEF GoPage, FetchServed, FetchLands, FetchFails
  <1>3. CASE Refocus \/ FailedNextDoor \/ OpenCreate \/ Close \/ SaveRefused \/ CancelDelete
    BY <1>3 DEF Refocus, FailedNextDoor, OpenCreate, Opened, Close, SaveRefused, CancelDelete
  <1>4. CASE Save
    <2>1. Work
      BY <1>4 DEF Save
    <2> QED
      BY <1>4, <2>1, SaveType, WorkType DEF Adds
  <1>5. ASSUME NEW op \in Op, NEW r \in Row, Request(op, r)
        PROVE  Adds
    <2>1. Work
      BY <1>5 DEF Request
    <2> QED
      BY <1>5, <2>1, RequestType, WorkType DEF Adds
  <1>6. CASE ConfirmDelete
    <2>1. asking \in Row /\ "delete" \in Op /\ Request("delete", asking)
      BY <1>6 DEF ConfirmDelete, Typed, Op
    <2> QED
      BY <2>1, <1>5
  <1>7. ASSUME NEW f \in Field, NEW v \in Value, Type(f, v) PROVE UNCHANGED <<writes, work>>
    BY <1>7 DEF Type
  <1>8. ASSUME NEW r \in Row, Opens(r) \/ AskDelete(r) \/ Elsewhere(r)
        PROVE  UNCHANGED <<writes, work>>
    BY <1>8 DEF Opens, OpenEdit, Opened, OpenReset, AskDelete, Elsewhere
  <1>9. ASSUME NEW r \in Row, Acknowledge(r) PROVE Adds
    <2>1. "ack" \in Op /\ Request("ack", r)
      BY <1>9 DEF Acknowledge, Op
    <2> QED
      BY <2>1, <1>5
  <1>10. ASSUME NEW w \in writes, NEW st \in {"done", "text", "list"}, Turn(w, st), work' = work
         PROVE  Turns
    BY <1>10, Turned DEF Turns
  <1>11. ASSUME NEW w \in writes, Serve(w) PROVE Turns
    BY <1>10, <1>11, ServeCases DEF Serve
  <1>12. ASSUME NEW w \in writes, Fail(w) PROVE Turns
    BY <1>10, <1>12 DEF Fail
  <1>13. ASSUME NEW w \in writes, Done(w) \/ Failed(w) PROVE Answers
    BY <1>13 DEF Done, Failed, Answers
  <1> QED
    BY <1>1, <1>2, <1>3, <1>4, <1>6, <1>7, <1>8, <1>9, <1>11, <1>12, <1>13, Steps

\* A request is sent by Save, by the confirm dialog or by Acknowledge.
LEMMA SendSteps ==
  ASSUME [Next]_vars, work' # work
  PROVE  Save \/ ConfirmDelete \/ \E r \in Row : Acknowledge(r)
  <1>2. CASE UNCHANGED vars
    BY <1>2 DEF vars
  <1>3. ASSUME NEW n \in PageNo, GoPage(n) \/ FetchServed(n) \/ FetchLands(n) \/ FetchFails(n)
        PROVE  FALSE
    BY <1>3 DEF GoPage, FetchServed, FetchLands, FetchFails
  <1>4. CASE Refocus \/ FailedNextDoor \/ OpenCreate \/ Close \/ SaveRefused \/ CancelDelete
    BY <1>4 DEF Refocus, FailedNextDoor, OpenCreate, Opened, Close, SaveRefused, CancelDelete
  <1>5. ASSUME NEW f \in Field, NEW v \in Value, Type(f, v) PROVE FALSE
    BY <1>5 DEF Type
  <1>6. ASSUME NEW r \in Row, Opens(r) \/ AskDelete(r) \/ Elsewhere(r) PROVE FALSE
    BY <1>6 DEF Opens, OpenEdit, Opened, OpenReset, AskDelete, Elsewhere
  <1>7. ASSUME NEW w \in writes, Serve(w) \/ Fail(w) \/ Done(w) \/ Failed(w) PROVE FALSE
    BY <1>7 DEF Serve, Fail, Done, Failed
  <1> QED
    BY <1>2, <1>3, <1>4, <1>5, <1>6, <1>7, Steps

\* Only an accepted change adds to what is lagging, and only itself.
LEMMA LagSteps ==
  ASSUME Typed, [Next]_vars
  PROVE  \A l \in lag' : l \in lag \/ \E w \in writes : l[2] = w.id
  <1>1. CASE UNCHANGED vars
    BY <1>1 DEF vars
  <1>2. ASSUME NEW n \in PageNo, GoPage(n) \/ FetchServed(n) \/ FetchLands(n) \/ FetchFails(n)
        PROVE  lag' \subseteq lag
    BY <1>2 DEF GoPage, FetchServed, FetchLands, FetchFails
  <1>3. CASE Refocus \/ FailedNextDoor \/ OpenCreate \/ Close \/ SaveRefused \/ Save \/ CancelDelete \/ ConfirmDelete
    BY <1>3 DEF Refocus, FailedNextDoor, OpenCreate, Opened, Close, SaveRefused, Save, CancelDelete, ConfirmDelete
  <1>4. ASSUME NEW f \in Field, NEW v \in Value, Type(f, v) PROVE lag' \subseteq lag
    BY <1>4 DEF Type
  <1>5. ASSUME NEW r \in Row, Opens(r) \/ AskDelete(r) \/ Acknowledge(r) \/ Elsewhere(r)
        PROVE  lag' \subseteq lag
    BY <1>5 DEF Opens, OpenEdit, Opened, OpenReset, AskDelete, Acknowledge, Elsewhere
  <1>6. ASSUME NEW w \in writes, Fail(w) \/ Done(w) \/ Failed(w) PROVE lag' \subseteq lag
    BY <1>6 DEF Fail, Done, Failed
  <1>7. ASSUME NEW w \in writes, Serve(w), NEW l \in lag' PROVE l \in lag \/ l[2] = w.id
    BY <1>7, ServeCases
  <1> QED
    BY <1>1, <1>2, <1>3, <1>4, <1>5, <1>6, <1>7, Steps

LEMMA IdsStep ==
  ASSUME Typed, Ids, [Next]_vars
  PROVE  Ids'
  <1>1. /\ writes \subseteq Writes /\ work \in Nat
        /\ \A w \in writes : w.id \in Nat
        /\ \A l \in lag : l[2] \in Nat
    BY PagesAssumption DEF Typed, Writes, Id
  <1>2. work' \in Nat /\ work <= work'
    BY <1>1, WriteSteps DEF Adds, Turns, Answers
  <1>3. \A l \in lag' : l[2] <= work'
    <2>1. \A l \in lag' : l[2] \in Nat /\ l[2] <= work
      BY <1>1, LagSteps DEF Ids
    <2> QED
      BY <1>1, <1>2, <2>1
  <1>4. (\A w \in writes' : w.id <= work') /\ (\A v, w \in writes' : v.id = w.id => v = w)
    <2>1. CASE UNCHANGED <<writes, work>>
      BY <2>1 DEF Ids
    <2>2. CASE Adds
      <3>1. PICK t \in Writes : t.id = work' /\ work' = work + 1 /\ writes' = writes \cup {t}
        BY <2>2 DEF Adds
      <3>2. \A w \in writes : w.id <= work /\ w.id # t.id
        BY <1>1, <3>1 DEF Ids
      <3> QED
        BY <1>1, <3>1, <3>2 DEF Ids
    <2>3. CASE Turns
      BY <2>3 DEF Turns, Ids
    <2>4. CASE Answers
      BY <2>4 DEF Answers, Ids
    <2> QED
      BY <2>1, <2>2, <2>3, <2>4, WriteSteps
  <1> QED
    BY <1>3, <1>4 DEF Ids

-----------------------------------------------------------------------------
(* The dialog and what it sends *)

LEMMA EditsSame ==
  ASSUME Edits, UNCHANGED <<page, dialog, asking>>
  PROVE  Edits'
  BY DEF Edits, Untyped

\* What was typed into a dialog that a crash unmounts is lost with it.
LEMMA LostEdits ==
  ASSUME page' = page, dialog' = NoDialog, asking' = None
  PROVE  Edits'
  BY NoDialogType DEF Edits

LEMMA ClosedEdits ==
  ASSUME Typed, Edits, page' = page, dialog' = Closed(dialog)
  PROVE  Edits'
  <1>1. dialog \in Dialogs
    BY DEF Typed
  <1>2. dialog'.open = "none" /\ (page.modals # "shared" => dialog'.row = None)
    BY <1>1, NoDialogType DEF Closed, NoDialog
  <1> QED
    BY <1>2 DEF Edits

LEMMA EditsStep ==
  ASSUME Typed, Edits, [Next]_vars
  PROVE  Edits'
  <1>p. page' = page
    BY PageStays
  <1>d. dialog \in Dialogs
    BY DEF Typed
  <1>1. CASE UNCHANGED vars
    BY <1>1, EditsSame DEF vars
  <1>2. ASSUME NEW n \in PageNo, GoPage(n) \/ FetchServed(n) \/ FetchLands(n) \/ FetchFails(n)
        PROVE  Edits'
    BY <1>2, EditsSame DEF GoPage, FetchServed, FetchLands, FetchFails, form
  <1>3. CASE Refocus \/ FailedNextDoor \/ SaveRefused \/ Save
    BY <1>3, EditsSame DEF Refocus, FailedNextDoor, SaveRefused, Save, form
  <1>4. CASE OpenCreate
    <2> DEFINE d == [NoDialog EXCEPT !.open = "create",
                                     !.row = IF page.modals = "apart" THEN dialog.row ELSE None,
                                     !.form = CreateForm]
    <2>1. dialog.open = "none" /\ asking = None
      BY <1>4 DEF OpenCreate, Free, Uncovered
    <2>2. d.open = "create" /\ d.row = (IF page.modals = "apart" THEN dialog.row ELSE None)
      BY DEF NoDialog
    <2>3. d.row = None
      BY <2>1, <2>2 DEF Edits
    <2>4. (dialog' = d /\ asking' = asking) \/ (dialog' = NoDialog /\ asking' = None)
      BY <1>4, RenderedCases DEF OpenCreate, Opened
    <2>5. CASE dialog' = d /\ asking' = asking
      BY <1>p, <2>1, <2>2, <2>3, <2>5 DEF Edits
    <2> QED
      BY <1>p, <2>4, <2>5, LostEdits
  <1>5. CASE Close
    BY <1>5, <1>p, ClosedEdits DEF Close
  <1>6. CASE CancelDelete \/ ConfirmDelete
    <2>1. dialog' = dialog /\ asking' = None
      BY <1>6 DEF CancelDelete, ConfirmDelete, form
    <2> QED
      BY <1>p, <2>1 DEF Edits, Untyped
  <1>7. ASSUME NEW f \in Field, NEW v \in Value, Type(f, v) PROVE Edits'
    <2>0. dialog.form \in Content
      BY <1>d DEF Dialogs
    <2>1. /\ dialog'.open = dialog.open /\ dialog'.row = dialog.row /\ dialog'.asked = dialog.asked
          /\ dialog'.base = dialog.base /\ dialog'.typed = dialog.typed \cup {f}
          /\ dialog'.form = [dialog.form EXCEPT ![f] = v]
          /\ asking' = asking /\ dialog.open # "none"
      BY <1>7, <1>d DEF Type, Dialogs
    <2>2. \A g \in Field \ dialog'.typed : dialog'.form[g] = dialog.form[g] /\ g \notin dialog.typed
      BY <2>0, <2>1 DEF Content
    <2>3. Untyped(dialog.typed, dialog.form, dialog.base)
          => Untyped(dialog.typed, dialog.form, dialog.base)'
      BY <1>p, <2>1, <2>2 DEF Untyped
    <2> QED
      BY <1>p, <2>1, <2>3 DEF Edits
  <1>8. ASSUME NEW r \in Row, OpenEdit(r) PROVE Edits'
    <2> DEFINE c == query[no].data.rows[r]
               d == [NoDialog EXCEPT !.open = "edit", !.row = r, !.asked = r,
                                     !.form = FormOf(c), !.base = c]
    <2>1. asking = None /\ r # None /\ c \in Content
      BY <1>8, PagesAssumption, ListedRows DEF OpenEdit, Free, Uncovered
    <2>2. d.open = "edit" /\ d.row = r /\ d.asked = r /\ d.form = FormOf(c) /\ d.base = c
      BY DEF NoDialog
    <2>3. Untyped(d.typed, FormOf(c), c)
      BY <2>1 DEF Untyped, FormOf, Content
    <2>4. (dialog' = d /\ asking' = asking) \/ (dialog' = NoDialog /\ asking' = None)
      BY <1>8, RenderedCases DEF OpenEdit, Opened
    <2>5. CASE dialog' = d /\ asking' = asking
      <3>1. Untyped(dialog.typed, dialog.form, dialog.base)'
        BY <1>p, <2>2, <2>3, <2>5 DEF Untyped
      <3> QED
        BY <1>p, <2>1, <2>2, <2>5, <3>1 DEF Edits
    <2> QED
      BY <1>p, <2>4, <2>5, LostEdits
  <1>9. ASSUME NEW r \in Row, OpenReset(r) PROVE Edits'
    <2>1. asking' = None /\ r # None
      BY <1>9, PagesAssumption DEF OpenReset, Free, Uncovered
    <2>2. dialog'.open = "reset" /\ dialog'.row = r /\ dialog'.asked = r
      BY <1>9 DEF OpenReset, NoDialog
    <2> QED
      BY <1>p, <2>1, <2>2 DEF Edits
  <1>10. ASSUME NEW r \in Row, AskDelete(r) PROVE Edits'
    <2>1. dialog.open = "none" /\ dialog' = dialog
      BY <1>10 DEF AskDelete, Free, Uncovered, form
    <2> QED
      BY <1>p, <2>1 DEF Edits, Untyped
  <1>11. ASSUME NEW r \in Row, Acknowledge(r) \/ Elsewhere(r) PROVE Edits'
    BY <1>11, EditsSame DEF Acknowledge, Elsewhere, form
  <1>12. ASSUME NEW w \in writes, Serve(w) \/ Fail(w) PROVE Edits'
    BY <1>12, EditsSame DEF Serve, Fail, form
  <1>14. ASSUME NEW w \in writes, Failed(w) PROVE Edits'
    <2>1. \/ dialog' = dialog /\ (asking' = None \/ asking' = asking)
          \/ dialog' = NoDialog /\ asking' = None
      BY <1>14, RenderedCases DEF Failed
    <2>2. CASE dialog' = dialog /\ (asking' = None \/ asking' = asking)
      <3>1. Untyped(dialog.typed, dialog.form, dialog.base)
            => Untyped(dialog.typed, dialog.form, dialog.base)'
        BY <1>p, <2>2 DEF Untyped
      <3> QED
        BY <1>p, <2>2, <3>1 DEF Edits, Untyped
    <2> QED
      BY <1>p, <2>1, <2>2, LostEdits
  <1>13. ASSUME NEW w \in writes, Done(w) PROVE Edits'
    <2>1. CASE dialog' = Closed(dialog)
      BY <1>p, <2>1, ClosedEdits
    <2>2. CASE dialog' = dialog
      <3>1. asking' = None \/ asking' = asking
        BY <1>13 DEF Done
      <3> QED
        BY <1>p, <2>2, <3>1 DEF Edits, Untyped
    <2> QED
      BY <1>13, <2>1, <2>2 DEF Done
  <1> QED
    BY <1>1, <1>2, <1>3, <1>4, <1>5, <1>6, <1>7, <1>8, <1>9, <1>10, <1>11, <1>12, <1>13, <1>14, Steps DEF Opens

LEMMA SentStep ==
  ASSUME Typed, Edits, Sent, [Next]_vars
  PROVE  Sent'
  <1> DEFINE Right(w) == w.st = "sent" =>
               /\ w.op # "create" => w.row # None /\ w.asked = w.row
               /\ w.op = "update" => Untyped(w.typed, w.body, w.base)
  <1>0. (\A w \in writes' : Right(w)) => Sent'
    <2>1. page' = page
      BY PageStays
    <2> QED
      BY <2>1 DEF Sent, Untyped
  <1>a. \A w \in writes : Right(w)
    BY DEF Sent
  <1>1. CASE Save
    <2>1. PICK t \in Writes : /\ t.op = SaveOp /\ t.row = dialog.row
                              /\ t.body = dialog.form /\ t.asked = dialog.asked
                              /\ t.typed = dialog.typed /\ t.base = dialog.base
                              /\ writes' = writes \cup {t}
      BY <1>1, SaveType
    <2>2. dialog.open # "none"
      BY <1>1 DEF Save, SaveEnabled
    <2>3. SaveOp # "create" => dialog.open \in {"edit", "reset"}
      BY <2>2 DEF SaveOp, Edits
    <2>4. SaveOp = "update" => dialog.open = "edit"
      BY <2>2, <2>3 DEF SaveOp
    <2>5. Right(t)
      BY <2>1, <2>3, <2>4 DEF Edits
    <2> QED
      BY <1>0, <1>a, <2>1, <2>5
  <1>2. ASSUME NEW op \in Op, NEW r \in Row, Request(op, r), op # "update"
        PROVE  Sent'
    <2>1. PICK t \in Writes : /\ t.op = op /\ t.row = r /\ t.asked = r
                              /\ writes' = writes \cup {t}
      BY <1>2, RequestType
    <2>2. Right(t)
      BY <1>2, <2>1, PagesAssumption
    <2> QED
      BY <1>0, <1>a, <2>1, <2>2
  <1>3. CASE ConfirmDelete
    <2>1. asking \in Row /\ "delete" \in Op /\ Request("delete", asking)
      BY <1>3 DEF ConfirmDelete, Typed, Op
    <2> QED
      BY <2>1, <1>2
  <1>4. ASSUME NEW r \in Row, Acknowledge(r) PROVE Sent'
    <2>1. "ack" \in Op /\ Request("ack", r)
      BY <1>4 DEF Acknowledge, Op
    <2> QED
      BY <2>1, <1>2
  <1>5. CASE UNCHANGED <<writes, work>>
    BY <1>0, <1>a, <1>5
  <1>6. CASE Turns
    <2>1. \A w \in writes' : w \in writes \/ w.st # "sent"
      BY <1>6 DEF Turns
    <2> QED
      BY <1>0, <1>a, <2>1
  <1>7. CASE Answers
    BY <1>0, <1>a, <1>7 DEF Answers
  <1>8. CASE Adds
    <2>1. work' # work
      BY <1>8, PagesAssumption DEF Adds, Typed
    <2> QED
      BY <1>1, <1>3, <1>4, <2>1, SendSteps
  <1> QED
    BY <1>5, <1>6, <1>7, <1>8, WriteSteps
\* A save finds no other of its kind, or of its shared dialog, under way.
LEMMA SavesStep ==
  ASSUME Typed, OneSaveAtATime, [Next]_vars
  PROVE  OneSaveAtATime'
  <1> DEFINE Apart(u, w) == /\ u.op = w.op => u.op = "delete"
                            /\ page.modals = "shared" => {u.op, w.op} # {"create", "update"}
  <1>0. (\A u, w \in writes' : u # w => Apart(u, w)) => OneSaveAtATime'
    <2>1. page' = page
      BY PageStays
    <2> QED
      BY <2>1 DEF OneSaveAtATime
  <1>a. \A u, w \in writes : u # w => Apart(u, w)
    BY DEF OneSaveAtATime
  <1> HIDE DEF Apart
  <1>s. \A u, w : Apart(u, w) => Apart(w, u)
    <2>1. \A a, b : {a, b} = {b, a}
      OBVIOUS
    <2> QED
      BY <2>1 DEF Apart
  <1>1. ASSUME NEW t, writes' = writes \cup {t}, \A w \in writes : Apart(t, w)
        PROVE  OneSaveAtATime'
    BY <1>0, <1>a, <1>s, <1>1
  <1>2. CASE Save
    <2>1. PICK t \in Writes : t.op = SaveOp /\ writes' = writes \cup {t}
      BY <1>2, SaveType
    <2>2. ASSUME NEW w \in writes
          PROVE  Apart(t, w)
      <3>1. w.op # SaveOp /\ (page.modals = "shared" => w.op \notin {"create", "update"})
        BY <1>2 DEF Save, SaveEnabled, Pending
      <3> QED
        BY <2>1, <3>1 DEF Apart
    <2> QED
      BY <1>1, <2>1, <2>2
  <1>3. CASE ConfirmDelete
    <2>1. asking \in Row /\ "delete" \in Op /\ Request("delete", asking)
      BY <1>3 DEF ConfirmDelete, Typed, Op
    <2>2. PICK t \in Writes : t.op = "delete" /\ writes' = writes \cup {t}
      BY <2>1, RequestType
    <2>3. \A w \in writes : Apart(t, w)
      BY <2>2 DEF Apart
    <2> QED
      BY <1>1, <2>2, <2>3
  <1>4. ASSUME NEW r \in Row, Acknowledge(r) PROVE OneSaveAtATime'
    <2>1. "ack" \in Op /\ Request("ack", r) /\ \A w \in writes : w.op # "ack"
      BY <1>4 DEF Acknowledge, Op, Pending
    <2>2. PICK t \in Writes : t.op = "ack" /\ writes' = writes \cup {t}
      BY <2>1, RequestType
    <2>3. \A w \in writes : Apart(t, w)
      BY <2>1, <2>2 DEF Apart
    <2> QED
      BY <1>1, <2>2, <2>3
  <1>5. CASE UNCHANGED <<writes, work>>
    BY <1>0, <1>a, <1>5
  <1>6. CASE Turns
    <2>1. PICK w \in writes, t \in Writes : t.op = w.op /\ writes' = (writes \ {w}) \cup {t}
      BY <1>6 DEF Turns
    <2>2. \A u \in writes \ {w} : Apart(t, u)
      <3>1. \A u \in writes \ {w} : Apart(w, u)
        BY <1>a
      <3> QED
        BY <2>1, <3>1 DEF Apart
    <2> QED
      BY <1>0, <1>a, <1>s, <2>1, <2>2
  <1>7. CASE Answers
    BY <1>0, <1>a, <1>7 DEF Answers
  <1>8. CASE Adds
    <2>1. work' # work
      BY <1>8, PagesAssumption DEF Adds, Typed
    <2> QED
      BY <1>2, <1>3, <1>4, <2>1, SendSteps
  <1> QED
    BY <1>5, <1>6, <1>7, <1>8, WriteSteps

-----------------------------------------------------------------------------
(* The rows *)

\* A row is changed by another user or by an accepted change of the browser's.
LEMMA RowSteps ==
  ASSUME Typed, [Next]_vars, rows' # rows
  PROVE  \/ \E r \in Row : Elsewhere(r)
         \/ \E w \in writes : /\ w.st = "sent" /\ Accepted(w) /\ Turn(w, "done")
                              /\ rows' = Written(w) /\ work' = work
  <1>1. CASE UNCHANGED vars
    BY <1>1 DEF vars
  <1>2. ASSUME NEW n \in PageNo, GoPage(n) \/ FetchServed(n) \/ FetchLands(n) \/ FetchFails(n)
        PROVE  FALSE
    BY <1>2 DEF GoPage, FetchServed, FetchLands, FetchFails
  <1>3. CASE Refocus \/ FailedNextDoor \/ OpenCreate \/ Close \/ SaveRefused \/ Save \/ CancelDelete \/ ConfirmDelete
    BY <1>3 DEF Refocus, FailedNextDoor, OpenCreate, Opened, Close, SaveRefused, Save, CancelDelete, ConfirmDelete
  <1>4. ASSUME NEW f \in Field, NEW v \in Value, Type(f, v) PROVE FALSE
    BY <1>4 DEF Type
  <1>5. ASSUME NEW r \in Row, Opens(r) \/ AskDelete(r) \/ Acknowledge(r) PROVE FALSE
    BY <1>5 DEF Opens, OpenEdit, Opened, OpenReset, AskDelete, Acknowledge
  <1>6. ASSUME NEW w \in writes, Fail(w) \/ Done(w) \/ Failed(w) PROVE FALSE
    BY <1>6 DEF Fail, Done, Failed
  <1>7. ASSUME NEW w \in writes, Serve(w)
        PROVE  /\ w.st = "sent" /\ Accepted(w) /\ Turn(w, "done")
               /\ rows' = Written(w) /\ work' = work
    BY <1>7, ServeCases DEF Serve
  <1> QED
    BY <1>1, <1>2, <1>3, <1>4, <1>5, <1>6, <1>7, Steps

LEMMA UnbornElsewhere ==
  ASSUME Typed, NEW r \in Row, Elsewhere(r)
  PROVE  Unborn' = Unborn
  <1>1. rows \in [Row -> Content \cup {Absent, Gone}] /\ r \in There
    BY DEF Elsewhere, Typed
  <1>2. rows[r] \in Content /\ rows[r] # Absent
    BY <1>1, ThereRows, Contents
  <1>3. [rows[r] EXCEPT !.y = "theirs"] # Absent /\ Gone # Absent
    BY <1>2, Contents
  <1>4. rows' = [rows EXCEPT ![r] = [rows[r] EXCEPT !.y = "theirs"]] \/ rows' = [rows EXCEPT ![r] = Gone]
    BY <1>1 DEF Elsewhere
  <1>5. \A s \in Row : rows'[s] = Absent <=> rows[s] = Absent
    BY <1>1, <1>2, <1>3, <1>4
  <1> QED
    BY <1>5 DEF Unborn

LEMMA UnbornWritten ==
  ASSUME Typed, NEW w \in writes, Accepted(w), rows' = Written(w), w.op # "create"
  PROVE  Unborn' = Unborn
  <1>1. w \in Writes /\ rows \in [Row -> Content \cup {Absent, Gone}]
    BY DEF Typed
  <1>2. w.op \in Op \ {"create"} /\ w.body \in Content
    BY <1>1 DEF Writes
  <1>3. CASE w.op = "reset"
    <2>1. rows' = rows
      BY <1>3 DEF Written
    <2> QED
      BY <2>1 DEF Unborn
  <1>4. CASE w.op # "reset"
    <2>1. w.row \in There
      BY <1>2, <1>4 DEF Op, Accepted
    <2>2. w.row \in Row /\ rows[w.row] \in Content /\ rows[w.row] # Absent
      BY <1>1, <2>1, ThereRows, Contents
    <2>3. \E c : c # Absent /\ rows' = [rows EXCEPT ![w.row] = c]
      <3>1. CASE w.op = "update"
        BY <1>2, <3>1, Contents DEF Written
      <3>2. CASE w.op = "delete"
        BY <3>2, Contents DEF Written
      <3>3. CASE w.op = "ack"
        <4>1. [rows[w.row] EXCEPT !.x = "mine"] # Absent
          BY <2>2, Contents
        <4>2. rows' = [rows EXCEPT ![w.row] = [rows[w.row] EXCEPT !.x = "mine"]]
          BY <1>1, <2>2, <3>3 DEF Written
        <4> QED
          BY <4>1, <4>2
      <3> QED
        BY <1>2, <1>4, <3>1, <3>2, <3>3 DEF Op
    <2>4. \A s \in Row : rows'[s] = Absent <=> rows[s] = Absent
      BY <1>1, <2>2, <2>3
    <2> QED
      BY <2>4 DEF Unborn
  <1> QED
    BY <1>3, <1>4

\* A served creation is one of those that Births has kept a row for.
LEMMA BornRow ==
  ASSUME Typed, Births, NEW w \in writes, w.st = "sent", w.op = "create"
  PROVE  Min(Unborn) \in Unborn /\ w \in Creations
  <1>1. w \in Creations /\ Creations \subseteq writes
    BY DEF Creations
  <1>2. IsFiniteSet(Creations)
    BY <1>1, FS_Subset DEF Births
  <1>3. Cardinality(Creations) \in Nat /\ Cardinality(Creations) # 0
    BY <1>1, <1>2, FS_CardinalityType, FS_EmptySet
  <1>4. Cardinality(Unborn) # 0
    BY <1>3, UnbornRows DEF Births
  <1>5. Unborn # {}
    BY <1>4, FS_EmptySet
  <1> QED
    BY <1>1, <1>5, UnbornRows

LEMMA BirthsStep ==
  ASSUME Typed, Births, [Next]_vars
  PROVE  Births'
  <1>f. /\ IsFiniteSet(writes) /\ IsFiniteSet(Creations) /\ Cardinality(Creations) \in Nat
        /\ Cardinality(Unborn) \in Nat
    <2>1. Creations \subseteq writes
      BY DEF Creations
    <2> QED
      BY <2>1, FS_Subset, FS_CardinalityType, UnbornRows DEF Births
  <1>1. IsFiniteSet(writes')
    <2>1. CASE UNCHANGED <<writes, work>>
      BY <1>f, <2>1
    <2>2. CASE Adds
      BY <1>f, <2>2, FS_AddElement DEF Adds
    <2>3. CASE Turns
      <3>1. PICK w \in writes, t \in Writes : writes' = (writes \ {w}) \cup {t}
        BY <2>3 DEF Turns
      <3>2. IsFiniteSet(writes \ {w})
        BY <1>f, FS_Subset
      <3> QED
        BY <3>1, <3>2, FS_AddElement
    <2>4. CASE Answers
      BY <1>f, <2>4, FS_Subset DEF Answers
    <2> QED
      BY <2>1, <2>2, <2>3, <2>4, WriteSteps
  <1>2. ASSUME Creations' \subseteq Creations, Unborn' = Unborn
        PROVE  Births'
    <2>1. Cardinality(Creations') <= Cardinality(Creations) /\ Cardinality(Creations') \in Nat
      BY <1>2, <1>f, FS_Subset, FS_CardinalityType
    <2> QED
      BY <1>1, <1>2, <1>f, <2>1 DEF Births
  <1>3. CASE Save
    <2>1. PICK t \in Writes : t.op = SaveOp /\ writes' = writes \cup {t}
      BY <1>3, SaveType
    <2>2. Unborn' = Unborn
      BY <1>3 DEF Save, Unborn
    <2>3. CASE SaveOp # "create"
      <3>1. Creations' \subseteq Creations
        BY <2>1, <2>3 DEF Creations
      <3> QED
        BY <2>2, <3>1, <1>2
    <2>4. CASE SaveOp = "create"
      <3> DEFINE C == {w \in writes : w.op = "create"}
      <3>1. Cardinality(Unborn) > Cardinality(C)
        BY <1>3, <2>4 DEF Save
      <3>2. IsFiniteSet(C) /\ Cardinality(C) \in Nat /\ Creations \subseteq C
        BY <1>f, FS_Subset, FS_CardinalityType DEF Creations
      <3>3. Cardinality(Creations) <= Cardinality(C)
        BY <3>2, FS_Subset
      <3>4. Creations' \subseteq Creations \cup {t}
        BY <2>1 DEF Creations
      <3>5. IsFiniteSet(Creations \cup {t}) /\ Cardinality(Creations \cup {t}) <= Cardinality(Creations) + 1
            /\ Cardinality(Creations \cup {t}) \in Nat
        <4>1. IsFiniteSet(Creations \cup {t})
          BY <1>f, FS_AddElement
        <4>2. Cardinality(Creations \cup {t}) \in Nat
          BY <4>1, FS_CardinalityType
        <4>3. Cardinality(Creations \cup {t}) = Cardinality(Creations)
              \/ Cardinality(Creations \cup {t}) = Cardinality(Creations) + 1
          BY <1>f, FS_AddElement
        <4> QED
          BY <1>f, <4>1, <4>2, <4>3
      <3>6. Cardinality(Creations') <= Cardinality(Creations \cup {t}) /\ Cardinality(Creations') \in Nat
        BY <3>4, <3>5, FS_Subset, FS_CardinalityType
      <3>7. Cardinality(Creations') <= Cardinality(Unborn')
        BY <1>f, <2>2, <3>1, <3>2, <3>3, <3>5, <3>6
      <3> QED
        BY <1>1, <3>7 DEF Births
    <2> QED
      BY <2>3, <2>4
  <1>4. ASSUME NEW op \in Op, NEW r \in Row, Request(op, r), op # "create", rows' = rows
        PROVE  Births'
    <2>1. PICK t \in Writes : t.op = op /\ writes' = writes \cup {t}
      BY <1>4, RequestType
    <2>2. Creations' \subseteq Creations
      BY <1>4, <2>1 DEF Creations
    <2>3. Unborn' = Unborn
      BY <1>4 DEF Unborn
    <2> QED
      BY <1>2, <2>2, <2>3
  <1>5. CASE ConfirmDelete
    <2>1. asking \in Row /\ "delete" \in Op /\ Request("delete", asking) /\ rows' = rows
      BY <1>5 DEF ConfirmDelete, Typed, Op
    <2> QED
      BY <2>1, <1>4
  <1>6. ASSUME NEW r \in Row, Acknowledge(r) PROVE Births'
    <2>1. "ack" \in Op /\ Request("ack", r) /\ rows' = rows
      BY <1>6 DEF Acknowledge, Op
    <2> QED
      BY <2>1, <1>4
  <1>7. CASE work' = work
    <2>1. Creations' \subseteq Creations
      <3>1. CASE UNCHANGED <<writes, work>>
        BY <3>1 DEF Creations
      <3>2. CASE Turns
        BY <3>2 DEF Turns, Creations
      <3>3. CASE Answers
        BY <3>3 DEF Answers, Creations
      <3>4. CASE Adds
        BY <1>7, <3>4, PagesAssumption DEF Adds, Typed
      <3> QED
        BY <3>1, <3>2, <3>3, <3>4, WriteSteps
    <2>2. CASE rows' = rows
      <3>1. Unborn' = Unborn
        BY <2>2 DEF Unborn
      <3> QED
        BY <1>2, <2>1, <3>1
    <2>3. ASSUME NEW r \in Row, Elsewhere(r) PROVE Births'
      BY <2>3, UnbornElsewhere, <1>2, <2>1
    <2>4. ASSUME NEW w \in writes, w.st = "sent", Accepted(w), Turn(w, "done"), rows' = Written(w)
          PROVE  Births'
      <3>1. CASE w.op # "create"
        BY <2>4, <3>1, UnbornWritten, <1>2, <2>1
      <3>2. CASE w.op = "create"
        <4>1. Min(Unborn) \in Unborn /\ w \in Creations
          BY <2>4, <3>2, BornRow
        <4>2. w.body \in Content /\ rows \in [Row -> Content \cup {Absent, Gone}]
          BY DEF Typed, Writes
        <4>3. rows' = [rows EXCEPT ![Min(Unborn)] = w.body] /\ w.body # Absent
          BY <2>4, <3>2, <4>2, Contents DEF Written
        <4>4. PICK u \in Unborn : u = Min(Unborn)
          BY <4>1
        <4>5. Unborn' = Unborn \ {u}
          BY <4>2, <4>3, <4>4 DEF Unborn
        <4>6. Creations' = Creations \ {w}
          <5>1. PICK t \in Writes : t.st = "done" /\ writes' = (writes \ {w}) \cup {t}
            BY <2>4, Turned
          <5> QED
            BY <5>1, <2>4 DEF Creations
        <4>7. Cardinality(Creations \ {w}) = Cardinality(Creations) - 1
          BY <1>f, <4>1, FS_RemoveElement
        <4>8. Cardinality(Unborn \ {u}) = Cardinality(Unborn) - 1
          BY UnbornRows, FS_RemoveElement
        <4>9. Cardinality(Creations') <= Cardinality(Unborn')
          BY <1>f, <4>5, <4>6, <4>7, <4>8 DEF Births
        <4> QED
          BY <1>1, <4>9 DEF Births
      <3> QED
        BY <3>1, <3>2
    <2> QED
      BY <2>2, <2>3, <2>4, RowSteps
  <1> QED
    BY <1>3, <1>5, <1>6, <1>7, SendSteps
-----------------------------------------------------------------------------
(* Changes that a cached page lacks *)

LEMMA KnownSame ==
  ASSUME UNCHANGED <<query, no>>, crashed => crashed', NEW l, Known(l)
  PROVE  Known(l)'
  BY DEF Known

\* Without a change of the requests, what was known has to stay known.
LEMMA LaggingKept ==
  ASSUME Lagging, page' = page, writes' = writes, lag' \subseteq lag,
         \A l \in lag' : (\E w \in writes : w.id = l[2]) \/ Known(l) =>
                         (\E w \in writes : w.id = l[2]) \/ Known(l)'
  PROVE  Lagging'
  BY DEF Lagging

LEMMA LaggingSame ==
  ASSUME Lagging, UNCHANGED <<page, writes, lag, query, no>>, crashed => crashed'
  PROVE  Lagging'
  <1>1. \A l \in lag' : Known(l) => Known(l)'
    BY KnownSame
  <1> QED
    BY <1>1, LaggingKept

LEMMA LaggingAdds ==
  ASSUME Typed, Ids, Lagging, UNCHANGED <<page, lag, query, no>>, crashed => crashed', Adds
  PROVE  Lagging'
  <1>1. \A l \in lag : Known(l) => Known(l)'
    BY KnownSame
  <1>2. PICK t \in Writes : t.id = work + 1 /\ writes' = writes \cup {t}
    BY DEF Adds
  <1>3. \A l \in lag : l[2] # t.id
    BY <1>2, PagesAssumption DEF Ids, Typed, Id
  <1> QED
    BY <1>1, <1>2, <1>3 DEF Lagging

LEMMA LaggingGoPage ==
  ASSUME Typed, Lagging, NEW n \in PageNo, GoPage(n)
  PROVE  Lagging'
  <1>1. no' = n /\ n # no /\ ~crashed /\ UNCHANGED <<page, writes, lag, crashed>>
    BY PagesAssumption DEF GoPage, Uncovered, Typed, PageNo
  <1>2. ASSUME NEW l \in lag, Known(l)
        PROVE  Known(l)'
    <2>1. l[1] \in PageNo
      BY DEF Typed
    <2>2. query[l[1]].st \in {"idle", "sent", "served", "failed"}
      BY <2>1, QueryType
    <2>3. query \in [PageNo -> Queries] /\ query[n] \in Queries
      BY DEF Typed
    <2>4. CASE l[1] # n
      <3>1. query'[l[1]] = query[l[1]]
        BY <2>1, <2>3, <2>4 DEF GoPage
      <3>2. query[l[1]].st = "idle" => l[1] # no
        BY <1>1, <1>2 DEF Known
      <3> QED
        BY <1>1, <1>2, <2>4, <3>1, <3>2 DEF Known
    <2>5. CASE l[1] = n
      <3>1. CASE query[n].st \in {"sent", "served"} \/ (query[n].has /\ ~query[n].stale)
        <4>1. query' = query
          BY <3>1 DEF GoPage
        <4>2. query[n].st # "idle"
          BY <1>1, <1>2, <2>5, <3>1 DEF Known
        <4> QED
          BY <1>1, <1>2, <2>5, <4>1, <4>2 DEF Known
      <3>2. CASE ~(query[n].st \in {"sent", "served"} \/ (query[n].has /\ ~query[n].stale))
        <4>1. query'[n] = Fetching(query[n])
          BY <2>3, <3>2 DEF GoPage
        <4>2. query'[n].st = "sent"
          BY <2>3, <4>1 DEF Fetching, Queries
        <4> QED
          BY <2>5, <4>2 DEF Known
      <3> QED
        BY <3>1, <3>2
    <2> QED
      BY <2>4, <2>5
  <1> QED
    BY <1>1, <1>2, LaggingKept

LEMMA LaggingFetch ==
  ASSUME Typed, Lagging, NEW n \in PageNo, FetchServed(n) \/ FetchFails(n)
  PROVE  Lagging'
  <1>1. no' = no /\ ~crashed /\ UNCHANGED <<page, writes, lag, crashed>>
    BY DEF FetchServed, FetchFails
  <1>2. query \in [PageNo -> Queries] /\ query[n] \in Queries
    BY DEF Typed
  <1>3. \A m \in PageNo \ {n} : query'[m] = query[m]
    BY <1>2 DEF FetchServed, FetchFails
  <1>4. \/ query'[n].st = "failed"
        \/ query'[n].st = "served" /\ query'[n].covers = lag
    BY <1>2 DEF FetchServed, FetchFails, Queries
  <1>5. ASSUME NEW l \in lag, Known(l)
        PROVE  Known(l)'
    <2>1. l[1] \in PageNo
      BY DEF Typed
    <2>2. CASE l[1] = n
      BY <1>4, <1>5, <2>2 DEF Known
    <2>3. CASE l[1] # n
      <3>1. query'[l[1]] = query[l[1]]
        BY <1>3, <2>1, <2>3
      <3> QED
        BY <1>1, <1>5, <2>3, <3>1 DEF Known
    <2> QED
      BY <2>2, <2>3
  <1> QED
    BY <1>1, <1>5, LaggingKept

\* What lands has all that it covers; anything else that this page lacks is
\* not answered yet.
LEMMA LaggingLands ==
  ASSUME Typed, Lagging, NEW n \in PageNo, FetchLands(n)
  PROVE  Lagging'
  <1>1. /\ no' = no /\ ~crashed /\ UNCHANGED <<page, writes, crashed>>
        /\ lag' = lag \ {l \in query[n].covers : l[1] = n}
        /\ query[n].st = "served"
    BY DEF FetchLands
  <1>2. query \in [PageNo -> Queries]
    BY DEF Typed
  <1>3. \A m \in PageNo \ {n} : query'[m] = query[m]
    BY <1>2 DEF FetchLands
  <1>4. ASSUME NEW l \in lag', Known(l)
        PROVE  Known(l)'
    <2>1. l[1] \in PageNo /\ l \in lag
      BY <1>1 DEF Typed
    <2>2. l[1] # n
      BY <1>1, <1>4 DEF Known
    <2>3. query'[l[1]] = query[l[1]]
      BY <1>3, <2>1, <2>2
    <2> QED
      BY <1>1, <1>4, <2>2, <2>3 DEF Known
  <1> QED
    BY <1>1, <1>4, LaggingKept

LEMMA LaggingRefocus ==
  ASSUME Typed, Lagging, Refocus
  PROVE  Lagging'
  <1>1. no' = no /\ UNCHANGED <<page, writes, lag, crashed>> /\ no \in PageNo
    BY DEF Refocus, Typed
  <1>2. query \in [PageNo -> Queries] /\ query[no] \in Queries
    BY <1>1 DEF Typed
  <1>3. \A m \in PageNo \ {no} : query'[m] = query[m]
    BY <1>2 DEF Refocus
  <1>4. query'[no].st = "sent"
    BY <1>1, <1>2 DEF Refocus, Fetching, Queries
  <1>5. ASSUME NEW l \in lag, Known(l)
        PROVE  Known(l)'
    <2>1. l[1] \in PageNo
      BY DEF Typed
    <2>2. CASE l[1] = no
      BY <1>4, <2>2 DEF Known
    <2>3. CASE l[1] # no
      <3>1. query'[l[1]] = query[l[1]]
        BY <1>3, <2>1, <2>3
      <3> QED
        BY <1>1, <1>5, <2>3, <3>1 DEF Known
    <2> QED
      BY <2>2, <2>3
  <1> QED
    BY <1>1, <1>5, LaggingKept

\* The change that is applied now is done, and its answer under way; it was
\* not applied before.
LEMMA LaggingServe ==
  ASSUME Typed, Ids, Lagging, NEW w \in writes, Serve(w)
  PROVE  Lagging'
  <1>1. UNCHANGED <<page, query, no, crashed>> /\ w.st = "sent"
    BY DEF Serve
  <1>2. \A l \in lag : Known(l) => Known(l)'
    BY <1>1, KnownSame
  <1>3. \A l \in lag : l[2] # w.id
    BY <1>1 DEF Lagging
  <1>4. CASE Turn(w, "text") /\ lag' = lag
    <2>1. PICK t \in Writes : t.id = w.id /\ writes' = (writes \ {w}) \cup {t}
      BY <1>4, Turned
    <2> QED
      BY <1>1, <1>2, <1>3, <1>4, <2>1 DEF Lagging
  <1>5. CASE Turn(w, "done") /\ lag' = IF w.op \in page.fresh
             THEN lag \cup ({n \in PageNo : query[n].has \/ query[n].st = "served"} \X {w.id}) ELSE lag
    <2>1. PICK t \in Writes : /\ t.id = w.id /\ t.op = w.op /\ t.st = "done"
                              /\ writes' = (writes \ {w}) \cup {t}
      BY <1>5, Turned
    <2>2. \A l \in lag' : l \in lag \/ (l[2] = w.id /\ w.op \in page.fresh)
      BY <1>5
    <2>3. \A v \in writes : v.id = w.id => v = w
      BY DEF Ids
    <2>4. ASSUME NEW l \in lag', l[2] = w.id
          PROVE  /\ \A v \in writes' : v.id = l[2] => v.st = "done" /\ v.op \in page'.fresh
                 /\ \E v \in writes' : v.id = l[2]
      BY <1>1, <1>3, <2>1, <2>2, <2>3, <2>4
    <2>5. ASSUME NEW l \in lag, l[2] # w.id
          PROVE  /\ \A v \in writes' : v.id = l[2] => v.st = "done" /\ v.op \in page'.fresh
                 /\ (\E v \in writes' : v.id = l[2]) \/ Known(l)'
      BY <1>1, <1>2, <2>1, <2>5 DEF Lagging
    <2> QED
      BY <2>2, <2>4, <2>5 DEF Lagging
  <1> QED
    BY <1>4, <1>5, ServeCases

LEMMA LaggingFail ==
  ASSUME Typed, Ids, Lagging, NEW w \in writes, Fail(w) \/ Failed(w)
  PROVE  Lagging'
  <1>1. UNCHANGED <<page, query, no>> /\ (crashed => crashed')
    <2>1. UNCHANGED <<page, query, no>>
      BY DEF Fail, Failed
    <2>2. Fail(w) => (crashed => crashed')
      BY Zenon DEF Fail
    <2>3. Failed(w) => (crashed => crashed')
      BY RenderedCases DEF Failed
    <2> QED
      BY <2>1, <2>2, <2>3
  <1>2. \A l \in lag : Known(l) => Known(l)'
    BY <1>1, KnownSame
  <1>3. CASE Fail(w)
    <2>1. lag' = {l \in lag : l[2] # w.id}
      BY <1>3 DEF Fail
    <2>2. PICK t \in Writes : t.id = w.id /\ writes' = (writes \ {w}) \cup {t}
      BY <1>3, Turned DEF Fail
    <2> QED
      BY <1>1, <1>2, <2>1, <2>2 DEF Lagging
  <1>4. CASE Failed(w)
    <2>1. lag' = lag /\ writes' = writes \ {w} /\ w.st # "done"
      BY <1>4 DEF Failed
    <2>2. \A l \in lag : l[2] # w.id
      BY <2>1 DEF Lagging
    <2> QED
      BY <1>1, <1>2, <2>1, <2>2 DEF Lagging
  <1> QED
    BY <1>3, <1>4

\* What is lagging when it is answered is invalidated.
LEMMA LaggingDone ==
  ASSUME Typed, Ids, Lagging, NEW w \in writes, Done(w)
  PROVE  Lagging'
  <1>1. UNCHANGED <<page, no, crashed>> /\ writes' = writes \ {w} /\ lag' = lag \ Overlooked(w)
    BY DEF Done
  <1>2. \A v \in writes : v.id = w.id => v = w
    BY DEF Ids
  <1>3. ASSUME NEW l \in lag'
        PROVE  \A v \in writes' : v.id = l[2] => v.st = "done" /\ v.op \in page'.fresh
    BY <1>1 DEF Lagging
  <1>4. CASE w.op \notin page.fresh
    <2>1. query' = query
      BY <1>4 DEF Done
    <2>2. \A l \in lag : Known(l) => Known(l)'
      BY <1>1, <2>1, KnownSame
    <2>3. \A l \in lag : l[2] # w.id
      BY <1>4 DEF Lagging
    <2> QED
      BY <1>1, <1>3, <2>2, <2>3 DEF Lagging
  <1>5. CASE w.op \in page.fresh
    <2>0. Invalidate
      BY <1>5 DEF Done
    <2>1. ASSUME NEW l \in lag', Known(l) \/ l[2] = w.id
          PROVE  Known(l)'
      <3>1. l \in lag /\ l[1] \in PageNo /\ l = <<l[1], l[2]>>
        BY <1>1 DEF Typed
      <3> DEFINE n == l[1]
      <3>2. query[n] \in Queries /\ query[n].st \in {"idle", "sent", "served", "failed"}
            /\ query[n].has \in BOOLEAN
        BY <3>1, QueryType
      <3>3. CASE Restarted(n)
        <4>1. query'[n] = Fetching([query[n] EXCEPT !.stale = TRUE])
          BY <2>0, <3>1, <3>3 DEF Invalidate
        <4>2. query'[n].st = "sent"
          BY <3>2, <4>1 DEF Fetching, Queries
        <4> QED
          BY <4>2 DEF Known
      <3>4. CASE n = no /\ crashed
        BY <1>1, <3>4 DEF Known
      <3>5. CASE ~Restarted(n) /\ (n # no \/ ~crashed)
        <4>1. query'[n] = [query[n] EXCEPT !.stale = query[n].st # "idle" \/ query[n].has]
          BY <2>0, <3>1, <3>5 DEF Invalidate
        <4>2. PICK b \in BOOLEAN : b = (query[n].st # "idle" \/ query[n].has)
          OBVIOUS
        <4>3. /\ query'[n].st = query[n].st /\ query'[n].covers = query[n].covers
              /\ query'[n].has = query[n].has /\ query'[n].stale = b
          BY <3>2, <4>1, <4>2 DEF Queries
        <4>4. CASE query[n].st \in {"sent", "failed"}
          BY <4>3, <4>4 DEF Known
        <4>5. CASE query[n].st = "idle"
          <5>1. n # no
            BY <3>5, <4>5 DEF Restarted
          <5> QED
            BY <1>1, <4>2, <4>3, <4>5, <5>1 DEF Known
        <4>6. CASE query[n].st = "served"
          <5>1. l[2] # w.id
            BY <1>1, <3>1, <3>5, <4>6 DEF Overlooked
          <5>2. l \in query[n].covers
            BY <2>1, <3>4, <3>5, <4>6, <5>1 DEF Known
          <5> QED
            BY <4>3, <4>6, <5>2 DEF Known
        <4> QED
          BY <3>2, <4>4, <4>5, <4>6
      <3> QED
        BY <3>3, <3>4, <3>5
    <2> QED
      BY <1>1, <1>3, <2>1 DEF Lagging
  <1> QED
    BY <1>4, <1>5

LEMMA LaggingStep ==
  ASSUME Typed, Ids, Lagging, [Next]_vars
  PROVE  Lagging'
  <1>1. CASE UNCHANGED vars
    BY <1>1, LaggingSame DEF vars
  <1>2. CASE Close \/ SaveRefused \/ CancelDelete
    BY <1>2, LaggingSame DEF Close, SaveRefused, CancelDelete
  <1>3. CASE OpenCreate
    <2>1. ~crashed
      BY <1>3 DEF OpenCreate, Free, Uncovered
    <2> QED
      BY <1>3, <2>1, LaggingSame DEF OpenCreate, Opened
  <1>4. ASSUME NEW f \in Field, NEW v \in Value, Type(f, v) PROVE Lagging'
    BY <1>4, LaggingSame DEF Type
  <1>10. CASE FailedNextDoor
    BY <1>10, LaggingSame DEF FailedNextDoor
  <1>11. ASSUME NEW r \in Row, OpenEdit(r) PROVE Lagging'
    <2>1. ~crashed
      BY <1>11 DEF OpenEdit, Free, Uncovered
    <2> QED
      BY <1>11, <2>1, LaggingSame DEF OpenEdit, Opened
  <1>5. ASSUME NEW r \in Row, OpenReset(r) \/ AskDelete(r) \/ Elsewhere(r) PROVE Lagging'
    BY <1>5, LaggingSame DEF OpenReset, AskDelete, Elsewhere
  <1>6. ASSUME UNCHANGED <<page, lag, query, no, crashed>>, work' # work
        PROVE  Lagging'
    <2>1. Adds
      BY <1>6, WriteSteps DEF Turns, Answers
    <2> QED
      BY <1>6, <2>1, LaggingAdds
  <1>7. ASSUME Work PROVE work' # work
    BY <1>7, PagesAssumption DEF Work, Typed
  <1>8. CASE Save \/ ConfirmDelete
    BY <1>6, <1>7, <1>8 DEF Save, ConfirmDelete, Request
  <1>9. ASSUME NEW r \in Row, Acknowledge(r) PROVE Lagging'
    BY <1>6, <1>7, <1>9 DEF Acknowledge, Request
  <1> QED
    BY <1>1, <1>2, <1>3, <1>4, <1>5, <1>8, <1>9, <1>10, <1>11, Steps, LaggingGoPage, LaggingFetch,
       LaggingLands, LaggingRefocus, LaggingServe, LaggingFail, LaggingDone DEF Opens
-----------------------------------------------------------------------------
(* The theorems *)

IInv == Typed /\ Ids /\ Edits /\ Sent /\ OneSaveAtATime /\ Births /\ Lagging

LEMMA IInvInit ==
  ASSUME Init
  PROVE  IInv
  <1>1. Typed
    BY TypedInit
  <1>2. writes = {} /\ lag = {} /\ dialog = NoDialog /\ asking = None
    BY DEF Init
  <1>3. Edits
    BY <1>2, NoDialogType DEF Edits
  <1>4. Creations = {}
    BY <1>2 DEF Creations
  <1>5. Births
    BY <1>2, <1>4, UnbornRows, FS_EmptySet DEF Births
  <1> QED
    BY <1>1, <1>2, <1>3, <1>5 DEF IInv, Ids, Sent, OneSaveAtATime, Lagging

THEOREM Invariance == Spec => []IInv
  <1>1. IInv /\ [Next]_vars => IInv'
    BY TypedStep, IdsStep, EditsStep, SentStep, SavesStep, BirthsStep, LaggingStep DEF IInv
  <1> QED
    BY <1>1, IInvInit, PTL DEF Spec

\* The page never leaves its types: in particular the row that a dialog edits,
\* or a request names, is one that the list has shown.
THEOREM TypesHold == Spec => []TypeOK
  <1>1. ASSUME IInv PROVE TypeOK
    <2>1. Typed /\ Sent
      BY <1>1 DEF IInv
    <2>2. ASSUME NEW n \in PageNo
          PROVE  /\ query[n].st \in {"idle", "sent", "served", "failed"}
                 /\ query[n].has \in BOOLEAN /\ query[n].stale \in BOOLEAN
                 /\ DOMAIN query[n].data.rows \subseteq Row
                 /\ ~query[n].has => query[n].data = NoList
                 /\ query[n].covers \subseteq PageNo \X Id
      <3>1. query[n].data.rows \in UNION {[S -> Content] : S \in SUBSET Row}
        BY <2>1, QueryType DEF Lists
      <3>2. PICK S \in SUBSET Row : query[n].data.rows \in [S -> Content]
        BY <3>1
      <3> QED
        BY <2>1, <3>2, QueryType
    <2>3. /\ dialog.open \in {"none"} \cup page.opens /\ dialog.row \in Row \cup {None}
          /\ dialog.form \in Content /\ dialog.typed \subseteq Field
      <3>1. dialog \in Dialogs
        BY <2>1 DEF Typed
      <3> QED
        BY <3>1 DEF Dialogs
    <2>4. ASSUME NEW w \in writes
          PROVE  /\ w.id \in Id /\ w.op \in Op /\ w.row \in Row \cup {None}
                 /\ w.st \in {"sent", "done", "text", "list"} /\ w.body \in Content
                 /\ w.op # "create" /\ w.st = "sent" => w.row # None
      BY <2>1 DEF Typed, Writes, Sent
    <2> QED
      BY <2>1, <2>2, <2>3, <2>4 DEF Typed, TypeOK
  <1> QED
    BY <1>1, Invariance, PTL

\* A list that is shown, or may be shown without being fetched, has all of the
\* browser's own answered changes, but for the fetches that onSuccess does not
\* cancel: those of pages that are not shown and the first one of a page that is
\* (Overlooked).
THEOREM ListsCatchUp == Spec => []OwnWritesShown
  <1>1. ASSUME IInv PROVE OwnWritesShown
    <2>1. ASSUME NEW l \in lag, \A w \in writes : w.id # l[2]
          PROVE  Known(l)
      BY <1>1, <2>1 DEF IInv, Lagging
    <2> QED
      BY <2>1 DEF OwnWritesShown, Known
  <1> QED
    BY <1>1, Invariance, PTL

\* A save changes the row whose pencil was clicked, and of it what was typed and
\* the blanks that its form fills; a creation changes no row that is there.
THEOREM SavesWhatWasSeen == Spec => SavedAsSeen
  <1> DEFINE Seen(w) ==
        /\ \A r \in There : rows'[r] # rows[r] => r = w.asked
        /\ (w.op = "update" /\ rows[w.row] = w.base) =>
             \A f \in Field : rows'[w.row][f] # rows[w.row][f] =>
               \/ f \in w.typed
               \/ page.fills /\ rows[w.row][f] = "blank" /\ rows'[w.row][f] = "default"
  <1>1. ASSUME IInv, [Next]_vars, NEW w \in writes,
               w.op \in {"create", "update"}, w \notin writes', rows' # rows
        PROVE  Seen(w)
    <2>1. Typed /\ Sent /\ Births /\ rows \in [Row -> Content \cup {Absent, Gone}]
      BY <1>1 DEF IInv, Typed
    <2>2. CASE \E r \in Row : Elsewhere(r)
      BY <1>1, <2>2 DEF Elsewhere
    <2>3. ASSUME NEW v \in writes, v.st = "sent", Accepted(v), Turn(v, "done"), rows' = Written(v)
          PROVE  Seen(w)
      <3>1. v = w
        BY <1>1, <2>3 DEF Turn
      <3>2. CASE w.op = "create"
        <4>1. rows' = [rows EXCEPT ![Min(Unborn)] = w.body]
          BY <2>3, <3>1, <3>2 DEF Written
        <4>2. Min(Unborn) \in Unborn
          BY <2>1, <2>3, <3>1, <3>2, BornRow
        <4>3. \A r \in There : r # Min(Unborn)
          BY <4>2 DEF There, Unborn
        <4>4. \A r \in There : rows'[r] = rows[r]
          BY <2>1, <4>1, <4>3 DEF There
        <4> QED
          BY <3>2, <4>4
      <3>3. CASE w.op = "update"
        <4>1. w.row = w.asked /\ Untyped(w.typed, w.body, w.base)
          BY <2>1, <2>3, <3>1, <3>3 DEF Sent
        <4>2. rows' = [rows EXCEPT ![w.row] = w.body] /\ w.row \in There
          BY <2>3, <3>1, <3>3 DEF Written, Accepted
        <4>3. w.row \in Row
          BY <4>2 DEF There
        <4>4. \A r \in There : r # w.row => rows'[r] = rows[r]
          BY <2>1, <4>2 DEF There
        <4>5. rows'[w.row] = w.body
          BY <2>1, <4>2, <4>3
        <4> QED
          BY <4>1, <4>4, <4>5 DEF Untyped
      <3> QED
        BY <1>1, <3>2, <3>3
    <2> QED
      BY <1>1, <2>1, <2>2, <2>3, RowSteps
  <1>2. ASSUME IInv, [Next]_vars
        PROVE  [\A w \in writes :
                  w.op \in {"create", "update"} /\ w \notin writes' /\ rows' # rows =>
                    Seen(w)]_vars
    BY <1>1, <1>2
  <1> QED
    BY <1>2, Invariance, PTL DEF Spec, SavedAsSeen

\* No form is sent again, and no edit can overtake another, before the first is
\* answered: on every page, however dialogs are closed and opened meanwhile.
THEOREM OneSave == Spec => []OneSaveAtATime
  <1>1. IInv => OneSaveAtATime
    BY DEF IInv
  <1> QED
    BY <1>1, Invariance, PTL

=============================================================================
