--------------------------- MODULE DashboardLayout ---------------------------
(***************************************************************************)
(* The dashboard of the web interface: the layout the page shows, the       *)
(* editing of it, and the document that keeps it for each administrator.    *)
(* The service that holds the layout is made when the first administrator   *)
(* of a page signs in and lives as long as the page; the dashboard itself   *)
(* is opened and left any number of times.  The stored layout is asked for  *)
(* once, and the answer, like that to every write, comes when it comes.     *)
(*                                                                         *)
(* A widget is dragged and resized in steps, and other things happen between *)
(* them: the pointer is captured, but keys and other fingers are not, and a  *)
(* pointer may be taken away without an end.  No widget type is pinned.  A   *)
(* document is stored whole: the other settings in it are other keys.       *)
(***************************************************************************)
EXTENDS Integers, FiniteSets

CONSTANTS
  Admins,
  Nobody,        \* no one is signed in
  WidgetTypes,   \* the types of the registry
  OtherTypes,    \* types in documents that the registry does not know (any more)
  Ids,           \* uuid()
  Rights,        \* Admins -> the types whose requiredAction the token grants
  MinSize, MaxSize, DefaultSize,   \* WidgetTypes -> Size
  DefaultPlaces, \* defaultWidgets() but for the ids
  Kept,          \* Admins -> the documents there may be at the beginning
  Columns,       \* DASHBOARD_COLUMNS
  MaxRow,        \* rows a widget is put to: 0 .. MaxRow
  Dirs,          \* the handles of a widget: "e", "s" and "se"
  MaxEdit,       \* changes, drags and resizes begun by hand
  MaxVisit,      \* sessions, and reloads within one
  MaxPost        \* writes under way

Size     == [cols : 1 .. Columns, rows : Nat \ {0}]
Place(T) == [type : T, x : Int, y : Int, cols : Int, rows : Int]
WidgetOf(T) == [id : Ids, type : T, x : Int, y : Int, cols : Int, rows : Int]
Widget   == WidgetOf(WidgetTypes)
Layout   == SUBSET Widget
(* What a document may hold: numbers, whichever.                           *)
Document == SUBSET WidgetOf(WidgetTypes \cup OtherTypes)
(* Null, the empty set, or a value of S by itself.                         *)
IsOption(o, S) == o \subseteq S /\ \A s, t \in o : s = t

IdsOf(layout)    == {w.id : w \in layout}
Distinct(layout) == \A v, w \in layout : v.id = w.id => v = w

Overlap(v, w) ==
  /\ v.x < w.x + w.cols /\ w.x < v.x + v.cols
  /\ v.y < w.y + w.rows /\ w.y < v.y + v.rows

Collides(rect, layout) == \E other \in layout : Overlap(rect, other)

OnGrid(w) == /\ 0 <= w.x /\ 1 <= w.cols /\ w.x + w.cols <= Columns
             /\ 0 <= w.y /\ 1 <= w.rows

(* Where min(max(v, lo), hi) lies, for any v.                              *)
Clamped(lo, hi) == IF lo <= hi THEN lo .. hi ELSE {hi}
Smaller(m, n)   == IF m <= n THEN m ELSE n

ASSUME DashboardConstants ==
  /\ Nobody \notin Admins /\ WidgetTypes \cap OtherTypes = {}
  /\ Rights \in [Admins -> SUBSET WidgetTypes]
  /\ MinSize \in [WidgetTypes -> Size] /\ MaxSize \in [WidgetTypes -> Size]
  /\ DefaultSize \in [WidgetTypes -> Size]
  /\ Dirs \subseteq {"e", "s", "se"}
  /\ Columns \in Nat \ {0} /\ MaxRow \in Nat /\ MaxEdit \in Nat
  /\ MaxVisit \in Nat /\ MaxPost \in Nat
  /\ DefaultPlaces \subseteq Place(WidgetTypes)
  /\ \A v \in DefaultPlaces : OnGrid(v)
  /\ \A v, w \in DefaultPlaces : v # w => v.type # w.type /\ ~Overlap(v, w)
  /\ DOMAIN Kept = Admins
  /\ \A a \in Admins : \A k \in Kept[a] :
       IsOption(k, Document) /\ \A d \in k : Distinct(d)

VARIABLES
  user,                 \* who is signed in, or Nobody
  open,                 \* the dashboard is shown
  widgets,
  snapshot,             \* the layout editing began with; editing when it is not null
  loading,              \* whose layout was asked for, until the answer
  loaded,
  changedWhileLoading,
  posts,                \* writes under way
  stored,               \* Admins -> the document on the server or null
  edits, visits,
  dragging,             \* the widgets being dragged
  resizeState,
  resizePreview,
  (* history *)
  first,                \* Admins -> what was stored at the beginning
  company,              \* administrators who signed in on this page
  touched,              \* those on whose page a layout was saved or another signed in
  measured,             \* the preview is of the layout and the place there are now
  misjudged             \* a preview that no longer was has been applied

page == <<widgets, snapshot, loading, loaded, changedWhileLoading>>
resizing == <<resizeState, resizePreview>>
history == <<first, company, touched>>
vars == <<user, open, page, posts, stored, edits, visits, dragging, resizing, history,
          measured, misjudged>>

editMode == snapshot # {}
allowed  == IF user = Nobody THEN {} ELSE Rights[user]

Layouts   == {widgets} \cup snapshot \cup {p.layout : p \in posts}
Documents == UNION {stored[a] : a \in Admins}
Originals == UNION {first[a] : a \in Admins}

(* The ids that anything outside of the page remembers, or the page itself.  *)
IdsKept == UNION {IdsOf(d) : d \in Originals \cup Documents \cup {p.layout : p \in posts}}
IdsUsed == IdsKept \cup UNION {IdsOf(d) : d \in Layouts} \cup IdsOf(resizeState \cup resizePreview)

(* defaultWidgets(), each under a new id.                                  *)
Naming(used) ==
  {name \in [DefaultPlaces -> Ids \ used] : \A v, w \in DefaultPlaces : v # w => name[v] # name[w]}
Named(name) == {[id |-> name[v], type |-> v.type, x |-> v.x, y |-> v.y,
                 cols |-> v.cols, rows |-> v.rows] : v \in DefaultPlaces}

(* A page as it starts, with the default widgets under ids not used before.  *)
Fresh(shown, used) ==
  /\ Naming(used) # {}
  /\ shown = Named(CHOOSE name \in Naming(used) : TRUE)

Init ==
  /\ user = Nobody /\ open = FALSE
  /\ stored \in [Admins -> UNION {Kept[a] : a \in Admins}]
  /\ \A a \in Admins : stored[a] \in Kept[a]
  /\ first = stored
  /\ Fresh(widgets, UNION {IdsOf(d) : d \in Originals}) /\ snapshot = {}
  /\ loading = {} /\ loaded = FALSE /\ changedWhileLoading = FALSE
  /\ posts = {} /\ edits = 0 /\ visits = 0
  /\ dragging = {} /\ resizeState = {} /\ resizePreview = {}
  /\ company = {} /\ touched = {}
  /\ measured = FALSE /\ misjudged = FALSE

----------------------------------------------------------------------------
(* Writing the layout                                                      *)

(* persist(): a write for whoever is signed in now.                        *)
Persist(layout) ==
  /\ Cardinality(posts) < MaxPost
  /\ posts' = posts \cup {[owner |-> a, layout |-> layout] : a \in {user} \ {Nobody}}

(* Fault: what is being edited is written as well.                         *)
PersistIfLoaded(layout, editing) ==
  IF ~loaded THEN changedWhileLoading' = TRUE /\ UNCHANGED posts
  ELSE Persist(layout) /\ UNCHANGED changedWhileLoading

(* persistIfLive(), of the layout as it is after the change.               *)
PersistIfLive(layout, editing) ==
  IF editing THEN UNCHANGED <<posts, changedWhileLoading>>
  ELSE IF ~loaded THEN changedWhileLoading' = TRUE /\ UNCHANGED posts
  ELSE Persist(layout) /\ UNCHANGED changedWhileLoading

----------------------------------------------------------------------------
(* What goes with every step                                               *)

(* A widget that is no longer shown takes its drag with it, and the preview  *)
(* of a resize is out of date when the layout has changed.                  *)
PageFollows ==
  /\ dragging' = dragging \cap IdsOf(widgets')
  /\ measured' = (measured /\ widgets' = widgets)
  /\ UNCHANGED <<resizing, misjudged>>

(* The dashboard goes, and with it the gestures.                            *)
GesturesEnd ==
  /\ dragging' = {} /\ resizeState' = {} /\ resizePreview' = {}
  /\ measured' = FALSE
  /\ UNCHANGED misjudged

----------------------------------------------------------------------------
(* Editing by hand                                                         *)

Begun == edits < MaxEdit /\ edits' = edits + 1

Edited(layout) ==
  /\ widgets' = layout
  /\ PersistIfLive(layout, editMode)
  /\ UNCHANGED <<user, open, snapshot, loading, loaded, stored, visits, first, company>>

(* With the controls there are in edit mode only.                           *)
Change(layout) ==
  /\ open /\ editMode
  /\ Begun /\ Edited(layout)
  /\ PageFollows
  /\ UNCHANGED touched

Free(x, y, size) ==
  ~Collides([x |-> x, y |-> y, cols |-> size.cols, rows |-> size.rows], widgets)

(* The first free place at or below the row scrolled to.                   *)
FreeSpot(x, y, size, insertRow) ==
  /\ Free(x, y, size)
  /\ \A c \in 0 .. Columns - size.cols, r \in insertRow .. y :
       r < y \/ c < x => ~Free(c, r, size)

AddWidget(type, insertRow) ==
  LET size == DefaultSize[type] IN
  /\ type \in allowed
  /\ \A w \in widgets : w.type # type
  /\ Ids \ IdsUsed # {}
  /\ \E x \in 0 .. Columns - size.cols, y \in insertRow .. MaxRow :
       /\ FreeSpot(x, y, size, insertRow)
       /\ Change(widgets \cup {[id |-> CHOOSE id \in Ids \ IdsUsed : TRUE, type |-> type,
                                x |-> x, y |-> y, cols |-> size.cols, rows |-> size.rows]})

RemoveWidget(w) == Change(widgets \ {w})

Others(id) == {w \in widgets : w.id # id}

MovedTo(w, x, y) == [w EXCEPT !.x = x, !.y = y]

DragStart(w) ==
  /\ open /\ editMode /\ Begun
  /\ dragging' = dragging \cup {w.id}
  /\ UNCHANGED <<user, open, page, posts, stored, visits, resizing, history, measured, misjudged>>

(* onDragEnded(), which nothing keeps from coming after edit mode was left.  *)
(* The widget goes to the nearest place of the grid, unless it collides there. *)
DragEnd(w) ==
  /\ open /\ w.id \in dragging
  /\ \E x \in Clamped(0, Columns - w.cols), y \in 0 .. MaxRow :
       LET moved == MovedTo(w, x, y) IN
       IF Collides(moved, Others(w.id))
       THEN UNCHANGED <<user, open, page, posts, stored, visits, history, measured>>
       ELSE /\ Edited(Others(w.id) \cup {moved})
            /\ touched' = (IF editMode THEN touched ELSE touched \cup company)
            /\ measured' = (measured /\ widgets' = widgets)
  /\ dragging' = dragging \ {w.id}
  /\ UNCHANGED <<edits, resizing, misjudged>>

(* The three handles of every widget, there in edit mode only.              *)
Handles == open /\ editMode /\ widgets # {}

(* An older preview stays.                                                 *)
ResizeStart(w, dir) ==
  /\ Handles /\ Begun
  /\ resizeState' = {[id |-> w.id, dir |-> dir, x |-> w.x, y |-> w.y,
                      cols |-> w.cols, rows |-> w.rows]}
  /\ UNCHANGED <<user, open, page, posts, stored, visits, dragging, resizePreview, history,
                 measured, misjudged>>

(* The pointer moves over a handle, pressed or not: the size it points to, and *)
(* whether the widget would collide with it where the resize began.          *)
ResizeMove(w) ==
  /\ Handles
  /\ \E state \in resizeState :
       /\ w.id = state.id
       /\ \E cols \in IF state.dir = "s" THEN {state.cols}
                      ELSE Clamped(MinSize[w.type].cols,
                                   Smaller(MaxSize[w.type].cols, Columns - w.x)),
             rows \in IF state.dir = "e" THEN {state.rows}
                      ELSE Clamped(MinSize[w.type].rows, MaxSize[w.type].rows) :
            LET target == [x |-> state.x, y |-> state.y, cols |-> cols, rows |-> rows] IN
            resizePreview' = {[id |-> w.id, cols |-> cols, rows |-> rows,
                               valid |-> ~Collides(target, Others(w.id))]}
       /\ measured' = (w.x = state.x /\ w.y = state.y)
  /\ UNCHANGED <<user, open, page, posts, stored, edits, visits, dragging, resizeState, history,
                 misjudged>>

Resized(w, p) == [w EXCEPT !.cols = p.cols, !.rows = p.rows]
WithResized(p) == {IF w.id = p.id THEN Resized(w, p) ELSE w : w \in widgets}

(* Fault: the preview is taken whatever it says.                            *)
ApplyAnyhow(p) == Edited(WithResized(p))

Apply(p) == p.valid /\ Edited(WithResized(p))

(* The pointer is released over a handle, pressed there or not: what was last *)
(* shown is done, without another look.                                     *)
ResizeEnd ==
  /\ Handles /\ resizeState \cup resizePreview # {}
  /\ resizeState' = {} /\ resizePreview' = {} /\ measured' = FALSE
  /\ \/ /\ \E p \in resizePreview : Apply(p)
        /\ misjudged' = (misjudged \/ ~measured)
     \/ /\ \A p \in resizePreview : ~p.valid
        /\ UNCHANGED <<user, open, page, posts, stored, visits, first, company, misjudged>>
  /\ UNCHANGED <<edits, dragging, touched>>

BeginEdit ==
  /\ open /\ ~editMode
  /\ snapshot' = {widgets}
  /\ UNCHANGED <<user, open, widgets, loading, loaded, changedWhileLoading, posts, stored,
                 edits, visits, history>>
  /\ PageFollows

SaveEdit ==
  /\ open /\ editMode
  /\ snapshot' = {}
  /\ PersistIfLive(widgets, FALSE)
  /\ touched' = touched \cup company
  /\ UNCHANGED <<user, open, widgets, loading, loaded, stored, edits, visits, first, company>>
  /\ PageFollows

(* cancelEdit(): nothing happens to the layout outside of edit mode.       *)
Cancelled ==
  /\ widgets' = (IF editMode THEN CHOOSE s \in snapshot : TRUE ELSE widgets)
  /\ snapshot' = {}
  /\ UNCHANGED <<loading, loaded, changedWhileLoading>>

CancelEdit ==
  /\ open /\ editMode
  /\ Cancelled
  /\ UNCHANGED <<user, open, posts, stored, edits, visits, history>>
  /\ PageFollows

hasPendingChanges == editMode /\ snapshot # {widgets}

----------------------------------------------------------------------------
(* The page                                                                *)

(* The dashboard is opened: widgets the administrator has no right to are   *)
(* taken away, and where there were any the rest is written.               *)
OpenDashboard ==
  LET rest == {w \in widgets : w.type \in allowed} IN
  /\ user # Nobody /\ ~open
  /\ open' = TRUE
  /\ widgets' = rest
  /\ PageFollows
  /\ IF rest = widgets THEN UNCHANGED <<posts, changedWhileLoading>>
                       ELSE PersistIfLive(rest, editMode)
  /\ UNCHANGED <<user, snapshot, loading, loaded, stored, edits, visits, history>>

(* The dashboard is left, after the question whether to discard where there *)
(* is something to: what is being edited is given up.                       *)
CloseDashboard ==
  /\ open /\ open' = FALSE
  /\ Cancelled
  /\ GesturesEnd
  /\ UNCHANGED <<user, posts, stored, edits, visits, history>>

Visit == visits < MaxVisit /\ visits' = visits + 1

(* Fault: every session asks for its layout again.                         *)
SignInAsksAgain(a) ==
  /\ user = Nobody /\ ~open /\ Visit
  /\ user' = a /\ loading' = {a}
  /\ company' = company \cup {a}
  /\ touched' = (IF company \subseteq {a} THEN touched ELSE touched \cup company \cup {a})
  /\ UNCHANGED <<open, widgets, snapshot, loaded, changedWhileLoading, posts, stored, edits, first>>
  /\ PageFollows

(* The layout service is made with the page's first session and kept.      *)
SignIn(a) ==
  /\ user = Nobody /\ ~open /\ Visit
  /\ user' = a
  /\ loading' = (IF loaded THEN {} ELSE IF loading = {} THEN {a} ELSE loading)
  /\ company' = company \cup {a}
  /\ touched' = (IF company \subseteq {a} THEN touched ELSE touched \cup company \cup {a})
  /\ UNCHANGED <<open, widgets, snapshot, loaded, changedWhileLoading, posts, stored, edits, first>>
  /\ PageFollows

(* The session ends at once; a dashboard with pending changes stays until    *)
(* the question is answered.                                                *)
SignOut ==
  /\ user # Nobody /\ user' = Nobody
  /\ IF hasPendingChanges THEN UNCHANGED <<open, page>> /\ PageFollows
                          ELSE open' = FALSE /\ Cancelled /\ GesturesEnd
  /\ UNCHANGED <<posts, stored, edits, visits, history>>

(* A new page, in the session of the old one if there is one.               *)
Reload ==
  /\ IF user = Nobody THEN UNCHANGED visits ELSE Visit
  /\ open' = FALSE
  /\ Fresh(widgets', IdsKept) /\ snapshot' = {}
  /\ GesturesEnd
  /\ loading' = {user} \ {Nobody} /\ company' = {user} \ {Nobody}
  /\ loaded' = FALSE /\ changedWhileLoading' = FALSE
  /\ UNCHANGED <<user, posts, stored, edits, first, touched>>

----------------------------------------------------------------------------
(* The answers                                                             *)

(* What readWidgets() and reconcilePinned() leave of a document.           *)
Known(layout) == {w \in layout : w.type \in WidgetTypes}

(* The answer to the question for the stored layout; ok is FALSE where it is *)
(* an error, which counts as nothing stored.                               *)
LoadAnswered(a, ok) ==
  /\ a \in loading
  /\ loading' = {} /\ loaded' = TRUE
  /\ IF changedWhileLoading
     THEN Persist(widgets) /\ UNCHANGED widgets
     ELSE /\ widgets' = (IF ok /\ stored[a] # {}
                         THEN Known(CHOOSE s \in stored[a] : TRUE) ELSE widgets)
          /\ UNCHANGED posts
  /\ UNCHANGED <<user, open, snapshot, changedWhileLoading, stored, edits, visits, history>>
  /\ PageFollows

PostArrives(p) ==
  /\ p \in posts
  /\ posts' = posts \ {p}
  /\ stored' = [stored EXCEPT ![p.owner] = {p.layout}]
  /\ UNCHANGED <<user, open, page, edits, visits, history>>
  /\ PageFollows

(* The error is swallowed.                                                 *)
PostFails(p) ==
  /\ p \in posts
  /\ posts' = posts \ {p}
  /\ UNCHANGED <<user, open, page, stored, edits, visits, history>>
  /\ PageFollows

Next ==
  \/ \E t \in WidgetTypes, row \in 0 .. MaxRow : AddWidget(t, row)
  \/ \E w \in widgets : RemoveWidget(w)
  \/ \E w \in widgets : DragStart(w) \/ DragEnd(w)
  \/ \E w \in widgets, dir \in Dirs : ResizeStart(w, dir)
  \/ \E w \in widgets : ResizeMove(w)
  \/ ResizeEnd
  \/ BeginEdit \/ SaveEdit \/ CancelEdit
  \/ OpenDashboard \/ CloseDashboard
  \/ \E a \in Admins : SignIn(a)
  \/ SignOut \/ Reload
  \/ \E a \in Admins, ok \in BOOLEAN : LoadAnswered(a, ok)
  \/ \E p \in posts : PostArrives(p) \/ PostFails(p)

Spec == Init /\ [][Next]_vars

----------------------------------------------------------------------------
(* Properties                                                              *)

Post == [owner : Admins, layout : Layout]
ResizeState == [id : Ids, dir : Dirs, x : Int, y : Int, cols : Int, rows : Int]
ResizePreview == [id : Ids, cols : Int, rows : Int, valid : BOOLEAN]

(* The page's state and the documents have the forms the code gives them:   *)
(* the stored layout is asked for once, and whatever a document holds, the   *)
(* page shows and writes types of the registry only, one widget to an id.   *)
TypeOK ==
  /\ user \in Admins \cup {Nobody} /\ open \in BOOLEAN
  /\ widgets \in Layout /\ IsOption(snapshot, Layout)
  /\ IsOption(loading, Admins) /\ loaded \in BOOLEAN /\ changedWhileLoading \in BOOLEAN
  /\ posts \subseteq Post
  /\ DOMAIN stored = Admins /\ \A a \in Admins : IsOption(stored[a], Document)
  /\ edits \in 0 .. MaxEdit /\ visits \in 0 .. MaxVisit
  /\ dragging \subseteq IdsOf(widgets)
  /\ IsOption(resizeState, ResizeState) /\ IsOption(resizePreview, ResizePreview)
  /\ DOMAIN first = Admins /\ \A a \in Admins : IsOption(first[a], Document)
  /\ company \subseteq Admins /\ touched \subseteq Admins
  /\ measured \in BOOLEAN /\ misjudged \in BOOLEAN
  /\ \A layout \in Layouts \cup Documents : Distinct(layout)
  /\ loaded => loading = {}

(* What is wrong with a layout was so in a document of the beginning.        *)
OldTwins(v, w)   == \E d \in Originals : \E t, u \in d :
                      t.id = v.id /\ u.id = w.id /\ t.type = u.type
OldOverlap(v, w) == \E d \in Originals : v \in d /\ w \in d
OldOffGrid(w)    == \E d \in Originals : \E u \in d : u.id = w.id /\ ~OnGrid(u)

WellBuilt(layout) ==
  /\ \A v, w \in layout : v # w /\ v.type = w.type => OldTwins(v, w)
  /\ ~misjudged =>
       /\ \A v, w \in layout : v # w /\ Overlap(v, w) => OldOverlap(v, w)
       /\ \A w \in layout : ~OnGrid(w) => OldOffGrid(w)

(* Nothing the page does puts one widget over another, out of the grid or    *)
(* there twice, in what it shows, goes back to, writes or has stored: not by  *)
(* adding, by drags and resizes in steps with others and the answers between, *)
(* by giving up or by the rights of another.  Widgets that overlap did so in  *)
(* a stored document and were not touched since; one that leaves the grid or  *)
(* is there twice was or did so there under its id.  The one exception is     *)
(* a resize whose preview was of another layout than the one it is applied to *)
(* (dashboard-layout.service.ts findFreeSpot, dashboard.component.ts          *)
(* onDragEnded, onResizeMove, onResizeEnd).                                 *)
WellPlaced == \A layout \in Layouts \cup Documents : WellBuilt(layout)

(* The administrator saved nothing, ended no drag after she had left edit mode *)
(* and shared no page with another.                                        *)
Untouched(a) == a \notin touched

(* An administrator who may see every widget keeps her document until she    *)
(* saves one: whatever she tries and gives up, reloads or leaves, and however *)
(* late or wrong the answers come (persistIfLive, loadLayout).               *)
OnlySavesChange ==
  \A a \in Admins : Untouched(a) /\ Rights[a] = WidgetTypes => stored[a] = first[a]

(* What an administrator placed and may see is still in her document when    *)
(* she only opened the dashboard: "Writing the default layout before the      *)
(* stored one arrived would overwrite it" (dashboard-layout.service.ts:190). *)
PlacedIsKept ==
  \A a \in Admins : Untouched(a) =>
    \A was \in first[a] :
      \E is \in stored[a] : {w \in was : w.type \in Rights[a]} \subseteq is
=============================================================================
