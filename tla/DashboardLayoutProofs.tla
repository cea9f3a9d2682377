------------------------ MODULE DashboardLayoutProofs ------------------------
(***************************************************************************)
(* Theorems about DashboardLayout, for any administrators, widget types,    *)
(* rights, sizes and documents.                                            *)
(*                                                                         *)
(* That nothing is written for an administrator who saved nothing needs to   *)
(* know why: a change made while the layout was asked for is remembered only  *)
(* where someone of the page saved or lacks a right, and two on one page are  *)
(* both counted as having met another (OwnPage).                           *)
(*                                                                         *)
(* That layouts stay well placed needs to know what a resize remembers: where *)
(* it began the widget was within the grid, and a preview that is of the      *)
(* layout as it is may be applied to it (Judged).                           *)
(***************************************************************************)
EXTENDS DashboardLayout, TLAPS

Full(a) == Rights[a] = WidgetTypes

\* What keeps the page of an administrator who touched nothing from writing.
OwnPage ==
  /\ user # Nobody => user \in company
  /\ company = {} => ~open /\ ~changedWhileLoading
  /\ \A a, b \in company : a # b => a \in touched
  /\ \A a \in Admins : Untouched(a) /\ Full(a) =>
       /\ stored[a] = first[a]
       /\ \A p \in posts : p.owner # a
       /\ a \in company => ~changedWhileLoading

\* The widget may be given the size of the preview.
Fits(w, p) ==
  /\ ~Collides(Resized(w, p), Others(p.id))
  /\ OnGrid(Resized(w, p)) \/ OldOffGrid(Resized(w, p))

\* What a resize remembers of the widget, and the preview while nothing changed.
Judged ==
  ~misjudged =>
    /\ \A state \in resizeState : OnGrid(state) \/ OldOffGrid(state)
    /\ measured => \A p \in resizePreview : p.valid =>
         \A w \in widgets : w.id = p.id => Fits(w, p)

Inv == TypeOK /\ WellPlaced /\ OwnPage /\ Judged

\* The types of what belongs to gestures.
GestureTypes ==
  /\ dragging \subseteq IdsOf(widgets)
  /\ IsOption(resizeState, ResizeState) /\ IsOption(resizePreview, ResizePreview)
  /\ measured \in BOOLEAN /\ misjudged \in BOOLEAN

\* The documents, and what is shown, staged or under way, have an id to a widget.
Separate == \A layout \in Layouts \cup Documents : Distinct(layout)

----------------------------------------------------------------------------
(* Layouts                                                                 *)

\* Taking widgets away leaves a layout as well built as it was.
LEMMA BuiltSubset ==
  ASSUME NEW layout, WellBuilt(layout), Distinct(layout), NEW sub, sub \subseteq layout
  PROVE  WellBuilt(sub) /\ Distinct(sub)
BY DEF WellBuilt, Distinct

\* A widget under a new id, of another type, that collides with nothing.
LEMMA BuiltAdd ==
  ASSUME NEW layout \in Layout, WellBuilt(layout), Distinct(layout), NEW w \in Widget,
         \A v \in layout : v.id # w.id,
         \A v \in layout : v.type # w.type \/ (OldTwins(v, w) /\ OldTwins(w, v)),
         ~misjudged => ~Collides(w, layout) /\ (OnGrid(w) \/ OldOffGrid(w))
  PROVE  /\ layout \cup {w} \in Layout
         /\ WellBuilt(layout \cup {w}) /\ Distinct(layout \cup {w})
<1>1. layout \cup {w} \in Layout
  BY DEF Layout
<1>2. ~misjudged => \A v \in layout : ~Overlap(v, w) /\ ~Overlap(w, v)
  BY DEF Collides, Overlap
<1>3. Distinct(layout \cup {w})
  BY DEF Distinct
<1>4. \A u, v \in layout \cup {w} : u # v /\ u.type = v.type => OldTwins(u, v)
  BY DEF WellBuilt
<1>5. ~misjudged => \A u, v \in layout \cup {w} : u # v /\ Overlap(u, v) => OldOverlap(u, v)
  BY <1>2 DEF WellBuilt
<1>6. ~misjudged => \A v \in layout \cup {w} : ~OnGrid(v) => OldOffGrid(v)
  BY DEF WellBuilt
<1> QED
  BY <1>1, <1>3, <1>4, <1>5, <1>6 DEF WellBuilt

\* The default widgets, under ids of their own.
LEMMA NamedIsBuilt ==
  ASSUME NEW used, NEW name \in Naming(used)
  PROVE  Named(name) \in Layout /\ WellBuilt(Named(name)) /\ Distinct(Named(name))
<1> USE DashboardConstants
<1> DEFINE At(v) == [id |-> name[v], type |-> v.type, x |-> v.x, y |-> v.y,
                     cols |-> v.cols, rows |-> v.rows]
<1>1. \A v \in DefaultPlaces : name[v] \in Ids
  BY DEF Naming
<1>2. \A v \in DefaultPlaces : At(v) \in Widget
  BY <1>1 DEF Place, Widget, WidgetOf
<1>3. Named(name) \in Layout
  BY <1>2 DEF Named, Layout
<1>4. Distinct(Named(name))
  <2> SUFFICES ASSUME NEW v \in DefaultPlaces, NEW w \in DefaultPlaces, At(v).id = At(w).id
               PROVE  At(v) = At(w)
    BY DEF Distinct, Named
  <2> QED
    BY DEF Naming
<1>5. \A v, w \in DefaultPlaces : v # w => At(v).type # At(w).type /\ ~Overlap(At(v), At(w))
  BY DEF Overlap
<1>6. \A v \in DefaultPlaces : OnGrid(At(v))
  BY DEF OnGrid
<1> HIDE DEF At
<1>7. Named(name) = {At(v) : v \in DefaultPlaces}
  BY DEF Named, At
<1>8. WellBuilt(Named(name))
  <2>1. \A v, w \in Named(name) : v # w => v.type # w.type /\ ~Overlap(v, w)
    BY <1>5, <1>7
  <2>2. \A w \in Named(name) : OnGrid(w)
    BY <1>6, <1>7
  <2> QED
    BY <2>1, <2>2 DEF WellBuilt
<1> QED
  BY <1>3, <1>4, <1>8

\* Every layout there is after a step was there before or is well built.
LEMMA StillPlaced ==
  ASSUME TypeOK, WellPlaced, first' = first, misjudged => misjudged',
         \A layout \in (Layouts \cup Documents)' :
           layout \in Layouts \cup Documents \/ (WellBuilt(layout)' /\ Distinct(layout))
  PROVE  WellPlaced' /\ Separate'
<1>1. ASSUME NEW layout, WellBuilt(layout)
      PROVE  WellBuilt(layout)'
  BY <1>1 DEF WellBuilt, OldTwins, OldOverlap, OldOffGrid, Originals
<1>2. ASSUME NEW layout \in (Layouts \cup Documents)'
      PROVE  WellBuilt(layout)' /\ Distinct(layout)
  <2>1. CASE layout \in Layouts \cup Documents
    BY <1>1, <2>1 DEF WellPlaced, TypeOK
  <2>2. CASE WellBuilt(layout)' /\ Distinct(layout)
    BY <2>2
  <2> QED
    BY <1>2, <2>1, <2>2
<1> QED
  BY <1>2 DEF WellPlaced, Separate, Distinct

----------------------------------------------------------------------------
(* Gestures                                                                *)

\* A preview that is still called measured is of the same layout.
LEMMA JudgedStays ==
  ASSUME Judged, UNCHANGED <<resizeState, resizePreview, misjudged, first>>,
         measured' => measured /\ widgets' = widgets
  PROVE  Judged'
<1>1. \A state : OldOffGrid(state)' = OldOffGrid(state)
  BY DEF OldOffGrid, Originals
<1>2. widgets' = widgets => \A w, p : Fits(w, p)' = Fits(w, p)
  BY <1>1 DEF Fits, Others
<1> QED
  BY <1>1, <1>2 DEF Judged

LEMMA Followed ==
  ASSUME TypeOK, Judged, PageFollows, first' = first
  PROVE  GestureTypes' /\ Judged' /\ misjudged' = misjudged
<1>1. GestureTypes'
  BY DEF TypeOK, GestureTypes, PageFollows, resizing, IsOption, IdsOf
<1>2. UNCHANGED <<misjudged, resizeState, resizePreview>>
  BY DEF PageFollows, resizing
<1>3. measured' => measured /\ widgets' = widgets
  BY DEF PageFollows, TypeOK
<1> QED
  BY <1>1, <1>2, <1>3, JudgedStays

LEMMA Ended ==
  ASSUME TypeOK, GesturesEnd
  PROVE  GestureTypes' /\ Judged' /\ misjudged' = misjudged
<1>1. GestureTypes'
  BY DEF TypeOK, GestureTypes, GesturesEnd, IsOption
<1> QED
  BY <1>1 DEF Judged, GesturesEnd

----------------------------------------------------------------------------
(* Writing                                                                 *)

\* A write is of the layout, for the one who is signed in.
LEMMA PersistWrites ==
  ASSUME TypeOK, NEW layout \in Layout, Persist(layout)
  PROVE  /\ posts' \subseteq Post
         /\ \A p \in posts' : p \in posts \/ p.layout = layout
         /\ \A p \in posts' \ posts : p.owner = user /\ user # Nobody
<1> DEFINE new == {[owner |-> a, layout |-> layout] : a \in {user} \ {Nobody}}
<1>1. posts' = posts \cup new
  BY DEF Persist
<1>2. \A p \in new : /\ p \in Post /\ p.layout = layout
                     /\ p.owner = user /\ user # Nobody
  BY DEF Post, TypeOK
<1> QED
  BY <1>1, <1>2 DEF TypeOK

\* Before the answer a change is remembered, afterwards it is written.
LEMMA PersistIfLiveWrites ==
  ASSUME TypeOK, NEW layout \in Layout, NEW editing \in BOOLEAN,
         PersistIfLive(layout, editing)
  PROVE  /\ posts' \subseteq Post
         /\ \A p \in posts' : p \in posts \/ p.layout = layout
         /\ \A p \in posts' \ posts : p.owner = user /\ user # Nobody
         /\ changedWhileLoading' \in BOOLEAN
         /\ editing => UNCHANGED <<posts, changedWhileLoading>>
<1>1. CASE Persist(layout) /\ UNCHANGED changedWhileLoading /\ ~editing
  BY <1>1, PersistWrites DEF TypeOK
<1>2. CASE UNCHANGED posts /\ changedWhileLoading' \in BOOLEAN
           /\ (editing => UNCHANGED changedWhileLoading)
  BY <1>2 DEF TypeOK
<1> QED
  BY <1>1, <1>2 DEF PersistIfLive, TypeOK

\* After a step whose only new layout is the one shown and perhaps written.
LEMMA OneNewLayout ==
  ASSUME TypeOK, WellPlaced, first' = first, misjudged => misjudged',
         snapshot' \subseteq snapshot \cup {widgets}, Documents' \subseteq Documents,
         widgets' \in Layouts \cup Documents \/ (WellBuilt(widgets)' /\ Distinct(widgets)'),
         \A p \in posts' : p \in posts \/ p.layout = widgets'
  PROVE  WellPlaced' /\ Separate'
<1>1. ASSUME NEW layout \in (Layouts \cup Documents)'
      PROVE  layout \in Layouts \cup Documents \/ (WellBuilt(layout)' /\ Distinct(layout))
  <2>1. CASE layout = widgets'
    BY <2>1
  <2>2. CASE layout \in snapshot' \/ layout \in Documents'
    BY <2>2 DEF Layouts
  <2>3. CASE \E p \in posts' : layout = p.layout
    BY <2>3 DEF Layouts
  <2> QED
    BY <1>1, <2>1, <2>2, <2>3 DEF Layouts
<1> QED
  BY <1>1, StillPlaced

----------------------------------------------------------------------------
(* Each action keeps the invariant                                         *)

LEMMA Shown ==
  ASSUME TypeOK, WellPlaced
  PROVE  widgets \in Layout /\ WellBuilt(widgets) /\ Distinct(widgets)
BY DEF TypeOK, WellPlaced, Layouts

\* What was well built is, when it is shown after the step.
LEMMA BuiltStays ==
  ASSUME NEW layout, WellBuilt(layout), Distinct(layout), widgets' = layout,
         first' = first, misjudged => misjudged'
  PROVE  WellBuilt(widgets)' /\ Distinct(widgets)'
BY DEF WellBuilt, OldTwins, OldOverlap, OldOffGrid, Originals, Distinct

\* A step that may show another layout, which it may stage or write.
LEMMA PageStep ==
  ASSUME TypeOK, WellPlaced,
         widgets' \in Layout, WellBuilt(widgets)', Distinct(widgets)',
         snapshot' \in {snapshot, {}, {widgets}},
         posts' \subseteq Post, \A p \in posts' : p \in posts \/ p.layout = widgets',
         UNCHANGED <<stored, first>>, misjudged => misjudged', GestureTypes',
         user' \in Admins \cup {Nobody}, open' \in BOOLEAN,
         IsOption(loading', Admins), loaded' \in BOOLEAN, loaded' => loading' = {},
         changedWhileLoading' \in BOOLEAN,
         edits' \in 0 .. MaxEdit, visits' \in 0 .. MaxVisit,
         company' \subseteq Admins, touched' \subseteq Admins
  PROVE  TypeOK' /\ WellPlaced'
<1>1. snapshot' \subseteq snapshot \cup {widgets} /\ Documents' \subseteq Documents
  BY DEF Documents
<1>2. WellPlaced' /\ Separate'
  BY <1>1, OneNewLayout
<1>3. IsOption(snapshot', Layout)
  BY DEF TypeOK, IsOption
<1>4. TypeOK'
  BY <1>2, <1>3 DEF TypeOK, Separate, GestureTypes
<1> QED
  BY <1>2, <1>4

LEMMA ChangeKeeps ==
  ASSUME Inv, NEW layout \in Layout, WellBuilt(layout), Distinct(layout), Change(layout)
  PROVE  Inv'
<1> USE DashboardConstants
<1>1. /\ UNCHANGED <<posts, changedWhileLoading, user, open, snapshot, loading, loaded,
                     stored, visits, history>>
      /\ widgets' = layout /\ PageFollows /\ edits' \in 0 .. MaxEdit
  BY DEF Change, Edited, PersistIfLive, Begun, Inv, TypeOK, history
<1>2. GestureTypes' /\ Judged' /\ misjudged' = misjudged
  BY <1>1, Followed DEF Inv, history
<1>3. WellBuilt(widgets)' /\ Distinct(widgets)'
  BY <1>1, <1>2, BuiltStays DEF history
<1>4. TypeOK' /\ WellPlaced'
  BY <1>1, <1>2, <1>3, PageStep DEF Inv, TypeOK, history
<1>5. OwnPage'
  BY <1>1 DEF Inv, OwnPage, Untouched, Full, history
<1> QED
  BY <1>2, <1>4, <1>5 DEF Inv

LEMMA AddKeeps ==
  ASSUME Inv, NEW type \in WidgetTypes, NEW row \in 0 .. MaxRow, AddWidget(type, row)
  PROVE  Inv'
<1> USE DashboardConstants
<1> DEFINE size == DefaultSize[type]
           id == CHOOSE id \in Ids \ IdsUsed : TRUE
           New(x, y) == [id |-> id, type |-> type, x |-> x, y |-> y,
                         cols |-> size.cols, rows |-> size.rows]
<1>1. size \in Size
  OBVIOUS
<1>2. PICK x \in 0 .. Columns - size.cols, y \in row .. MaxRow :
        FreeSpot(x, y, size, row) /\ Change(widgets \cup {New(x, y)})
  BY DEF AddWidget
<1>3. id \in Ids \ IdsUsed
  BY DEF AddWidget
<1>4. \A v \in widgets : v.id # id
  <2>1. IdsOf(widgets) \subseteq IdsUsed
    BY DEF IdsUsed, Layouts
  <2>2. \A v \in widgets : v.id \in IdsOf(widgets)
    BY DEF IdsOf
  <2> QED
    BY <1>3, <2>1, <2>2
<1> HIDE DEF id
<1>5. New(x, y) \in Widget /\ OnGrid(New(x, y))
  BY <1>1, <1>3 DEF Widget, WidgetOf, Size, OnGrid
<1>6. ~Collides(New(x, y), widgets)
  <2>1. ~Collides([x |-> x, y |-> y, cols |-> size.cols, rows |-> size.rows], widgets)
    BY <1>2 DEF FreeSpot, Free
  <2> QED
    BY <2>1 DEF Collides, Overlap
<1>7. \A w \in widgets : w.type # New(x, y).type /\ w.id # New(x, y).id
  BY <1>4 DEF AddWidget
<1>8. widgets \in Layout /\ WellBuilt(widgets) /\ Distinct(widgets)
  BY Shown DEF Inv
<1> HIDE DEF New
<1>9. LET layout == widgets \cup {New(x, y)}
      IN  layout \in Layout /\ WellBuilt(layout) /\ Distinct(layout)
  BY <1>5, <1>6, <1>7, <1>8, BuiltAdd
<1> QED
  BY <1>2, <1>9, ChangeKeeps

LEMMA RemoveKeeps ==
  ASSUME Inv, NEW w \in widgets, RemoveWidget(w)
  PROVE  Inv'
<1>1. widgets \in Layout /\ WellBuilt(widgets) /\ Distinct(widgets)
  BY Shown DEF Inv
<1>2. widgets \ {w} \in Layout /\ WellBuilt(widgets \ {w}) /\ Distinct(widgets \ {w})
  BY <1>1, BuiltSubset DEF Layout
<1> QED
  BY <1>2, ChangeKeeps DEF RemoveWidget

LEMMA DragStartKeeps ==
  ASSUME Inv, NEW w \in widgets, DragStart(w)
  PROVE  Inv'
<1> USE DashboardConstants
<1>1. /\ UNCHANGED <<posts, widgets, snapshot, changedWhileLoading, user, open, loading, loaded,
                     stored, visits, resizeState, resizePreview, first, company, touched,
                     measured, misjudged>>
      /\ edits' \in 0 .. MaxEdit
  BY DEF DragStart, Begun, Inv, TypeOK, history, page, resizing
<1>2. GestureTypes'
  <2>1. dragging' = dragging \cup {w.id} /\ w.id \in IdsOf(widgets)
    BY DEF DragStart, IdsOf
  <2>2. dragging' \subseteq IdsOf(widgets')
    BY <1>1, <2>1 DEF Inv, TypeOK
  <2> QED
    BY <1>1, <2>2 DEF Inv, TypeOK, GestureTypes
<1>3. widgets \in Layout /\ WellBuilt(widgets) /\ Distinct(widgets)
  BY Shown DEF Inv
<1>4. WellBuilt(widgets)' /\ Distinct(widgets)'
  BY <1>1, <1>3, BuiltStays
<1>5. TypeOK' /\ WellPlaced'
  BY <1>1, <1>2, <1>3, <1>4, PageStep DEF Inv, TypeOK
<1>6. OwnPage'
  BY <1>1 DEF Inv, OwnPage, Untouched, Full
<1>7. Judged'
  BY <1>1, JudgedStays DEF Inv
<1> QED
  BY <1>5, <1>6, <1>7 DEF Inv

\* Another place or size of the same widget, over nothing and within the grid.
LEMMA ReplaceBuilt ==
  ASSUME TypeOK, WellPlaced, NEW w \in widgets, NEW v \in Widget, v.id = w.id, v.type = w.type,
         ~misjudged => ~Collides(v, Others(w.id)) /\ (OnGrid(v) \/ OldOffGrid(v))
  PROVE  LET layout == Others(w.id) \cup {v}
         IN  layout \in Layout /\ WellBuilt(layout) /\ Distinct(layout)
<1>1. widgets \in Layout /\ WellBuilt(widgets) /\ Distinct(widgets)
  BY Shown
<1>2. Others(w.id) \subseteq widgets /\ \A u \in Others(w.id) : u.id # v.id
  BY DEF Others
<1>3. Others(w.id) \in Layout /\ WellBuilt(Others(w.id)) /\ Distinct(Others(w.id))
  BY <1>1, <1>2, BuiltSubset DEF Layout
<1>4. \A u \in Others(w.id) : u.type # v.type \/ (OldTwins(u, v) /\ OldTwins(v, u))
  <2> SUFFICES ASSUME NEW u \in Others(w.id), u.type = v.type
               PROVE  OldTwins(u, v) /\ OldTwins(v, u)
    OBVIOUS
  <2>1. OldTwins(u, w) /\ OldTwins(w, u)
    BY <1>1, <1>2 DEF WellBuilt, Others
  <2> QED
    BY <2>1 DEF OldTwins
<1> QED
  BY <1>2, <1>3, <1>4, BuiltAdd

LEMMA MovedWidget ==
  ASSUME NEW w \in Widget, NEW x \in Int, NEW y \in Int
  PROVE  /\ MovedTo(w, x, y) \in Widget
         /\ MovedTo(w, x, y).x = x /\ MovedTo(w, x, y).y = y
         /\ MovedTo(w, x, y).cols = w.cols /\ MovedTo(w, x, y).rows = w.rows
         /\ MovedTo(w, x, y).id = w.id /\ MovedTo(w, x, y).type = w.type
<1> DEFINE a == [w EXCEPT !.x = x]
           m == [a EXCEPT !.y = y]
<1>1. /\ a \in Widget /\ a.x = x /\ a.y = w.y /\ a.cols = w.cols /\ a.rows = w.rows
      /\ a.id = w.id /\ a.type = w.type
  BY DEF Widget, WidgetOf
<1> HIDE DEF a
<1>2. /\ m \in Widget /\ m.x = x /\ m.y = y /\ m.cols = w.cols /\ m.rows = w.rows
      /\ m.id = w.id /\ m.type = w.type
  BY <1>1 DEF Widget, WidgetOf
<1> USE DEF a
<1> QED
  BY <1>2 DEF MovedTo

LEMMA ResizedWidget ==
  ASSUME NEW w \in Widget, NEW p \in ResizePreview
  PROVE  LET r == Resized(w, p)
         IN  /\ r \in Widget /\ r.x = w.x /\ r.y = w.y
             /\ r.cols = p.cols /\ r.rows = p.rows
             /\ r.id = w.id /\ r.type = w.type
<1> DEFINE a == [w EXCEPT !.cols = p.cols]
           m == [a EXCEPT !.rows = p.rows]
<1>1. /\ a \in Widget /\ a.x = w.x /\ a.y = w.y /\ a.cols = p.cols /\ a.rows = w.rows
      /\ a.id = w.id /\ a.type = w.type
  BY DEF Widget, WidgetOf, ResizePreview
<1> HIDE DEF a
<1>2. /\ m \in Widget /\ m.x = w.x /\ m.y = w.y /\ m.cols = p.cols /\ m.rows = p.rows
      /\ m.id = w.id /\ m.type = w.type
  BY <1>1 DEF Widget, WidgetOf, ResizePreview
<1> USE DEF a
<1> QED
  BY <1>2 DEF Resized

\* A widget within the grid is moved within it.
LEMMA MovedOnGrid ==
  ASSUME NEW w \in Widget, OnGrid(w), NEW x \in Clamped(0, Columns - w.cols), NEW y \in Nat
  PROVE  OnGrid(MovedTo(w, x, y))
<1>1. w.cols \in Int /\ w.rows \in Int /\ 1 <= w.cols /\ 1 <= w.rows /\ w.cols <= Columns
  BY DashboardConstants DEF Widget, WidgetOf, OnGrid
<1>2. x \in 0 .. Columns - w.cols
  BY DashboardConstants, <1>1 DEF Clamped
<1>3. x \in Int /\ y \in Int /\ 0 <= x /\ x + w.cols <= Columns /\ 0 <= y
  BY DashboardConstants, <1>1, <1>2
<1> DEFINE moved == MovedTo(w, x, y)
<1>4. /\ moved \in Widget /\ moved.x = x /\ moved.y = y
      /\ moved.cols = w.cols /\ moved.rows = w.rows /\ moved.id = w.id /\ moved.type = w.type
  <2>1. w \in Widget /\ x \in Int /\ y \in Int
    BY <1>3
  <2> QED
    BY ONLY <2>1, MovedWidget, Zenon
<1> HIDE DEF moved
<1>5. OnGrid(moved)
  BY <1>1, <1>3, <1>4 DEF OnGrid
<1> QED
  BY <1>5 DEF moved

\* A drop outside of edit mode may write, and then counts as a save.
LEMMA DragEndKeeps ==
  ASSUME Inv, NEW w \in widgets, DragEnd(w)
  PROVE  Inv'
<1> USE DashboardConstants
<1>1. widgets \in Layout /\ WellBuilt(widgets) /\ Distinct(widgets) /\ w \in Widget
  BY Shown DEF Inv, Layout
<1>2. PICK x \in Clamped(0, Columns - w.cols), y \in 0 .. MaxRow :
        LET moved == MovedTo(w, x, y) IN
        IF Collides(moved, Others(w.id))
        THEN UNCHANGED <<user, open, page, posts, stored, visits, history, measured>>
        ELSE /\ Edited(Others(w.id) \cup {moved})
             /\ touched' = (IF editMode THEN touched ELSE touched \cup company)
             /\ measured' = (measured /\ widgets' = widgets)
  BY DEF DragEnd
<1>3. /\ dragging' = dragging \ {w.id} /\ open
      /\ UNCHANGED <<edits, resizeState, resizePreview, misjudged>>
  BY DEF DragEnd, resizing
<1> DEFINE moved == MovedTo(w, x, y)
<1>4. CASE Collides(moved, Others(w.id))
  <2>1. UNCHANGED <<user, open, widgets, snapshot, loading, loaded, changedWhileLoading, posts,
                    stored, visits, first, company, touched, measured>>
    BY <1>2, <1>4 DEF page, history
  <2>2. GestureTypes'
    BY <1>3, <2>1 DEF Inv, TypeOK, GestureTypes
  <2>3. WellBuilt(widgets)' /\ Distinct(widgets)'
    BY <1>1, <1>3, <2>1, BuiltStays
  <2>4. TypeOK' /\ WellPlaced'
    BY <1>1, <1>3, <2>1, <2>2, <2>3, PageStep DEF Inv, TypeOK
  <2>5. OwnPage'
    BY <1>3, <2>1 DEF Inv, OwnPage, Untouched, Full
  <2>6. Judged'
    BY <1>3, <2>1, JudgedStays DEF Inv
  <2> QED
    BY <2>4, <2>5, <2>6 DEF Inv
<1>5. CASE ~Collides(moved, Others(w.id))
  <2> DEFINE layout == Others(w.id) \cup {moved}
  <2>1. /\ Edited(layout)
        /\ touched' = (IF editMode THEN touched ELSE touched \cup company)
        /\ measured' = (measured /\ widgets' = widgets)
    BY <1>2, <1>5
  <2>2. x \in Int /\ y \in Nat
    BY <1>1 DEF Widget, WidgetOf, Clamped
  <2>3. moved \in Widget /\ moved.id = w.id /\ moved.type = w.type
    BY <1>1, <2>2, MovedWidget
  <2>4. ~misjudged => OnGrid(moved) \/ OldOffGrid(moved)
    <3>1. CASE OnGrid(w)
      BY <1>1, <2>2, <3>1, MovedOnGrid
    <3>2. CASE ~OnGrid(w)
      BY <1>1, <2>3, <3>2 DEF WellBuilt, OldOffGrid
    <3> QED
      BY <3>1, <3>2
  <2>5. layout \in Layout /\ WellBuilt(layout) /\ Distinct(layout)
    <3> HIDE DEF moved
    <3> QED
      BY <1>5, <2>3, <2>4, ReplaceBuilt DEF Inv
  <2>6. widgets' = layout
    BY <2>1 DEF Edited
  <2>7. IdsOf(widgets') = IdsOf(widgets)
    <3>1. \A u \in layout : \E v \in widgets : u.id = v.id
      BY <2>3 DEF Others
    <3>2. \A v \in widgets : \E u \in layout : u.id = v.id
      BY <2>3 DEF Others
    <3> HIDE DEF layout
    <3> QED
      BY <2>6, <3>1, <3>2 DEF IdsOf
  <2> HIDE DEF layout
  <2>8. editMode \in BOOLEAN
    BY DEF editMode
  <2>9. /\ UNCHANGED <<user, open, snapshot, loading, loaded, stored, visits, first, company>>
        /\ PersistIfLive(layout, editMode)
    BY <2>1 DEF Edited
  <2>10. /\ posts' \subseteq Post
         /\ \A p \in posts' : p \in posts \/ p.layout = layout
         /\ \A p \in posts' \ posts : p.owner = user /\ user # Nobody
         /\ changedWhileLoading' \in BOOLEAN
         /\ editMode => UNCHANGED <<posts, changedWhileLoading>>
    BY <2>5, <2>8, <2>9, PersistIfLiveWrites DEF Inv
  <2>11. GestureTypes'
    BY <1>3, <2>1, <2>7 DEF Inv, TypeOK, GestureTypes
  <2>12. touched' \subseteq Admins
    BY <2>1 DEF Inv, TypeOK
  <2>13. WellBuilt(widgets)' /\ Distinct(widgets)'
    BY <1>3, <2>5, <2>6, <2>9, BuiltStays
  <2>14. TypeOK' /\ WellPlaced'
    BY <1>3, <2>5, <2>6, <2>9, <2>10, <2>11, <2>12, <2>13, PageStep DEF Inv, TypeOK
  <2>15. Judged'
    <3>1. measured' => measured /\ widgets' = widgets
      BY <2>1 DEF Inv, TypeOK
    <3> QED
      BY <1>3, <2>9, <3>1, JudgedStays DEF Inv
  <2>16. OwnPage'
    <3>1. CASE editMode
      BY <2>1, <2>9, <2>10, <3>1 DEF Inv, OwnPage, Untouched, Full
    <3>2. CASE ~editMode
      <4>1. touched' = touched \cup company
        BY <2>1, <3>2
      <4>2. \A p \in posts' \ posts : p.owner \in touched'
        BY <2>10, <4>1 DEF Inv, OwnPage
      <4>3. company # {}
        BY <1>3 DEF Inv, OwnPage
      <4> QED
        BY <2>9, <4>1, <4>2, <4>3 DEF Inv, OwnPage, Untouched, Full
    <3> QED
      BY <3>1, <3>2
  <2> QED
    BY <2>14, <2>15, <2>16 DEF Inv
<1> QED
  BY <1>4, <1>5

LEMMA ResizeStartKeeps ==
  ASSUME Inv, NEW w \in widgets, NEW dir \in Dirs, ResizeStart(w, dir)
  PROVE  Inv'
<1> USE DashboardConstants
<1> DEFINE state == [id |-> w.id, dir |-> dir, x |-> w.x, y |-> w.y,
                     cols |-> w.cols, rows |-> w.rows]
<1>1. widgets \in Layout /\ WellBuilt(widgets) /\ Distinct(widgets) /\ w \in Widget
  BY Shown DEF Inv, Layout
<1>2. /\ UNCHANGED <<posts, widgets, snapshot, changedWhileLoading, user, open, loading, loaded,
                     stored, visits, dragging, resizePreview, first, company, touched,
                     measured, misjudged>>
      /\ edits' \in 0 .. MaxEdit /\ resizeState' = {state}
  BY DEF ResizeStart, Begun, Inv, TypeOK, history, page
<1>3. state \in ResizeState
  BY <1>1 DEF ResizeState, Widget, WidgetOf
<1>4. GestureTypes'
  BY <1>2, <1>3 DEF Inv, TypeOK, GestureTypes, IsOption
<1>5. WellBuilt(widgets)' /\ Distinct(widgets)'
  BY <1>1, <1>2, BuiltStays
<1>6. TypeOK' /\ WellPlaced'
  BY <1>1, <1>2, <1>4, <1>5, PageStep DEF Inv, TypeOK
<1>7. OwnPage'
  BY <1>2 DEF Inv, OwnPage, Untouched, Full
<1>8. ~misjudged => OnGrid(state) \/ OldOffGrid(state)
  <2>1. OnGrid(w) <=> OnGrid(state)
    BY DEF OnGrid
  <2> QED
    BY <1>1, <2>1 DEF WellBuilt, OldOffGrid
<1> HIDE DEF state
<1>9. Judged'
  <2>1. \A s : OldOffGrid(s)' = OldOffGrid(s)
    BY <1>2 DEF OldOffGrid, Originals
  <2>2. \A u, p : Fits(u, p)' = Fits(u, p)
    BY <1>2, <2>1 DEF Fits, Others
  <2> QED
    BY <1>2, <1>8, <2>1, <2>2 DEF Inv, Judged
<1> QED
  BY <1>6, <1>7, <1>9 DEF Inv

\* The sizes a resize offers are at least one, of a widget within the grid.
LEMMA ClampedAtLeastOne ==
  ASSUME NEW lo \in Int, NEW hi \in Int, 1 <= lo, 1 <= hi, NEW n \in Clamped(lo, hi)
  PROVE  n \in Int /\ 1 <= n /\ n <= hi
BY DEF Clamped

LEMMA ResizeMoveKeeps ==
  ASSUME Inv, NEW w \in widgets, ResizeMove(w)
  PROVE  Inv'
<1> USE DashboardConstants
<1>1. widgets \in Layout /\ WellBuilt(widgets) /\ Distinct(widgets) /\ w \in Widget
  BY Shown DEF Inv, Layout
<1>2. w.type \in WidgetTypes /\ w.x \in Int /\ w.id \in Ids
  BY <1>1 DEF Widget, WidgetOf
<1> DEFINE min == MinSize[w.type]
           max == MaxSize[w.type]
           hi  == Smaller(max.cols, Columns - w.x)
<1>3. min \in Size /\ max \in Size
  BY <1>2
<1>4. PICK state \in resizeState :
        /\ w.id = state.id
        /\ \E cols \in IF state.dir = "s" THEN {state.cols} ELSE Clamped(min.cols, hi),
              rows \in IF state.dir = "e" THEN {state.rows} ELSE Clamped(min.rows, max.rows) :
             LET target == [x |-> state.x, y |-> state.y, cols |-> cols, rows |-> rows] IN
             resizePreview' = {[id |-> w.id, cols |-> cols, rows |-> rows,
                                valid |-> ~Collides(target, Others(w.id))]}
        /\ measured' = (w.x = state.x /\ w.y = state.y)
  BY DEF ResizeMove
<1>5. PICK cols \in IF state.dir = "s" THEN {state.cols} ELSE Clamped(min.cols, hi),
           rows \in IF state.dir = "e" THEN {state.rows} ELSE Clamped(min.rows, max.rows) :
        LET target == [x |-> state.x, y |-> state.y, cols |-> cols, rows |-> rows] IN
        resizePreview' = {[id |-> w.id, cols |-> cols, rows |-> rows,
                           valid |-> ~Collides(target, Others(w.id))]}
  BY <1>4
<1> DEFINE target == [x |-> state.x, y |-> state.y, cols |-> cols, rows |-> rows]
           preview == [id |-> w.id, cols |-> cols, rows |-> rows,
                       valid |-> ~Collides(target, Others(w.id))]
<1>6. state \in ResizeState
  BY DEF Inv, TypeOK, IsOption
<1>7. cols \in Int /\ rows \in Int
  BY <1>2, <1>3, <1>6 DEF ResizeState, Clamped, Smaller, Size
<1>8. preview \in ResizePreview
  BY <1>2, <1>7 DEF ResizePreview
<1>9. /\ UNCHANGED <<user, open, widgets, snapshot, loading, loaded, changedWhileLoading, posts,
                     stored, edits, visits, dragging, resizeState, first, company, touched,
                     misjudged>>
      /\ resizePreview' = {preview}
  BY <1>5 DEF ResizeMove, page, history
<1>10. measured' = (w.x = state.x /\ w.y = state.y)
  BY <1>4
<1>11. GestureTypes'
  <2> HIDE DEF preview
  <2> QED
    BY <1>8, <1>9, <1>10 DEF Inv, TypeOK, GestureTypes, IsOption
<1>12. WellBuilt(widgets)' /\ Distinct(widgets)'
  BY <1>1, <1>9, BuiltStays
<1>13. TypeOK' /\ WellPlaced'
  BY <1>1, <1>9, <1>11, <1>12, PageStep DEF Inv, TypeOK
<1>14. OwnPage'
  BY <1>9 DEF Inv, OwnPage, Untouched, Full
<1>15. ASSUME ~misjudged, w.x = state.x, w.y = state.y, preview.valid
       PROVE  Fits(w, preview)
  <2> DEFINE r == Resized(w, preview)
  <2>1. /\ r.x = state.x /\ r.y = state.y /\ r.cols = cols /\ r.rows = rows /\ r.id = w.id
    BY <1>1, <1>8, <1>15, ResizedWidget
  <2>2. ~Collides(target, Others(w.id))
    BY <1>15, Zenon
  <2> HIDE DEF r, preview
  <2>3. ~Collides(r, Others(w.id))
    BY <2>1, <2>2 DEF Collides, Overlap
  <2>4. OnGrid(r) \/ OldOffGrid(r)
    <3>1. CASE ~OnGrid(w)
      BY <1>1, <1>15, <2>1, <3>1 DEF WellBuilt, OldOffGrid
    <3>2. CASE ~OnGrid(state)
      <4>1. OldOffGrid(state)
        BY <1>15, <3>2 DEF Inv, Judged
      <4> QED
        BY <1>4, <2>1, <4>1 DEF OldOffGrid
    <3>3. CASE OnGrid(w) /\ OnGrid(state)
      <4>1. hi \in Int /\ 1 <= hi /\ hi <= Columns - w.x
        BY <1>1, <1>2, <1>3, <3>3 DEF OnGrid, Smaller, Size, Widget, WidgetOf
      <4>2. min.cols \in Int /\ 1 <= min.cols /\ min.rows \in Int /\ 1 <= min.rows
            /\ max.rows \in Int /\ 1 <= max.rows
        BY <1>3 DEF Size
      <4> HIDE DEF hi, min, max
      <4>3. 1 <= cols /\ state.x + cols <= Columns
        <5>1. CASE state.dir = "s"
          BY <3>3, <5>1 DEF OnGrid
        <5>2. CASE state.dir # "s"
          <6>1. cols \in Clamped(min.cols, hi)
            BY <5>2
          <6>2. 1 <= cols /\ cols <= hi
            BY <4>1, <4>2, <6>1, ClampedAtLeastOne
          <6> QED
            BY <1>2, <1>7, <1>15, <4>1, <6>2
        <5> QED
          BY <5>1, <5>2
      <4>4. 1 <= rows
        <5>1. CASE state.dir = "e"
          BY <3>3, <5>1 DEF OnGrid
        <5>2. CASE state.dir # "e"
          BY <4>2, <5>2, ClampedAtLeastOne
        <5> QED
          BY <5>1, <5>2
      <4>5. 0 <= state.x /\ 0 <= state.y
        BY <3>3 DEF OnGrid
      <4> QED
        BY <2>1, <4>3, <4>4, <4>5 DEF OnGrid
    <3> QED
      BY <3>1, <3>2, <3>3
  <2> QED
    <3>1. preview.id = w.id
      BY DEF preview
    <3> QED
      BY <2>3, <2>4, <3>1 DEF Fits, r
<1>16. Judged'
  <2>1. \A s : OldOffGrid(s)' = OldOffGrid(s)
    BY <1>9 DEF OldOffGrid, Originals
  <2>2. \A u, p : Fits(u, p)' = Fits(u, p)
    BY <1>9, <2>1 DEF Fits, Others
  <2>3. \A u \in widgets : u.id = preview.id => u = w
    BY <1>1 DEF Distinct
  <2> HIDE DEF preview
  <2>4. PICK p : p = preview
    OBVIOUS
  <2>5. ~misjudged' /\ measured' /\ p.valid => Fits(w, p)'
    BY <1>9, <1>10, <1>15, <2>2, <2>4
  <2>6. resizePreview' = {p} /\ \A u \in widgets' : u.id = p.id => u = w
    BY <1>9, <2>3, <2>4
  <2>7. ~misjudged' => \A s \in resizeState' : OnGrid(s) \/ OldOffGrid(s)'
    BY <1>9, <2>1 DEF Inv, Judged
  <2> QED
    BY <2>5, <2>6, <2>7 DEF Judged
<1> QED
  BY <1>13, <1>14, <1>16 DEF Inv

LEMMA ResizeEndKeeps ==
  ASSUME Inv, ResizeEnd
  PROVE  Inv'
<1> USE DashboardConstants
<1>1. widgets \in Layout /\ WellBuilt(widgets) /\ Distinct(widgets)
  BY Shown DEF Inv
<1>2. /\ resizeState' = {} /\ resizePreview' = {} /\ measured' = FALSE
      /\ UNCHANGED <<edits, dragging, touched>> /\ editMode
  BY DEF ResizeEnd, Handles
<1>3. Judged'
  BY <1>2 DEF Judged
<1>4. CASE /\ \A p \in resizePreview : ~p.valid
           /\ UNCHANGED <<user, open, page, posts, stored, visits, first, company, misjudged>>
  <2>1. UNCHANGED <<widgets, snapshot, loading, loaded, changedWhileLoading>>
    BY <1>4 DEF page
  <2>2. GestureTypes'
    BY <1>2, <1>4, <2>1 DEF Inv, TypeOK, GestureTypes, IsOption
  <2>3. WellBuilt(widgets)' /\ Distinct(widgets)'
    BY <1>1, <1>4, <2>1, BuiltStays
  <2>4. TypeOK' /\ WellPlaced'
    BY <1>1, <1>2, <1>4, <2>1, <2>2, <2>3, PageStep DEF Inv, TypeOK
  <2>5. OwnPage'
    BY <1>2, <1>4, <2>1 DEF Inv, OwnPage, Untouched, Full
  <2> QED
    BY <1>3, <2>4, <2>5 DEF Inv
<1>5. ASSUME NEW p \in resizePreview, Apply(p), misjudged' = (misjudged \/ ~measured)
      PROVE  Inv'
  <2> DEFINE f(w) == IF w.id = p.id THEN Resized(w, p) ELSE w
  <2>1. /\ p.valid /\ widgets' = WithResized(p)
        /\ UNCHANGED <<user, open, snapshot, loading, loaded, stored, visits, first, company,
                       posts, changedWhileLoading>>
    BY <1>2, <1>5 DEF Apply, Edited, PersistIfLive
  <2>2. p \in ResizePreview
    BY DEF Inv, TypeOK, IsOption
  <2>3. \A w \in widgets : f(w) \in Widget /\ f(w).id = w.id /\ f(w).type = w.type
    BY <1>1, <2>2, ResizedWidget DEF Layout
  <2>4. \A w \in widgets : w.id # p.id => f(w) = w
    OBVIOUS
  <2>5. \A w \in widgets : w.id = p.id => f(w) = Resized(w, p)
    OBVIOUS
  <2>6. WithResized(p) = {f(w) : w \in widgets}
    BY DEF WithResized
  <2> HIDE DEF f
  <2>7. WithResized(p) \in Layout
    BY <2>3, <2>6 DEF Layout
  <2>8. Distinct(WithResized(p))
    BY <1>1, <2>3, <2>6 DEF Distinct
  <2>9. \A d : OldOffGrid(d)' = OldOffGrid(d)
    BY <2>1 DEF OldOffGrid, Originals
  <2>10. \A v, w : /\ OldTwins(v, w)' = OldTwins(v, w)
                   /\ OldOverlap(v, w)' = OldOverlap(v, w)
    BY <2>1 DEF OldTwins, OldOverlap, Originals
  <2>11. ASSUME NEW v \in widgets, NEW w \in widgets, f(v) # f(w), f(v).type = f(w).type
         PROVE  OldTwins(f(v), f(w))
    <3>1. OldTwins(v, w)
      BY <1>1, <2>3, <2>11 DEF WellBuilt
    <3> QED
      BY <2>3, <3>1 DEF OldTwins
  <2>12. ASSUME ~misjudged'
         PROVE  /\ \A v, w \in widgets : f(v) # f(w) /\ Overlap(f(v), f(w)) => OldOverlap(f(v), f(w))
                /\ \A w \in widgets : ~OnGrid(f(w)) => OldOffGrid(f(w))
    <3>1. ~misjudged /\ measured
      BY <1>5, <2>12 DEF Inv, TypeOK
    <3>2. \A w \in widgets : w.id = p.id => Fits(w, p)
      BY <2>1, <3>1 DEF Inv, Judged
    <3>3. \A w \in widgets : ~OnGrid(f(w)) => OldOffGrid(f(w))
      BY <1>1, <2>4, <2>5, <3>1, <3>2 DEF Fits, WellBuilt
    <3>4. ASSUME NEW v \in widgets, NEW w \in widgets, v.id = p.id, w.id # p.id
          PROVE  ~Overlap(f(v), f(w)) /\ ~Overlap(f(w), f(v))
      <4>1. w \in Others(p.id) /\ f(w) = w /\ f(v) = Resized(v, p)
        BY <2>4, <2>5, <3>4 DEF Others
      <4>2. ~Overlap(f(v), w)
        BY <3>2, <3>4, <4>1 DEF Fits, Collides
      <4> QED
        BY <4>1, <4>2 DEF Overlap
    <3>5. \A v, w \in widgets : v.id = p.id /\ w.id = p.id => v = w
      BY <1>1 DEF Distinct
    <3>6. \A v, w \in widgets : f(v) # f(w) /\ Overlap(f(v), f(w)) => OldOverlap(f(v), f(w))
      BY <1>1, <2>4, <3>1, <3>4, <3>5 DEF WellBuilt
    <3> QED
      BY <3>3, <3>6
  <2>13. \A layout : layout = WithResized(p) => WellBuilt(layout)'
    <3> SUFFICES ASSUME NEW layout, layout = WithResized(p)
                 PROVE  WellBuilt(layout)'
      OBVIOUS
    <3>1. \A v, w \in layout : v # w /\ v.type = w.type => OldTwins(v, w)'
      BY <2>6, <2>10, <2>11
    <3>2. ~misjudged' => \A v, w \in layout : v # w /\ Overlap(v, w) => OldOverlap(v, w)'
      BY <2>6, <2>10, <2>12
    <3>3. ~misjudged' => \A w \in layout : ~OnGrid(w) => OldOffGrid(w)'
      BY <2>6, <2>9, <2>12
    <3> QED
      BY <3>1, <3>2, <3>3 DEF WellBuilt
  <2>14. widgets' \in Layout /\ WellBuilt(widgets)' /\ Distinct(widgets)'
    BY <2>1, <2>7, <2>8, <2>13 DEF Distinct
  <2>15. IdsOf(widgets') = IdsOf(widgets)
    BY <2>1, <2>3, <2>6 DEF IdsOf
  <2>16. GestureTypes'
    BY <1>2, <1>5, <2>15 DEF Inv, TypeOK, GestureTypes, IsOption
  <2>17. TypeOK' /\ WellPlaced'
    BY <1>2, <1>5, <2>1, <2>14, <2>16, PageStep DEF Inv, TypeOK
  <2>18. OwnPage'
    BY <1>2, <2>1 DEF Inv, OwnPage, Untouched, Full
  <2> QED
    BY <1>3, <2>17, <2>18 DEF Inv
<1> QED
  BY <1>4, <1>5 DEF ResizeEnd

LEMMA BeginKeeps ==
  ASSUME Inv, BeginEdit
  PROVE  Inv'
<1>1. /\ UNCHANGED <<user, open, widgets, loading, loaded, changedWhileLoading, posts, stored,
                     edits, visits, first, company, touched>>
      /\ snapshot' = {widgets} /\ PageFollows
  BY DEF BeginEdit, history
<1>2. widgets \in Layout /\ WellBuilt(widgets) /\ Distinct(widgets)
  BY Shown DEF Inv
<1>3. GestureTypes' /\ Judged' /\ misjudged' = misjudged
  BY <1>1, Followed DEF Inv
<1>4. WellBuilt(widgets)' /\ Distinct(widgets)'
  BY <1>1, <1>2, <1>3, BuiltStays
<1>5. TypeOK' /\ WellPlaced'
  BY <1>1, <1>2, <1>3, <1>4, PageStep DEF Inv, TypeOK
<1>6. OwnPage'
  BY <1>1 DEF Inv, OwnPage, Untouched, Full
<1> QED
  BY <1>3, <1>5, <1>6 DEF Inv

LEMMA SaveKeeps ==
  ASSUME Inv, SaveEdit
  PROVE  Inv'
<1>1. widgets \in Layout /\ WellBuilt(widgets) /\ Distinct(widgets)
  BY Shown DEF Inv
<1>2. /\ posts' \subseteq Post
      /\ \A p \in posts' : p \in posts \/ p.layout = widgets
      /\ \A p \in posts' \ posts : p.owner = user /\ user # Nobody
      /\ changedWhileLoading' \in BOOLEAN
  BY <1>1, PersistIfLiveWrites DEF Inv, SaveEdit
<1>3. /\ UNCHANGED <<user, open, widgets, loading, loaded, stored, edits, visits, first, company>>
      /\ snapshot' = {} /\ touched' = touched \cup company /\ PageFollows /\ open
  BY DEF SaveEdit
<1>4. GestureTypes' /\ Judged' /\ misjudged' = misjudged
  BY <1>3, Followed DEF Inv
<1>5. WellBuilt(widgets)' /\ Distinct(widgets)'
  BY <1>1, <1>3, <1>4, BuiltStays
<1>6. touched' \subseteq Admins
  BY <1>3 DEF Inv, TypeOK
<1>7. TypeOK' /\ WellPlaced'
  BY <1>1, <1>2, <1>3, <1>4, <1>5, <1>6, PageStep DEF Inv, TypeOK
<1>8. OwnPage'
  <2>1. \A p \in posts' \ posts : p.owner \in touched'
    BY <1>2, <1>3 DEF Inv, OwnPage
  <2>2. company # {}
    BY <1>3 DEF Inv, OwnPage
  <2> QED
    BY <1>3, <2>1, <2>2 DEF Inv, OwnPage, Untouched, Full
<1> QED
  BY <1>4, <1>7, <1>8 DEF Inv

\* What giving up an edit leaves is a layout that was there before.
LEMMA CancelledKeeps ==
  ASSUME TypeOK, WellPlaced, Cancelled
  PROVE  /\ \E layout \in Layout : /\ widgets' = layout
                                   /\ WellBuilt(layout) /\ Distinct(layout)
         /\ snapshot' = {} /\ UNCHANGED <<loading, loaded, changedWhileLoading>>
<1>1. CASE editMode
  <2>1. widgets' \in snapshot
    BY <1>1 DEF Cancelled, editMode
  <2>2. PICK layout \in snapshot : widgets' = layout
    BY <2>1
  <2>3. layout \in Layout /\ WellBuilt(layout) /\ Distinct(layout)
    BY <2>2 DEF TypeOK, WellPlaced, IsOption, Layouts
  <2> QED
    BY <2>2, <2>3 DEF Cancelled
<1>2. CASE ~editMode
  <2>1. PICK layout : layout = widgets
    OBVIOUS
  <2>2. layout \in Layout /\ WellBuilt(layout) /\ Distinct(layout)
    BY <2>1, Shown
  <2> QED
    BY <1>2, <2>1, <2>2 DEF Cancelled
<1> QED
  BY <1>1, <1>2

LEMMA GiveUpKeeps ==
  ASSUME Inv, Cancelled, PageFollows \/ GesturesEnd,
         user' \in {user, Nobody}, open' \in {open, FALSE},
         UNCHANGED <<posts, stored, edits, visits, history>>
  PROVE  Inv'
<1>1. PICK layout \in Layout : /\ widgets' = layout
                               /\ WellBuilt(layout) /\ Distinct(layout)
  BY CancelledKeeps DEF Inv
<1>2. snapshot' = {} /\ UNCHANGED <<loading, loaded, changedWhileLoading>>
  BY CancelledKeeps DEF Inv
<1>3. GestureTypes' /\ Judged' /\ misjudged' = misjudged
  BY Followed, Ended DEF Inv, history
<1>4. WellBuilt(widgets)' /\ Distinct(widgets)'
  BY <1>1, <1>3, BuiltStays DEF history
<1>5. TypeOK' /\ WellPlaced'
  BY <1>1, <1>2, <1>3, <1>4, PageStep DEF Inv, TypeOK, history
<1>6. OwnPage'
  <2>1. UNCHANGED <<posts, stored, first, company, touched, changedWhileLoading>>
    BY <1>2 DEF history
  <2>2. user' # Nobody => user # Nobody /\ user' = user
    OBVIOUS
  <2>3. open' => open
    BY Zenon
  <2> QED
    BY <2>1, <2>2, <2>3 DEF Inv, OwnPage, Untouched, Full
<1> QED
  BY <1>3, <1>5, <1>6 DEF Inv

LEMMA OpenKeeps ==
  ASSUME Inv, OpenDashboard
  PROVE  Inv'
<1> USE DashboardConstants
<1> DEFINE rest == {w \in widgets : w.type \in allowed}
<1>1. widgets \in Layout /\ WellBuilt(widgets) /\ Distinct(widgets)
  BY Shown DEF Inv
<1>2. rest \in Layout /\ WellBuilt(rest) /\ Distinct(rest)
  BY <1>1, BuiltSubset DEF Layout
<1>3. user \in Admins /\ user \in company /\ allowed = Rights[user]
  BY DEF Inv, TypeOK, OwnPage, OpenDashboard, allowed
<1>4. Full(user) => rest = widgets
  BY <1>1, <1>3 DEF Full, Layout, Widget, WidgetOf
<1>5. /\ open' = TRUE /\ widgets' = rest /\ PageFollows
      /\ UNCHANGED <<user, snapshot, loading, loaded, stored, edits, visits,
                     first, company, touched>>
  BY DEF OpenDashboard, history
<1>6. IF rest = widgets THEN UNCHANGED <<posts, changedWhileLoading>>
                        ELSE PersistIfLive(rest, editMode)
  BY DEF OpenDashboard
<1>7. GestureTypes' /\ Judged' /\ misjudged' = misjudged
  BY <1>5, Followed DEF Inv
<1>8. WellBuilt(widgets)' /\ Distinct(widgets)'
  <2> HIDE DEF rest
  <2> QED
    BY <1>2, <1>5, <1>7, BuiltStays
<1>9. editMode \in BOOLEAN
  BY DEF editMode
<1> HIDE DEF rest
<1>10. /\ posts' \subseteq Post
       /\ \A p \in posts' : p \in posts \/ p.layout = rest
       /\ \A p \in posts' \ posts : p.owner = user /\ user # Nobody /\ rest # widgets
       /\ changedWhileLoading' \in BOOLEAN
       /\ rest = widgets => UNCHANGED <<posts, changedWhileLoading>>
  <2>1. CASE rest = widgets
    BY <1>6, <2>1 DEF Inv, TypeOK
  <2>2. CASE rest # widgets
    BY <1>2, <1>6, <1>9, <2>2, PersistIfLiveWrites DEF Inv
  <2> QED
    BY <2>1, <2>2
<1>11. TypeOK' /\ WellPlaced'
  BY <1>2, <1>5, <1>7, <1>8, <1>10, PageStep DEF Inv, TypeOK
<1>12. OwnPage'
  <2>1. \A a \in company : Untouched(a) /\ rest # widgets => ~Full(a)
    BY <1>3, <1>4 DEF Inv, OwnPage, Untouched
  <2> QED
    BY <1>3, <1>4, <1>5, <1>10, <2>1 DEF Inv, OwnPage, Untouched, Full
<1> QED
  BY <1>7, <1>11, <1>12 DEF Inv

LEMMA SignInKeeps ==
  ASSUME Inv, NEW a \in Admins, SignIn(a)
  PROVE  Inv'
<1> USE DashboardConstants
<1>1. /\ user = Nobody /\ user' = a /\ company' = company \cup {a} /\ PageFollows
      /\ loading' = (IF loaded THEN {} ELSE IF loading = {} THEN {a} ELSE loading)
      /\ touched' = (IF company \subseteq {a} THEN touched ELSE touched \cup company \cup {a})
      /\ UNCHANGED <<open, widgets, snapshot, loaded, changedWhileLoading, posts, stored,
                     edits, first>>
      /\ visits' \in 0 .. MaxVisit
  BY DEF SignIn, Visit, Inv, TypeOK
<1>2. GestureTypes' /\ Judged' /\ misjudged' = misjudged
  BY <1>1, Followed DEF Inv
<1>3. widgets \in Layout /\ WellBuilt(widgets) /\ Distinct(widgets)
  BY Shown DEF Inv
<1>4. WellBuilt(widgets)' /\ Distinct(widgets)'
  BY <1>1, <1>2, <1>3, BuiltStays
<1>5. IsOption(loading', Admins) /\ (loaded' => loading' = {})
  BY <1>1 DEF Inv, TypeOK, IsOption
<1>6. company' \subseteq Admins /\ touched' \subseteq Admins
  BY <1>1 DEF Inv, TypeOK
<1>7. TypeOK' /\ WellPlaced'
  BY <1>1, <1>2, <1>3, <1>4, <1>5, <1>6, PageStep DEF Inv, TypeOK
<1>8. OwnPage'
  <2>1. \A b, c \in company' : b # c => b \in touched'
    BY <1>1 DEF Inv, OwnPage
  <2>2. \A b \in Admins : Untouched(b)' => Untouched(b)
    BY <1>1 DEF Untouched
  <2>3. ASSUME NEW b \in company', Untouched(b)'
        PROVE  b \in company \/ ~changedWhileLoading
    <3>1. company \subseteq {a}
      BY <1>1, <2>3 DEF Untouched, Inv, TypeOK
    <3>2. CASE company = {}
      BY <3>2 DEF Inv, OwnPage
    <3>3. CASE company = {a}
      BY <1>1, <3>3, <2>3
    <3> QED
      BY <3>1, <3>2, <3>3
  <2> QED
    BY <1>1, <2>1, <2>2, <2>3 DEF Inv, OwnPage, Full
<1> QED
  BY <1>2, <1>7, <1>8 DEF Inv

LEMMA SignOutKeeps ==
  ASSUME Inv, SignOut
  PROVE  Inv'
<1>1. CASE hasPendingChanges
  <2>1. /\ UNCHANGED <<open, widgets, snapshot, loading, loaded, changedWhileLoading, posts,
                       stored, edits, visits, first, company, touched>>
        /\ PageFollows /\ user' = Nobody
    BY <1>1 DEF SignOut, page, history
  <2>2. GestureTypes' /\ Judged' /\ misjudged' = misjudged
    BY <2>1, Followed DEF Inv
  <2>3. widgets \in Layout /\ WellBuilt(widgets) /\ Distinct(widgets)
    BY Shown DEF Inv
  <2>4. WellBuilt(widgets)' /\ Distinct(widgets)'
    BY <2>1, <2>2, <2>3, BuiltStays
  <2>5. TypeOK' /\ WellPlaced'
    BY <2>1, <2>2, <2>3, <2>4, PageStep DEF Inv, TypeOK
  <2>6. OwnPage'
    BY <2>1 DEF Inv, OwnPage, Untouched, Full
  <2> QED
    BY <2>2, <2>5, <2>6 DEF Inv
<1>2. CASE ~hasPendingChanges
  BY <1>2, GiveUpKeeps DEF SignOut
<1> QED
  BY <1>1, <1>2

LEMMA ReloadKeeps ==
  ASSUME Inv, Reload
  PROVE  Inv'
<1> USE DashboardConstants
<1>1. PICK name \in Naming(IdsKept) : widgets' = Named(name)
  BY DEF Reload, Fresh
<1>2. /\ open' = FALSE /\ snapshot' = {} /\ GesturesEnd
      /\ loading' = {user} \ {Nobody} /\ company' = {user} \ {Nobody}
      /\ loaded' = FALSE /\ changedWhileLoading' = FALSE
      /\ UNCHANGED <<user, posts, stored, edits, first, touched>>
      /\ visits' \in 0 .. MaxVisit
  BY DEF Reload, Visit, Inv, TypeOK
<1>3. Named(name) \in Layout /\ WellBuilt(Named(name)) /\ Distinct(Named(name))
  BY NamedIsBuilt
<1>4. GestureTypes' /\ Judged' /\ misjudged' = misjudged
  BY <1>2, Ended DEF Inv
<1>5. WellBuilt(widgets)' /\ Distinct(widgets)'
  BY <1>1, <1>2, <1>3, <1>4, BuiltStays
<1>6. IsOption(loading', Admins) /\ company' \subseteq Admins
  BY <1>2 DEF Inv, TypeOK, IsOption
<1>7. TypeOK' /\ WellPlaced'
  <2>1. \A p \in posts' : p \in posts
    BY <1>2
  <2> QED
    BY <1>1, <1>2, <1>3, <1>4, <1>5, <1>6, <2>1, PageStep DEF Inv, TypeOK
<1>8. OwnPage'
  BY <1>2 DEF Inv, OwnPage, Untouched, Full
<1> QED
  BY <1>4, <1>7, <1>8 DEF Inv

LEMMA LoadKeeps ==
  ASSUME Inv, NEW a \in Admins, NEW ok \in BOOLEAN, LoadAnswered(a, ok)
  PROVE  Inv'
<1>1. widgets \in Layout /\ WellBuilt(widgets) /\ Distinct(widgets)
  BY Shown DEF Inv
<1>2. /\ UNCHANGED <<user, open, snapshot, changedWhileLoading, stored, edits, visits,
                     first, company, touched>>
      /\ loading' = {} /\ loaded' = TRUE /\ PageFollows
  BY DEF LoadAnswered, history
<1>3. GestureTypes' /\ Judged' /\ misjudged' = misjudged
  BY <1>2, Followed DEF Inv
<1>4. IsOption(loading', Admins)
  BY <1>2 DEF IsOption
<1>5. CASE changedWhileLoading
  <2>1. Persist(widgets) /\ UNCHANGED widgets
    BY <1>5 DEF LoadAnswered
  <2>2. /\ posts' \subseteq Post
        /\ \A p \in posts' : p \in posts \/ p.layout = widgets
        /\ \A p \in posts' \ posts : p.owner = user /\ user # Nobody
    BY <1>1, <2>1, PersistWrites DEF Inv
  <2>3. WellBuilt(widgets)' /\ Distinct(widgets)'
    BY <1>1, <1>2, <1>3, <2>1, BuiltStays
  <2>4. TypeOK' /\ WellPlaced'
    BY <1>1, <1>2, <1>3, <1>4, <2>1, <2>2, <2>3, PageStep DEF Inv, TypeOK
  <2>5. OwnPage'
    BY <1>2, <1>5, <2>2 DEF Inv, OwnPage, Untouched, Full
  <2> QED
    BY <1>3, <2>4, <2>5 DEF Inv
<1>6. CASE ~changedWhileLoading
  <2>1. PICK layout \in Layout : widgets' = layout /\ WellBuilt(layout) /\ Distinct(layout)
    <3>1. CASE ok /\ stored[a] # {}
      <4>1. PICK d \in stored[a] : widgets' = Known(d)
        BY <1>6, <3>1 DEF LoadAnswered
      <4>2. d \in Document /\ WellBuilt(d) /\ Distinct(d)
        BY <4>1 DEF Inv, TypeOK, WellPlaced, IsOption, Documents
      <4>3. Known(d) \in Layout
        BY <4>2 DEF Known, Layout, Document, Widget, WidgetOf
      <4>4. WellBuilt(Known(d)) /\ Distinct(Known(d))
        BY <4>2, BuiltSubset DEF Known
      <4> QED
        BY <4>1, <4>3, <4>4
    <3>2. CASE ~(ok /\ stored[a] # {})
      <4>1. PICK layout : layout = widgets
        OBVIOUS
      <4> QED
        BY <1>1, <1>6, <3>2, <4>1 DEF LoadAnswered
    <3> QED
      BY <3>1, <3>2
  <2>2. UNCHANGED posts
    BY <1>6 DEF LoadAnswered
  <2>3. WellBuilt(widgets)' /\ Distinct(widgets)'
    BY <1>2, <1>3, <2>1, BuiltStays
  <2>4. TypeOK' /\ WellPlaced'
    BY <1>2, <1>3, <1>4, <2>1, <2>2, <2>3, PageStep DEF Inv, TypeOK
  <2>5. OwnPage'
    BY <1>2, <2>2 DEF Inv, OwnPage, Untouched, Full
  <2> QED
    BY <1>3, <2>4, <2>5 DEF Inv
<1> QED
  BY <1>5, <1>6

LEMMA PostKeeps ==
  ASSUME Inv, NEW p \in posts, PostArrives(p) \/ PostFails(p)
  PROVE  Inv'
<1>1. p.owner \in Admins /\ p.layout \in Layout /\ p.layout \in Layouts
  BY DEF Inv, TypeOK, Post, Layouts
<1>2. p.layout \in Document
  BY <1>1 DEF Layout, Document, Widget, WidgetOf
<1>3. /\ posts' = posts \ {p}
      /\ UNCHANGED <<user, open, widgets, snapshot, loading, loaded, changedWhileLoading,
                     edits, visits, first, company, touched>>
      /\ PageFollows
      /\ \/ stored' = stored
         \/ stored' = [stored EXCEPT ![p.owner] = {p.layout}]
  BY DEF PostArrives, PostFails, page, history
<1>4. GestureTypes' /\ Judged' /\ misjudged' = misjudged
  BY <1>3, Followed DEF Inv
<1>5. /\ DOMAIN stored' = Admins
      /\ \A a \in Admins : stored'[a] = stored[a] \/ (a = p.owner /\ stored'[a] = {p.layout})
  BY <1>1, <1>3 DEF Inv, TypeOK
<1>6. \A layout \in (Layouts \cup Documents)' : layout \in Layouts \cup Documents
  BY <1>1, <1>3, <1>5 DEF Layouts, Documents
<1>7. WellPlaced' /\ Separate'
  BY <1>3, <1>4, <1>6, StillPlaced DEF Inv
<1>8. \A a \in Admins : IsOption(stored'[a], Document)
  BY <1>2, <1>5 DEF Inv, TypeOK, IsOption
<1>9. TypeOK'
  BY <1>3, <1>4, <1>5, <1>7, <1>8 DEF Inv, TypeOK, GestureTypes, Separate
<1>10. OwnPage'
  BY <1>3, <1>5 DEF Inv, OwnPage, Untouched, Full
<1> QED
  BY <1>4, <1>7, <1>9, <1>10 DEF Inv

----------------------------------------------------------------------------
(* The theorems                                                            *)

LEMMA InitEstablishes ==
  ASSUME Init
  PROVE  Inv
<1> USE DashboardConstants
<1>1. \A a \in Admins : stored[a] \in Kept[a]
  BY DEF Init
<1>2. DOMAIN stored = Admins /\ first = stored
  BY DEF Init
<1>3. \A a \in Admins : IsOption(stored[a], Document) /\ \A d \in stored[a] : Distinct(d)
  BY <1>1
<1>4. PICK used : \E name \in Naming(used) : widgets = Named(name)
  BY DEF Init, Fresh
<1>5. widgets \in Layout /\ WellBuilt(widgets) /\ Distinct(widgets)
  BY <1>4, NamedIsBuilt
<1>6. /\ user = Nobody /\ open = FALSE /\ snapshot = {} /\ loading = {} /\ loaded = FALSE
      /\ changedWhileLoading = FALSE /\ posts = {} /\ edits = 0 /\ visits = 0
      /\ dragging = {} /\ resizeState = {} /\ resizePreview = {} /\ company = {}
      /\ touched = {} /\ measured = FALSE /\ misjudged = FALSE
  BY DEF Init
<1>7. Layouts = {widgets} /\ Documents = Originals
  BY <1>2, <1>6 DEF Layouts, Documents, Originals
<1>8. \A d \in Documents : WellBuilt(d) /\ Distinct(d)
  <2> SUFFICES ASSUME NEW d \in Documents
               PROVE  WellBuilt(d) /\ Distinct(d)
    OBVIOUS
  <2>1. d \in Originals /\ Distinct(d)
    BY <1>3, <1>7 DEF Documents
  <2> QED
    BY <2>1 DEF WellBuilt, OldTwins, OldOverlap, OldOffGrid
<1>9. TypeOK
  <2>1. /\ IsOption(snapshot, Layout) /\ IsOption(loading, Admins)
        /\ IsOption(resizeState, ResizeState) /\ IsOption(resizePreview, ResizePreview)
    BY <1>6 DEF IsOption
  <2>2. posts \subseteq Post /\ company \subseteq Admins /\ touched \subseteq Admins
        /\ dragging \subseteq IdsOf(widgets)
    BY <1>6
  <2>3. edits \in 0 .. MaxEdit /\ visits \in 0 .. MaxVisit
    BY <1>6
  <2>4. \A layout \in Layouts \cup Documents : Distinct(layout)
    BY <1>5, <1>7, <1>8
  <2> QED
    BY <1>2, <1>3, <1>5, <1>6, <2>1, <2>2, <2>3, <2>4 DEF TypeOK
<1>10. WellPlaced
  BY <1>5, <1>7, <1>8 DEF WellPlaced
<1>11. OwnPage /\ Judged
  BY <1>2, <1>6 DEF OwnPage, Judged
<1> QED
  BY <1>9, <1>10, <1>11 DEF Inv

LEMMA NextKeeps ==
  ASSUME Inv, [Next]_vars
  PROVE  Inv'
<1>1. CASE UNCHANGED vars
  <2>1. UNCHANGED <<user, open, widgets, snapshot, loading, loaded, changedWhileLoading, posts,
                    stored, edits, visits, dragging, resizeState, resizePreview, first, company,
                    touched, measured, misjudged>>
    BY <1>1 DEF vars, page, history, resizing
  <2>2. GestureTypes' /\ Judged'
    BY <2>1, JudgedStays DEF Inv, TypeOK, GestureTypes
  <2>3. widgets \in Layout /\ WellBuilt(widgets) /\ Distinct(widgets)
    BY Shown DEF Inv
  <2>4. WellBuilt(widgets)' /\ Distinct(widgets)'
    BY <2>1, <2>3, BuiltStays
  <2>5. TypeOK' /\ WellPlaced'
    BY <2>1, <2>2, <2>3, <2>4, PageStep DEF Inv, TypeOK
  <2>6. OwnPage'
    BY <2>1 DEF Inv, OwnPage, Untouched, Full
  <2> QED
    BY <2>2, <2>5, <2>6 DEF Inv
<1>2. CASE \E t \in WidgetTypes, row \in 0 .. MaxRow : AddWidget(t, row)
  BY <1>2, AddKeeps
<1>3. CASE \E w \in widgets : RemoveWidget(w)
  BY <1>3, RemoveKeeps
<1>4. CASE \E w \in widgets : DragStart(w) \/ DragEnd(w)
  BY <1>4, DragStartKeeps, DragEndKeeps
<1>5. CASE \E w \in widgets, dir \in Dirs : ResizeStart(w, dir)
  BY <1>5, ResizeStartKeeps
<1>6. CASE (\E w \in widgets : ResizeMove(w)) \/ ResizeEnd
  BY <1>6, ResizeMoveKeeps, ResizeEndKeeps
<1>7. CASE BeginEdit \/ SaveEdit
  BY <1>7, BeginKeeps, SaveKeeps
<1>8. CASE CancelEdit \/ CloseDashboard
  BY <1>8, GiveUpKeeps DEF CancelEdit, CloseDashboard
<1>9. CASE OpenDashboard
  BY <1>9, OpenKeeps
<1>10. CASE \E a \in Admins : SignIn(a)
  BY <1>10, SignInKeeps
<1>11. CASE SignOut \/ Reload
  BY <1>11, SignOutKeeps, ReloadKeeps
<1>12. CASE \E a \in Admins, ok \in BOOLEAN : LoadAnswered(a, ok)
  BY <1>12, LoadKeeps
<1>13. CASE \E p \in posts : PostArrives(p) \/ PostFails(p)
  BY <1>13, PostKeeps
<1> QED
  BY <1>1, <1>2, <1>3, <1>4, <1>5, <1>6, <1>7, <1>8, <1>9, <1>10, <1>11, <1>12, <1>13 DEF Next

LEMMA Invariance == Spec => []Inv
<1>1. Init => Inv
  BY InitEstablishes
<1>2. Inv /\ [Next]_vars => Inv'
  BY NextKeeps
<1> QED
  BY <1>1, <1>2, PTL DEF Spec

(* The page's state and the documents have their forms; the stored layout is *)
(* asked for once, and whatever a document holds, what is shown and written   *)
(* is of the registry's types.                                              *)
THEOREM TypeCorrect == Spec => []TypeOK
<1>1. Inv => TypeOK
  BY DEF Inv
<1> QED
  BY <1>1, Invariance, PTL

(* No step puts one widget over another, out of the grid or there twice,      *)
(* shown, staged, on its way or stored, for any registry, any grid and any     *)
(* stored documents, unless the preview of a resize was applied to another     *)
(* layout than it was of.                                                  *)
THEOREM LayoutsWellPlaced == Spec => []WellPlaced
<1>1. Inv => WellPlaced
  BY DEF Inv
<1> QED
  BY <1>1, Invariance, PTL

(* The document of an administrator with every right is as it was until a     *)
(* layout is saved on her page, a drag ends there outside of edit mode or      *)
(* another signs in there.                                                 *)
THEOREM OnlySavesWrite == Spec => []OnlySavesChange
<1>1. Inv => OnlySavesChange
  BY DEF Inv, OwnPage, OnlySavesChange, Full
<1> QED
  BY <1>1, Invariance, PTL
=============================================================================
