------------------------------ MODULE Session ------------------------------
(***************************************************************************)
(* The main window while projects are opened, edited and closed: the       *)
(* project of the Driver, the selection of the SelectionManager, what the  *)
(* drawing area highlights, and the two properties panes, which hold raw   *)
(* pointers to the province and the state they show.  Every action is one  *)
(* handler of the GUI thread, with the callbacks it runs.                  *)
(***************************************************************************)
EXTENDS FiniteSetsExt, PreviewCache

CONSTANTS
  SavedMap,        \* the provinces of the project on disk, as ordered ids
  ImportedMap,     \* the provinces of a map image, whose ids are new
  MaxStateID,      \* bound: the ids of states
  MaxSelected,     \* MAX_SELECTED_PROVINCES
  MaxLoads         \* bound: projects opened and maps imported

ASSUME SessionAssumption ==
  /\ SavedMap \subseteq Nat /\ IsFiniteSet(SavedMap)
  /\ ImportedMap \subseteq Nat /\ IsFiniteSet(ImportedMap)
  /\ SavedMap \intersect ImportedMap = {}
  /\ MaxStateID \in Nat /\ MaxLoads \in Nat /\ MaxSelected \in Nat

VARIABLES
  session,      \* the project in memory, the selection, the drawing area, the panes
  loads,        \* the number of the load the provinces in memory are from
  enabled,      \* whether the menu entries of an open project are enabled
  shown_map,    \* the load of the map the drawing area shows
  tidy          \* history: nothing was done yet that the code is not safe for

vars == <<session, loads, enabled, shown_map, tidy>>

\* A project as it is loaded: no province is merged, none is in a state.
Loaded(provinces) ==
  [open |-> TRUE, provinces |-> provinces, states |-> {},
   root  |-> [p \in provinces |-> p],
   state |-> [p \in provinces |-> 0]]

NoProject == [Loaded({}) EXCEPT !.open = FALSE]

\* A pointer remembers which load its target is from: the next one frees it.
Null == [id |-> 0, load |-> 0]
To(id) == [id |-> id, load |-> loads]

Alive(pointer, ids) == pointer.load = loads /\ pointer.id \in ids

\* What a handler has made of the session so far is v.
isValidProvinceID(v, id) == id \in v.project.provinces
isValidStateID(v, id) == id \in v.project.states

getMergedProvinces(v, id) ==
  {p \in v.project.provinces : isValidProvinceID(v, id) /\ v.project.root[p] = v.project.root[id]}

ProvincesOf(v, s) == {p \in v.project.provinces : v.project.state[p] = s}

\* "broken" tells that the pointer of a pane was followed, a selected province looked up
\* or the project used when it was gone.  "misread" is history: a handler was misled by the
\* memory of the row it belongs to, and nothing was selected anew since.
AtStart ==
  [project |-> NoProject, selected |-> {}, selected_states |-> {}, drawn |-> {},
   province |-> Null, merge_enabled |-> FALSE, merged_rows |-> {},
   state |-> Null, state_rows |-> {},
   cache |-> <<>>, asked |-> <<>>, broken |-> FALSE, misread |-> FALSE]

-----------------------------------------------------------------------------
(* The panes.                                                              *)

\* The list of merged provinces follows the province; without one it is emptied.
UpdateProvincePane(v, multi) ==
  [v EXCEPT !.merge_enabled = v.province # Null /\ multi,
            !.merged_rows = IF v.province = Null THEN {} ELSE getMergedProvinces(v, v.province.id),
            !.broken = @ \/ (v.province # Null /\ ~Alive(v.province, v.project.provinces))]

setProvince(v, pointer, multi) ==
  UpdateProvincePane([v EXCEPT !.province = pointer], multi)

\* The list of provinces follows the state; without one it is left as it is.
UpdateStatePane(v) ==
  [v EXCEPT !.state_rows = IF v.state = Null THEN @ ELSE ProvincesOf(v, v.state.id),
            !.broken = @ \/ (v.state # Null /\ ~Alive(v.state, v.project.states))]

setState(v, pointer) == UpdateStatePane([v EXCEPT !.state = pointer])

\* The n-th of some ids, in their order.
Nth(ids, n) == CHOOSE id \in ids : Cardinality({x \in ids : x < id}) = n - 1

\* "asked" is history.
Preview(v, id) == [v EXCEPT !.cache = getPreviewData(@, id), !.asked = MovedLast(@, id)]

\* The previews of a group are asked for in the order of ids.
PreviewsOf(v, ids) ==
  LET after[n \in 0 .. Cardinality(ids)] ==
        IF n = 0 THEN v ELSE Preview(after[n - 1], Nth(ids, n))
  IN after[Cardinality(ids)]

-----------------------------------------------------------------------------
(* What the main window does when something is selected, before the        *)
(* selection itself changes.                                               *)

isProvinceSelected(v, id) == id \in v.selected

\* Those merged with the province are added to the selection without another callback.
SelectMerged(v, id) ==
  [v EXCEPT !.selected = @ \union {p \in getMergedProvinces(v, id) \ {id} : ~isProvinceSelected(v, p)}]

\* SET: the whole group is highlighted, and shown in the pane one after the other, so
\* that the last one stays.
OnProvinceSet(v, id) ==
  LET group == getMergedProvinces(v, id)
  IN [setProvince(PreviewsOf(SelectMerged(v, id), group), To(Max(group)), FALSE) EXCEPT !.drawn = group]

\* ADD: the pane shows several provinces unless nothing was selected yet.
OnProvinceAdd(v, id) ==
  LET group == getMergedProvinces(v, id)
      w == SelectMerged(v, id)
  IN [setProvince(PreviewsOf(w, group), To(Max(group)), w.selected # {}) EXCEPT !.drawn = @ \union group]

\* Mutant of OnProvinceRemove: those merged with it stay highlighted.
RemoveOnlyOne(v, id) ==
  LET group == getMergedProvinces(v, id)
      w == IF v.province.id \in group THEN setProvince(v, Null, FALSE) ELSE v
  IN [w EXCEPT !.drawn = @ \ {id}]

\* REMOVE: the highlight of the whole group goes, and the pane is emptied if it shows
\* one of them.
OnProvinceRemove(v, id) ==
  LET group == getMergedProvinces(v, id)
      read == group # {} /\ v.province # Null
      w == IF v.province.id \in group THEN setProvince(v, Null, FALSE) ELSE v
  IN [w EXCEPT !.drawn = @ \ group,
               !.broken = @ \/ (read /\ ~Alive(v.province, v.project.provinces))]

\* CLEAR: both panes are emptied; the selected states stay selected.
OnProvinceClear(v) == [setState(setProvince(v, Null, FALSE), Null) EXCEPT !.drawn = {}]

\* SET and ADD are the same for a state, and so are REMOVE and CLEAR.
OnStateSet(v, s) == setState(v, To(s))

OnStateCleared(v) == setState(v, Null)

-----------------------------------------------------------------------------
(* The selection.                                                          *)

\* Of the selection only the province itself remains.
selectProvince(v, id) ==
  IF isValidProvinceID(v, id)
  THEN [OnProvinceSet(v, id) EXCEPT !.selected = {id}, !.misread = FALSE] ELSE v

addProvinceSelection(v, id) ==
  IF isValidProvinceID(v, id) THEN [OnProvinceAdd(v, id) EXCEPT !.selected = @ \union {id}] ELSE v

\* Those merged with it stay selected.  The label is a reference: after the callback it may
\* be another one.
Deselect(v, id, label) ==
  [OnProvinceRemove(v, id) EXCEPT !.selected = @ \ {label}, !.misread = @ \/ label # id]

removeProvinceSelection(v, id) == Deselect(v, id, id)

clearProvinceSelection(v) == [OnProvinceClear(v) EXCEPT !.selected = {}, !.misread = FALSE]

selectState(v, s) ==
  IF isValidStateID(v, s) THEN [OnStateSet(v, s) EXCEPT !.selected_states = {s}] ELSE v

addStateSelection(v, s) ==
  IF isValidStateID(v, s) THEN [OnStateSet(v, s) EXCEPT !.selected_states = @ \union {s}] ELSE v

removeStateSelection(v, s) == [OnStateCleared(v) EXCEPT !.selected_states = @ \ {s}]

clearStateSelection(v) == [OnStateCleared(v) EXCEPT !.selected_states = {}]

-----------------------------------------------------------------------------
(* The life of the project.                                                *)

\* Where the handlers find a project, and every other handler that does nothing
\* without one.
Handles(v) == session.project.open /\ ~session.broken /\ session' = v

\* A project is opened, or created with no provinces, over whatever is open.  The
\* file dialog, left without a choice, opens a project without provinces as well.
Become(provinces) ==
  /\ ~session.broken
  /\ loads < MaxLoads
  /\ loads' = loads + 1
  /\ session' = [session EXCEPT !.project = Loaded(provinces), !.cache = <<>>, !.asked = <<>>]
  /\ enabled' = TRUE

\* The drawing area is given the new map.  (A project that fails to load changes
\* nothing.)
openProject ==
  \E provinces \in {SavedMap, {}} : Become(provinces) /\ shown_map' = loads'

\* The drawing area keeps the map it has.
newProject == Become({}) /\ UNCHANGED shown_map

\* The project is freed first, so that its map is not found to be closed; then the
\* province pane and the highlights are cleared.  The selection and the state pane
\* stay as they are.
closeProject ==
  /\ Handles([setProvince([session EXCEPT !.project = NoProject], Null, FALSE)
                EXCEPT !.drawn = {}, !.cache = <<>>, !.asked = <<>>])
  /\ enabled' = FALSE
  /\ UNCHANGED <<loads, shown_map>>

\* The provinces are replaced by those of another image; the states stay.
importMap ==
  /\ session.project.open /\ ~session.broken
  /\ session.project.provinces # ImportedMap
  /\ loads < MaxLoads
  /\ loads' = loads + 1
  /\ session' = [session EXCEPT !.project = [Loaded(ImportedMap) EXCEPT !.states = session.project.states],
                              !.cache = <<>>, !.asked = <<>>]
  /\ shown_map' = loads'
  /\ UNCHANGED enabled

-----------------------------------------------------------------------------
(* The handlers of an open project.                                        *)

Stays == UNCHANGED <<loads, enabled, shown_map>>

\* A click outside of the map, or the escape key: without a project the latter
\* uses one that is not there.
Outside == Handles(clearProvinceSelection(session)) /\ Stays

EscapeWithoutProject ==
  /\ ~session.project.open /\ ~session.broken
  /\ session' = [session EXCEPT !.broken = TRUE]
  /\ Stays

\* A click on a province selects it, and its state, if it has one.
Click(id) ==
  /\ isValidProvinceID(session, id)
  /\ LET v == selectProvince(session, id)
         s == session.project.state[id]
     IN Handles(IF isValidStateID(session, s) THEN selectState(v, s) ELSE clearStateSelection(v))
  /\ Stays

\* With the shift key held it is added to the selection, unless that has as many
\* provinces as it may, or taken out of it; the state is added in either case.
ShiftClick(id) ==
  /\ isValidProvinceID(session, id)
  /\ id \in session.selected \/ Cardinality(session.selected) # MaxSelected
  /\ LET v == IF id \in session.selected THEN removeProvinceSelection(session, id)
              ELSE addProvinceSelection(session, id)
     IN Handles(addStateSelection(v, session.project.state[id]))
  /\ Stays

\* A row of either list.
ClickRow(id) ==
  /\ id \in session.merged_rows \union (IF session.state = Null THEN {} ELSE session.state_rows)
  /\ Handles(selectProvince(session, id))
  /\ Stays

\* The selection is used to find provinces of the open project.
UsesSelection(v) == [v EXCEPT !.broken = @ \/ ~(v.selected \subseteq v.project.provinces)]

\* "Create State": the selected provinces leave their states for a new one.
CreateState ==
  /\ session.province # Null
  /\ \E s \in (1 .. MaxStateID) \ session.project.states :
       LET v == UsesSelection(session)
           w == [v EXCEPT !.project.states = @ \union {s},
                          !.project.state = [p \in DOMAIN @ |->
                                               IF p \in v.selected THEN s ELSE @[p]]]
       IN Handles(selectState(w, s))
  /\ Stays

\* Mutant of DeleteState: the pane goes on showing the state.
DeleteShownState ==
  /\ session.state # Null
  /\ LET s == session.state.id
         v == [session EXCEPT !.project.states = @ \ {s},
                              !.project.state = [p \in DOMAIN @ |-> IF @[p] = s THEN 0 ELSE @[p]]]
     IN Handles([v EXCEPT !.selected_states = @ \ {s}])
  /\ Stays

\* "Delete State".  The id is read again after the state is freed: the state that
\* is then no longer selected may be it or any other.  (Then the pane is emptied.)
DeleteState ==
  /\ session.state # Null
  /\ LET s == session.state.id
         v == [session EXCEPT !.project.states = @ \ {s},
                              !.project.state = [p \in DOMAIN @ |-> IF @[p] = s THEN 0 ELSE @[p]],
                              !.broken = ~Alive(session.state, session.project.states)]
     IN \E garbage \in 0 .. MaxStateID : Handles(removeStateSelection(v, garbage))
  /\ Stays

AddAll(v, ids) ==
  LET after[n \in 0 .. Cardinality(ids)] ==
        IF n = 0 THEN v ELSE addProvinceSelection(after[n - 1], Nth(ids, n))
  IN after[Cardinality(ids)]

\* "Select All Provinces" of the state.
SelectAllProvinces ==
  /\ session.state # Null
  /\ LET v == AddAll(clearProvinceSelection(session), ProvincesOf(session, session.state.id))
     IN Handles([v EXCEPT !.broken = @ \/ ~Alive(session.state, session.project.states)])
  /\ Stays

\* After a province was taken off the selection: if one is left, so is the state.
DeselectStateOf(v, id) ==
  IF Cardinality(v.selected) = 1 THEN removeStateSelection(v, v.project.state[id]) ELSE v

\* The button of a row of the state's provinces.
TakeOutOfState(id) ==
  /\ session.state # Null /\ id \in session.state_rows
  /\ Handles(IF ~isValidProvinceID(session, id) THEN [session EXCEPT !.state_rows = @ \ {id}]
             ELSE LET v == UsesSelection(DeselectStateOf(removeProvinceSelection(session, id), id))
                  IN [v EXCEPT !.project.state[id] = 0, !.state_rows = @ \ {id}])
  /\ Stays

\* Merging two groups: the root of the second becomes that of both.
MergeWith(first, v, id) ==
  IF isValidProvinceID(v, id)
  THEN [v EXCEPT !.project.root = [p \in DOMAIN @ |-> IF @[p] = @[first] THEN @[id] ELSE @[p]]]
  ELSE v

MergeAll(first, v, ids) ==
  LET after[n \in 0 .. Cardinality(ids)] ==
        IF n = 0 THEN v ELSE MergeWith(first, after[n - 1], Nth(ids, n))
  IN after[Cardinality(ids)]

\* Mutant of Merge: the pane is not updated.
MergeSilently ==
  /\ session.merge_enabled
  /\ session.selected # {} /\ isValidProvinceID(session, Min(session.selected))
  /\ LET first == session.project.root[Min(session.selected)]
     IN Handles(MergeAll(first, session, session.selected \ {first}))
  /\ Stays

\* "Merge Provinces": with the root of the first, one after the other, which is
\* then selected.
Merge ==
  /\ session.merge_enabled
  /\ session.selected # {} /\ isValidProvinceID(session, Min(session.selected))
  /\ LET first == session.project.root[Min(session.selected)]
     IN Handles(selectProvince(MergeAll(first, session, session.selected \ {first}), first))
  /\ Stays

\* A province on its own; if it was the root, another one takes its place.
Unmerged(v, id) ==
  LET others == getMergedProvinces(v, id) \ {id}
  IN [v EXCEPT !.project.root =
        [p \in DOMAIN @ |-> IF p = id THEN id
                            ELSE IF p \in others /\ @[p] = id THEN Min(others)
                            ELSE @[p]]]

\* The id of a row, as its handler reads it once it has deselected the province: if the
\* pane showed one of the group, its list was emptied and the row freed, and the id may be
\* that of another province, or of none.  (The program may also end there: the box to
\* remove the row from is read from the row as well.)
Read(id) ==
  IF session.province # Null /\ session.province.id \in getMergedProvinces(session, id)
  THEN SavedMap \union ImportedMap \union {0, id} ELSE {id}

\* The button of a row of the merged provinces.  Its callback is given the id by
\* reference, deselects the province and then unmerges it.
Unmerge(id) ==
  /\ id \in session.merged_rows
  /\ IF ~isValidProvinceID(session, id) THEN Handles([session EXCEPT !.merged_rows = @ \ {id}])
     ELSE \E label, other \in Read(id) :
            LET v == UsesSelection(DeselectStateOf(Deselect(session, id, label), id))
            IN Handles([Unmerged(v, other) EXCEPT !.merged_rows = @ \ {id},
                                                  !.misread = @ \/ other # id])
  /\ Stays

\* After an edit, an undo or a redo, and for the province pane after the coasts
\* have been recalculated, the panes show again what they point to.
Refresh ==
  LET v == UpdateProvincePane(session, Cardinality(session.selected) > 1)
  IN /\ \E w \in {v, UpdateStatePane(v)} : Handles(w)
     /\ Stays

-----------------------------------------------------------------------------
Init ==
  /\ session = AtStart
  /\ loads = 0 /\ enabled = FALSE /\ shown_map = 0 /\ tidy = TRUE

Edit ==
  \/ Outside
  \/ \E id \in SavedMap \union ImportedMap :
       Click(id) \/ ShiftClick(id) \/ ClickRow(id) \/ TakeOutOfState(id) \/ Unmerge(id)
  \/ CreateState
  \/ DeleteState
  \/ SelectAllProvinces
  \/ Merge
  \/ Refresh

NothingSelected == session.selected = {} /\ session.state = Null

\* What the code is safe for: a project is closed before another is opened, with
\* nothing selected; a map is imported into a project that has none; the escape key
\* is not used without a project.
Tidily(condition) == tidy' = (tidy /\ condition)

Next ==
  \/ openProject /\ Tidily(~session.project.open)
  \/ newProject /\ Tidily(~session.project.open)
  \/ closeProject /\ Tidily(NothingSelected)
  \/ importMap /\ Tidily(session.project.provinces = {})
  \/ EscapeWithoutProject /\ Tidily(FALSE)
  \/ Edit /\ UNCHANGED tidy

Spec == Init /\ [][Next]_vars

-----------------------------------------------------------------------------
(* Properties.                                                             *)

\* The window follows the project.  The menu offers to save, export, import and close
\* when a project is open, and only then (MainWindow::onProjectOpened and
\* onProjectClosed), and the drawing area shows the map of the project, once that has
\* provinces: every load that brings some hands it the new map.  As long as the session
\* is tidy, the panes point to a province and a state that exist: whatever frees them
\* empties the pane before the next event, and no handler follows their pointers, looks up
\* a selected province or uses the project after it was freed by an earlier one.  Two
\* handlers read what they have freed themselves, the id of the state that is deleted and
\* that of the row whose button unmerges: all this holds whatever they read there.
WindowFollowsProject ==
  /\ enabled <=> session.project.open
  /\ session.project.provinces # {} => shown_map = loads
  /\ tidy => /\ ~session.broken
             /\ session.province # Null => Alive(session.province, session.project.provinces)
             /\ session.state # Null => Alive(session.state, session.project.states)

\* The province that is edited is one of those the user sees highlighted; and in a tidy
\* session every highlighted province is selected, or merged with one that is: a button
\* that works on the selection does not pass over it.  (Not so if unmerging misread the
\* row it had freed, until something is selected anew.)
SelectionShown ==
  /\ session.province # Null => session.province.id \in session.drawn
  /\ tidy /\ ~session.misread =>
       \A p \in session.drawn : \E q \in session.selected : p \in getMergedProvinces(session, q)

\* In a tidy session the lists of the panes show the provinces merged with the
\* province, and the provinces of the state, as they are now.
ListsAreCurrent ==
  tidy => /\ session.province # Null =>
               session.merged_rows = getMergedProvinces(session, session.province.id)
          /\ session.state # Null => session.state_rows = ProvincesOf(session, session.state.id)

\* The cache holds the previews that were asked for last, in that order, and no
\* more than its bound: "the least accessed preview will be kicked out"
\* (ProvinceProject.cpp:713-714).
CacheHoldsLatest ==
  LET n == Len(session.asked)
  IN session.cache = IF n <= MaxCached THEN session.asked
                     ELSE SubSeq(session.asked, n - MaxCached + 1, n)
=============================================================================
