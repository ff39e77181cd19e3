----------------------------- MODULE StatesView -----------------------------
(***************************************************************************)
(* The states view of the map (StateRenderingView, in a MapDrawingArea).   *)
(* What is drawn is not the matrix of state ids but a texture of it, which *)
(* is uploaded when the tag of the map data differs from the tag of the    *)
(* last upload.  States writes the matrix where it is and leaves the tag   *)
(* alone.  Frames are drawn on the GUI thread, between the operations of   *)
(* States, of which the program is never killed during a save, the saves   *)
(* succeed, and no project is closed with a gap in the saved ids.          *)
(***************************************************************************)
EXTENDS States

CONSTANT Nothing    \* a null pointer, an empty texture

\* The state ids of all pixels, as a matrix.
Matrices == [Provinces -> StateIDs \union {NoState, Imported}]
ASSUME NothingAssumption == Nothing \notin Matrices

VARIABLES
  viewing_mode,    \* of the drawing area: provinces or states
  map_matrix,      \* the state ids of the map data the area and the view have
  view,            \* the StateRenderingView: its texture and the tag of that
  outdated         \* history: since the upload a state was edited or a map given

area     == <<viewing_mode, map_matrix, view, outdated>>
viewVars == <<vars, area>>

ViewingModes == {"provinces", "states"}
NoTag        == -1

\* setStateIDMatrix, which would count the tag up, is never called.
getStateIDMatrixUpdatedTag == 0

\* Mutant of beginRender: the tag is taken over, the texture is not uploaded.
TagOnly(v) == [v EXCEPT !.last_tag = getStateIDMatrixUpdatedTag]

\* The texture is uploaded only if the tag says that the matrix has changed.
beginRender(v) ==
  IF map_matrix # Nothing /\ v.last_tag # getStateIDMatrixUpdatedTag
  THEN [texture |-> map_matrix, last_tag |-> getStateIDMatrixUpdatedTag]
  ELSE v

\* The state every province is drawn in: states are drawn one by one, those
\* without provinces are skipped, and without a project nothing is drawn.
render(v) ==
  [p \in Provinces |->
     IF /\ phase # "closed" /\ v.texture # Nothing
        /\ v.texture[p] \in DOMAIN m_states /\ m_states[v.texture[p]] # {}
     THEN v.texture[p]
     ELSE NoState]

-----------------------------------------------------------------------------
\* A frame is drawn, of the view that is current.
on_render ==
  /\ map_matrix # Nothing
  /\ viewing_mode = "states"
  /\ view' = beginRender(view)
  /\ UNCHANGED <<vars, viewing_mode, map_matrix, outdated>>

\* The menu entries and the button of the toolbar.
setViewingMode(mode) ==
  /\ viewing_mode' = mode
  /\ UNCHANGED <<vars, map_matrix, view, outdated>>

\* The matrix has been written, or is of another map, while the texture stays.
Rewritten == outdated' = (outdated \/ view.texture # Nothing)

\* An edit writes the matrix of the map the area has.
EditStates ==
  /\ Edit \/ (\E p \in Provinces, id \in DOMAIN m_states : moveProvinceToState(p, id))
  /\ map_matrix' = state_id_matrix'
  /\ Rewritten
  /\ UNCHANGED <<viewing_mode, view>>

Save == (SaveProvinces \/ SaveStates) /\ UNCHANGED area

\* The drawing area keeps the map of the project that is closed.
CloseProject ==
  /\ phase = "open" /\ NoGap /\ Exit
  /\ UNCHANGED area

\* The view as the first frame of the program, which has no map, sets it up.
NewView == [texture |-> Nothing, last_tag |-> NoTag]

\* The program ends and is started again.
Restart ==
  /\ phase = "closed"
  /\ viewing_mode' = "provinces"
  /\ map_matrix' = Nothing
  /\ view' = NewView
  /\ outdated' = FALSE
  /\ UNCHANGED vars

\* A project that is opened gives its map to the drawing area (setMapData).
OpenProject ==
  /\ \E fix \in BOOLEAN : Open(fix)
  /\ IF phase' = "open"
     THEN /\ map_matrix' = state_id_matrix'
          /\ Rewritten
     ELSE UNCHANGED <<map_matrix, outdated>>
  /\ UNCHANGED <<viewing_mode, view>>

\* An imported map, which the area has been given.
ViewInit ==
  /\ Init
  /\ viewing_mode = "provinces"
  /\ map_matrix = state_id_matrix
  /\ view = NewView
  /\ outdated = FALSE

ViewNext ==
  \/ on_render
  \/ \E mode \in ViewingModes : setViewingMode(mode)
  \/ EditStates
  \/ Save
  \/ CloseProject
  \/ Restart
  \/ OpenProject

ViewSpec == ViewInit /\ [][ViewNext]_viewVars

-----------------------------------------------------------------------------
(* Properties of ViewSpec.                                                 *)

\* The next frame of the states view (StateRenderingView.cpp:42-131) draws every
\* province in its state and no other, as long as no state was edited and no map
\* given since the texture was uploaded: the condition is what the comment at
\* line 45 leaves out.
FrameShowsStates ==
  phase # "closed" /\ ~outdated =>
    \A p \in Provinces : render(beginRender(view))[p] = InState(province_state[p])
=============================================================================
