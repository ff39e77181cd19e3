------------------------------- MODULE States -------------------------------
(***************************************************************************)
(* States (StateProject, MapProject).  Which state a province is in is     *)
(* kept three times: the province knows the id of its state, the state     *)
(* lists its provinces, and a matrix with the state id of every pixel is   *)
(* what is drawn.  The first two are saved to two files, one after the     *)
(* other, and compared when the project is opened.  The operations run on  *)
(* the GUI thread, to completion; the program may be killed at any moment. *)
(***************************************************************************)
EXTENDS Integers, Sequences, FiniteSets

CONSTANTS
  Provinces,    \* the ids of the provinces of the map
  MaxStateID    \* bound: no state with a greater id is created

ASSUME ProvincesAreFinite == IsFiniteSet(Provinces)

StateIDs == Nat \ {0}
NoState  == -1      \* the greatest StateID (32 bits): in no state any more
Imported == 0       \* what a province has from the import on

VARIABLES
  phase,                    \* of the project: open, saving (half saved) or closed
  province_state,           \* Province::state of every province
  m_states,                 \* the states: from their ids to the provinces they list
  m_available_state_ids,    \* the queue of ids that were given back
  state_id_matrix,          \* the state id of the pixels of every province
  saved_province_state,     \* the states in the province data file
  saved_states              \* the state data file

memory == <<province_state, m_states, m_available_state_ids, state_id_matrix>>
files  == <<saved_province_state, saved_states>>
vars   == <<phase, memory, files>>

ListsOver(ids) == [ids -> SUBSET Provinces]

TypeOK ==
  /\ phase \in {"open", "saving", "closed"}
  /\ province_state \in [Provinces -> StateIDs \union {NoState, Imported}]
  /\ state_id_matrix \in [Provinces -> StateIDs \union {NoState, Imported}]
  /\ saved_province_state \in [Provinces -> StateIDs \union {NoState, Imported}]
  /\ DOMAIN m_states \subseteq StateIDs /\ m_states \in ListsOver(DOMAIN m_states)
  /\ DOMAIN saved_states \subseteq StateIDs /\ saved_states \in ListsOver(DOMAIN saved_states)
  /\ m_available_state_ids \in Seq(StateIDs)

NoStates == [s \in {} |-> {}]

\* Every state but the ones in ids.
Without(states, ids) == [s \in DOMAIN states \ ids |-> states[s]]

isValidStateID(id) == id \in DOMAIN m_states

\* The ids in the queue.
Available == {m_available_state_ids[i] : i \in DOMAIN m_available_state_ids}

-----------------------------------------------------------------------------
(* Operations on the open project.                                         *)

\* Every operation ends with updateStateIDMatrix, which reads the new states.
updateStateIDMatrix == state_id_matrix' = province_state'

Edits == phase = "open" /\ UNCHANGED <<phase, files>>

\* Mutant of NewID: ids that were given back are not used again.
NewIDByCount == Cardinality(DOMAIN m_states) + 1

\* The id of the next state: one that was given back, or one more than there are.
NewID == IF m_available_state_ids = <<>>
         THEN Cardinality(DOMAIN m_states) + 1
         ELSE Head(m_available_state_ids)

\* Mutant of LeaveOldStates: the provinces stay in the lists they were in.
StayInOldStates(chosen) == m_states

\* The lists once the provinces have left the states they say they are in.
LeaveOldStates(chosen) ==
  [s \in DOMAIN m_states |-> m_states[s] \ {p \in chosen : province_state[p] = s}]

\* "Create State", with the selected provinces.
addNewState(chosen) ==
  LET id == NewID
  IN /\ Edits
     /\ id <= MaxStateID
     /\ m_available_state_ids' = IF m_available_state_ids = <<>> THEN <<>>
                                 ELSE Tail(m_available_state_ids)
     /\ province_state' = [p \in Provinces |-> IF p \in chosen THEN id ELSE province_state[p]]
     /\ m_states' = [s \in DOMAIN m_states \union {id} |->
                       IF s = id THEN chosen ELSE LeaveOldStates(chosen)[s]]
     /\ updateStateIDMatrix

\* Mutant of removeState: the provinces are not disconnected from the state.
removeStateOnly(id) ==
  /\ Edits
  /\ isValidStateID(id)
  /\ m_available_state_ids' = Append(m_available_state_ids, id)
  /\ m_states' = Without(m_states, {id})
  /\ UNCHANGED <<province_state, state_id_matrix>>

\* "Delete State".  The id of a state that does not exist changes nothing.
removeState(id) ==
  /\ Edits
  /\ isValidStateID(id)
  /\ province_state' = [p \in Provinces |->
                          IF p \in m_states[id] THEN NoState ELSE province_state[p]]
  /\ m_available_state_ids' = Append(m_available_state_ids, id)
  /\ m_states' = Without(m_states, {id})
  /\ updateStateIDMatrix

\* A province is taken off the list the GUI shows of a state.
removeProvinceFromState(p) ==
  /\ Edits
  /\ \E s \in DOMAIN m_states : p \in m_states[s]
  /\ m_states' = LeaveOldStates({p})
  /\ province_state' = [province_state EXCEPT ![p] = NoState]
  /\ updateStateIDMatrix
  /\ UNCHANGED m_available_state_ids

\* To an existing state (no part of the GUI calls it yet).
moveProvinceToState(p, id) ==
  /\ Edits
  /\ isValidStateID(id)
  /\ m_states' = [LeaveOldStates({p}) EXCEPT ![id] = @ \union {p}]
  /\ province_state' = [province_state EXCEPT ![p] = id]
  /\ updateStateIDMatrix
  /\ UNCHANGED m_available_state_ids

-----------------------------------------------------------------------------
(* Saving and opening the project.                                         *)

\* The map project saves its provinces first ...
SaveProvinces ==
  /\ phase = "open"
  /\ phase' = "saving"
  /\ saved_province_state' = province_state
  /\ UNCHANGED <<memory, saved_states>>

\* Mutant of SaveStates: a state without provinces is not written.
SaveStatesInUse ==
  /\ phase = "saving"
  /\ phase' = "open"
  /\ saved_states' = Without(m_states, {s \in DOMAIN m_states : m_states[s] = {}})
  /\ UNCHANGED <<memory, saved_province_state>>

\* ... the history project its states last ...
SaveStates ==
  /\ phase = "saving"
  /\ phase' = "open"
  /\ saved_states' = m_states
  /\ UNCHANGED <<memory, saved_province_state>>

\* ... unless the continents, the height map, the rivers or the states fail to be
\* saved, which ends the save with an error.
SaveFails ==
  /\ phase = "saving"
  /\ phase' = "open"
  /\ UNCHANGED <<memory, files>>

\* The project is closed, or the program is killed, in the midst of a save or not.
Exit ==
  /\ phase # "closed"
  /\ phase' = "closed"
  /\ province_state' = [p \in Provinces |-> NoState]
  /\ m_states' = NoStates
  /\ m_available_state_ids' = <<>>
  /\ updateStateIDMatrix
  /\ UNCHANGED files

\* What validateProvinceStateID holds against a province.
InvalidStateID(p, of, states)     == of[p] # NoState /\ of[p] \notin DOMAIN states
ProvinceNotInState(p, of, states) == of[p] \in DOMAIN states /\ p \notin states[of[p]]

Valid(of, states) ==
  \A p \in Provinces : ~InvalidStateID(p, of, states) /\ ~ProvinceNotInState(p, of, states)

\* The first state, in the order of ids, that lists the province once it has been
\* added to the state it says it is in: the one it is then removed from.
FirstListing(p, of, states) ==
  LET listing == {of[p]} \union {s \in DOMAIN states : p \in states[s]}
  IN CHOOSE s \in listing : \A t \in listing : s <= t

\* --fix-warnings-on-load.
FixedStateOf(of, states) ==
  [p \in Provinces |-> IF InvalidStateID(p, of, states) THEN NoState ELSE of[p]]

FixedStates(of, states) ==
  LET wrong == {p \in Provinces : ProvinceNotInState(p, of, states)}
  IN [s \in DOMAIN states |->
        (states[s] \union {p \in wrong : of[p] = s})
          \ {p \in wrong : FirstListing(p, of, states) = s}]

\* Mutant of UnusedIDs: the ids of all states are taken for unused.
AllIDsUnused(ids) == 1 .. (Cardinality(ids) - 1)

\* The ids the loader finds unused: it looks only at those below the number of
\* states.
UnusedIDs(ids) == (1 .. (Cardinality(ids) - 1)) \ ids

Ascending(ids) ==
  CHOOSE q \in [1 .. Cardinality(ids) -> ids] :
    \A i, j \in 1 .. Cardinality(ids) : i < j => q[i] < q[j]

\* The files are read, the matrix is updated, and only then are the provinces
\* validated: if that fails without fix, the project is not opened.
Open(fix) ==
  /\ phase = "closed"
  /\ \/ /\ ~fix /\ ~Valid(saved_province_state, saved_states)
        /\ UNCHANGED <<phase, memory>>
     \/ /\ fix \/ Valid(saved_province_state, saved_states)
        /\ phase' = "open"
        /\ province_state' = FixedStateOf(saved_province_state, saved_states)
        /\ m_states' = FixedStates(saved_province_state, saved_states)
        /\ m_available_state_ids' = Ascending(UnusedIDs(DOMAIN saved_states))
        /\ state_id_matrix' = saved_province_state
  /\ UNCHANGED files

-----------------------------------------------------------------------------
\* A map that was imported and saved at once.
Init ==
  /\ phase = "open"
  /\ province_state = [p \in Provinces |-> Imported]
  /\ m_states = NoStates
  /\ m_available_state_ids = <<>>
  /\ state_id_matrix = province_state
  /\ saved_province_state = province_state
  /\ saved_states = m_states

Edit ==
  \/ \E chosen \in SUBSET Provinces \ {{}} : addNewState(chosen)
  \/ \E id \in DOMAIN m_states : removeState(id)
  \/ \E p \in Provinces : removeProvinceFromState(p)

Next ==
  \/ Edit
  \/ SaveProvinces
  \/ SaveStates
  \/ SaveFails
  \/ Exit
  \/ \E fix \in BOOLEAN : Open(fix)

Spec == Init /\ [][Next]_vars

\* The saved states have the ids 1, 2, ..., without a gap that UnusedIDs misses.
NoGap == DOMAIN saved_states = 1 .. Cardinality(DOMAIN saved_states)

\* Never opened with --fix-warnings-on-load, nor closed (and opened again) with a
\* gap in the saved ids.
StrictNext ==
  \/ Edit
  \/ SaveProvinces
  \/ SaveStates
  \/ SaveFails
  \/ NoGap /\ Exit
  \/ Open(FALSE)

StrictSpec == Init /\ [][StrictNext]_vars

-----------------------------------------------------------------------------
(* Properties of Spec.                                                     *)

\* The queue holds ids of no state, none of them twice: an id taken from it
\* (StateProject.cpp:454-457) never overwrites a state.
AvailableAreUnused ==
  /\ Available \intersect DOMAIN m_states = {}
  /\ \A i, j \in DOMAIN m_available_state_ids :
       m_available_state_ids[i] = m_available_state_ids[j] => i = j

-----------------------------------------------------------------------------
(* Properties of StrictSpec.                                               *)

\* However often the program is killed between the two files, a province that
\* is in a state is in a state that exists and lists it.
AssignedIsListed ==
  \A p \in Provinces :
    province_state[p] \in StateIDs =>
      isValidStateID(province_state[p]) /\ p \in m_states[province_state[p]]

\* Every pixel is drawn in the state its province is in: no operation that moves
\* a province forgets updateStateIDMatrix.
MatrixIsCurrent == state_id_matrix = province_state

\* The ids of the states and the ids in the queue are 1, 2, ..., n, so that one
\* more than the number of states is a new id when the queue is empty.
IDsAccountedFor ==
  LET ids == DOMAIN m_states \union Available
  IN ids = 1 .. Cardinality(ids)

-----------------------------------------------------------------------------
(* Properties of ViewSpec (StatesView), in which the program is never killed *)
(* during a save, the saves succeed, and the saved ids have no gap.          *)

\* The three copies implement an assignment of provinces to states.  A project
\* that is not open stands for what was saved, and the provinces are saved
\* together with the states.
InState(id) == IF id \in StateIDs THEN id ELSE NoState

Assignment == INSTANCE StateAssignment WITH
  None        <- NoState,
  state       <- [p \in Provinces |->
                    InState((IF phase = "closed" THEN saved_province_state
                                                 ELSE province_state)[p])],
  states      <- DOMAIN (IF phase = "closed" THEN saved_states ELSE m_states),
  savedState  <- [p \in Provinces |-> InState(saved_province_state[p])],
  savedStates <- DOMAIN (IF phase = "saving" THEN m_states ELSE saved_states)

AssignmentSpec == Assignment!Spec

\* The state that lists a province is the state the province says it is in, and
\* the state it is drawn in.
CopiesAgree ==
  phase # "closed" =>
    \A p \in Provinces :
      /\ InState(state_id_matrix[p]) = InState(province_state[p])
      /\ \A s \in DOMAIN m_states : p \in m_states[s] <=> province_state[p] = s
=============================================================================
