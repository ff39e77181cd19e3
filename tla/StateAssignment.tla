-------------------------- MODULE StateAssignment --------------------------
(***************************************************************************)
(* What the states promise: every province is in one state at most, of     *)
(* those that exist; a new state is one that did not exist, and opening    *)
(* the project brings back what was saved.                                 *)
(***************************************************************************)
EXTENDS Naturals

CONSTANTS
  Provinces,
  None        \* the state of a province that is in no state

VARIABLES
  state,         \* the state of every province
  states,        \* the states that exist
  savedState,
  savedStates

assignmentVars == <<state, states, savedState, savedStates>>

Move(chosen, id) == state' = [p \in Provinces |-> IF p \in chosen THEN id ELSE state[p]]

Create(chosen) ==
  \E id \in states' \ states :
    /\ states' = states \union {id}
    /\ Move(chosen, id)
    /\ UNCHANGED <<savedState, savedStates>>

Delete(id) ==
  /\ states' = states \ {id}
  /\ Move({p \in Provinces : state[p] = id}, None)
  /\ UNCHANGED <<savedState, savedStates>>

Transfer(p) ==
  /\ \E id \in states \union {None} : Move({p}, id)
  /\ UNCHANGED <<states, savedState, savedStates>>

Save ==
  /\ savedState' = state
  /\ savedStates' = states
  /\ UNCHANGED <<state, states>>

Restore ==
  /\ state' = savedState
  /\ states' = savedStates
  /\ UNCHANGED <<savedState, savedStates>>

Init ==
  /\ state = [p \in Provinces |-> None]
  /\ states = {}
  /\ savedState = state
  /\ savedStates = states

Next ==
  \/ \E chosen \in SUBSET Provinces : Create(chosen)
  \/ \E id \in states : Delete(id)
  \/ \E p \in Provinces : Transfer(p)
  \/ Save
  \/ Restore

Spec == Init /\ [][Next]_assignmentVars
=============================================================================
