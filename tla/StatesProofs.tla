---------------------------- MODULE StatesProofs ----------------------------
(***************************************************************************)
(* Theorems about the states of a project, for every map and every bound   *)
(* on the ids: first of one that is opened without fixing its warnings and *)
(* is never closed with a gap in its saved state ids, but may be killed    *)
(* between the two files of a save and opened again; then of one that is   *)
(* used in any way; and last of an undisturbed one, with the view of it:   *)
(* the three copies of who is in which state agree, they implement one     *)
(* assignment, saved and restored as a whole, and the view draws it until  *)
(* it is outdated.                                                         *)
(***************************************************************************)
EXTENDS StatesView, FiniteSetTheorems, SequenceTheorems, TLAPS

\* The ids that have been used are 1, ..., n; an id is in use or available, not
\* both, and available once.
IDInv ==
  /\ \E n \in Nat : DOMAIN m_states \union Available = 1 .. n
  /\ AvailableAreUnused

\* What is read from the files of a closed project.
FileInv ==
  /\ IsFiniteSet(DOMAIN saved_states)
  /\ phase = "closed" => NoGap

\* The inductive invariant: AssignedIsListed alone is not kept by addNewState,
\* which replaces the state that has the new id if there is one.
StrictInv ==
  /\ TypeOK
  /\ IDInv
  /\ FileInv
  /\ AssignedIsListed
  /\ MatrixIsCurrent

-----------------------------------------------------------------------------
(* Ids.                                                                    *)

\* The states that exist are finitely many.
LEMMA StatesAreFinite ==
  ASSUME IDInv
  PROVE  IsFiniteSet(DOMAIN m_states)
<1>1. PICK n \in Nat : DOMAIN m_states \union Available = 1 .. n
  BY DEF IDInv
<1>2. IsFiniteSet(1 .. n) /\ DOMAIN m_states \subseteq 1 .. n
  BY <1>1, FS_Interval
<1> QED BY <1>2, FS_Subset

\* The id of a new state is one that no state has (StateProject.cpp:453-457).
LEMMA NewIDIsNew ==
  ASSUME TypeOK, IDInv
  PROVE  NewID \in StateIDs /\ NewID \notin DOMAIN m_states
<1>1. PICK n \in Nat : DOMAIN m_states \union Available = 1 .. n
  BY DEF IDInv
<1>2. CASE m_available_state_ids = <<>>
  <2>1. Available = {} /\ DOMAIN m_states = 1 .. n
    <3>1. Available = {}
      BY <1>2 DEF Available
    <3> QED BY <1>1, <3>1
  <2>2. Cardinality(DOMAIN m_states) = n
    BY <2>1, FS_Interval
  <2> QED BY <1>2, <2>1, <2>2 DEF NewID, StateIDs
<1>3. CASE m_available_state_ids # <<>>
  <2>1. /\ 1 \in DOMAIN m_available_state_ids
        /\ Head(m_available_state_ids) = m_available_state_ids[1]
        /\ m_available_state_ids[1] \in StateIDs
    BY <1>3 DEF TypeOK
  <2>2. m_available_state_ids[1] \in Available
    BY <2>1 DEF Available
  <2> QED BY <1>3, <2>1, <2>2 DEF NewID, IDInv, AvailableAreUnused
<1> QED BY <1>2, <1>3

\* Giving out the id keeps the ids accounted for.
LEMMA NewIDKeepsIDs ==
  ASSUME TypeOK, IDInv,
         DOMAIN m_states' = DOMAIN m_states \union {NewID},
         m_available_state_ids' = IF m_available_state_ids = <<>> THEN <<>>
                                  ELSE Tail(m_available_state_ids)
  PROVE  IDInv' /\ m_available_state_ids' \in Seq(StateIDs)
<1>1. PICK n \in Nat : DOMAIN m_states \union Available = 1 .. n
  BY DEF IDInv
<1>2. CASE m_available_state_ids = <<>>
  <2>1. DOMAIN m_states = 1 .. n /\ Available = {} /\ Available' = {}
    BY <1>1, <1>2 DEF Available
  <2>2. NewID = n + 1
    <3>1. Cardinality(DOMAIN m_states) = n
      BY <2>1, FS_Interval
    <3> QED BY <1>2, <3>1 DEF NewID
  <2>3. (DOMAIN m_states \union Available)' = 1 .. n + 1
    BY <2>1, <2>2
  <2> QED BY <1>2, <2>1, <2>3 DEF IDInv, AvailableAreUnused
<1>3. CASE m_available_state_ids # <<>>
  <2> DEFINE q == m_available_state_ids
             t == Tail(m_available_state_ids)
  <2>1. /\ q \in Seq(StateIDs) /\ t \in Seq(StateIDs) /\ NewID = q[1]
        /\ Len(q) \in Nat \ {0} /\ Len(t) = Len(q) - 1 /\ DOMAIN t = 1 .. Len(q) - 1
        /\ DOMAIN q = 1 .. Len(q)
        /\ \A i \in 1 .. Len(q) - 1 : t[i] = q[i + 1]
    BY <1>3 DEF TypeOK, NewID
  <2>2. m_available_state_ids' = t
    BY <1>3
  <2>3. \A i, j \in DOMAIN q : q[i] = q[j] => i = j
    BY DEF IDInv, AvailableAreUnused
  <2>4. Available' = Available \ {NewID}
    <3>1. Available' = {t[i] : i \in 1 .. Len(q) - 1}
      BY <2>1, <2>2 DEF Available
    <3>2. ASSUME NEW id \in Available'
          PROVE  id \in Available \ {NewID}
      <4>1. PICK i \in 1 .. Len(q) - 1 : id = q[i + 1]
        BY <2>1, <3>1
      <4>2. i + 1 \in DOMAIN q /\ 1 \in DOMAIN q /\ i + 1 # 1
        BY <2>1, <4>1
      <4> QED BY <2>1, <2>3, <4>1, <4>2 DEF Available
    <3>3. ASSUME NEW id \in Available, id # NewID
          PROVE  id \in Available'
      <4>1. PICK i \in DOMAIN q : id = q[i]
        BY DEF Available
      <4>2. i - 1 \in 1 .. Len(q) - 1 /\ id = t[i - 1]
        BY <2>1, <3>3, <4>1
      <4> QED BY <3>1, <4>2
    <3> QED BY <3>2, <3>3
  <2>5. NewID \in Available
    BY <2>1 DEF Available
  <2>6. (DOMAIN m_states \union Available)' = 1 .. n
    BY <1>1, <2>4, <2>5
  <2>7. (Available \intersect DOMAIN m_states)' = {}
    BY <2>4 DEF IDInv, AvailableAreUnused
  <2>8. \A i, j \in DOMAIN t : t[i] = t[j] => i = j
    <3> SUFFICES ASSUME NEW i \in DOMAIN t, NEW j \in DOMAIN t, t[i] = t[j] PROVE i = j
      OBVIOUS
    <3>1. i + 1 \in DOMAIN q /\ j + 1 \in DOMAIN q /\ q[i + 1] = q[j + 1] /\ i \in Nat /\ j \in Nat
      BY <2>1
    <3> QED BY <2>3, <3>1
  <2> QED BY <2>1, <2>2, <2>6, <2>7, <2>8 DEF IDInv, AvailableAreUnused
<1> QED BY <1>2, <1>3

\* So does giving one back.
LEMMA ReturnedIDKeepsIDs ==
  ASSUME TypeOK, IDInv, NEW id \in DOMAIN m_states,
         DOMAIN m_states' = DOMAIN m_states \ {id},
         m_available_state_ids' = Append(m_available_state_ids, id)
  PROVE  IDInv' /\ m_available_state_ids' \in Seq(StateIDs)
<1> DEFINE q == m_available_state_ids
           t == m_available_state_ids'
<1>1. PICK n \in Nat : DOMAIN m_states \union Available = 1 .. n
  BY DEF IDInv
<1>2. id \in StateIDs
  BY DEF TypeOK
<1>3. /\ q \in Seq(StateIDs) /\ t \in Seq(StateIDs) /\ Len(q) \in Nat
      /\ DOMAIN q = 1 .. Len(q) /\ DOMAIN t = 1 .. Len(q) + 1
      /\ t[Len(q) + 1] = id /\ \A i \in 1 .. Len(q) : t[i] = q[i]
  BY <1>2 DEF TypeOK
<1>4. Available' = Available \union {id}
  <2>1. Available' = {t[i] : i \in 1 .. Len(q) + 1}
    BY <1>3 DEF Available
  <2>2. ASSUME NEW x \in Available'
        PROVE  x \in Available \union {id}
    <3>1. PICK i \in 1 .. Len(q) + 1 : x = t[i]
      BY <2>1
    <3>2. CASE i \in 1 .. Len(q)
      BY <1>3, <3>1, <3>2 DEF Available
    <3>3. CASE i \notin 1 .. Len(q)
      BY <1>3, <3>1, <3>3
    <3> QED BY <3>2, <3>3
  <2>3. ASSUME NEW x \in Available
        PROVE  x \in Available'
    <3>1. PICK i \in 1 .. Len(q) : x = q[i]
      BY <1>3 DEF Available
    <3> QED BY <1>3, <2>1, <3>1
  <2>4. id \in Available'
    BY <1>3, <2>1
  <2> QED BY <2>2, <2>3, <2>4
<1>5. (DOMAIN m_states \union Available)' = 1 .. n
  BY <1>1, <1>4
<1>6. (Available \intersect DOMAIN m_states)' = {}
  BY <1>4 DEF IDInv, AvailableAreUnused
<1>7. \A i, j \in DOMAIN t : t[i] = t[j] => i = j
  <2>1. \A i \in 1 .. Len(q) : q[i] # id
    BY <1>3 DEF IDInv, AvailableAreUnused, Available
  <2>2. \A i, j \in 1 .. Len(q) : q[i] = q[j] => i = j
    BY <1>3 DEF IDInv, AvailableAreUnused
  <2> QED BY <1>3, <2>1, <2>2
<1> QED BY <1>3, <1>5, <1>6, <1>7 DEF IDInv, AvailableAreUnused

-----------------------------------------------------------------------------
(* The invariant.                                                          *)

\* A finite set of ids 1, ..., n has no unused id for the loader to find.
LEMMA NoGapNoneUnused ==
  ASSUME FileInv, NoGap
  PROVE  Ascending(UnusedIDs(DOMAIN saved_states)) = <<>>
<1>1. Cardinality(DOMAIN saved_states) \in Nat
  BY FS_CardinalityType DEF FileInv
<1>2. UnusedIDs(DOMAIN saved_states) = {}
  BY <1>1 DEF UnusedIDs, NoGap
<1>3. Cardinality({}) = 0
  BY FS_EmptySet
<1>4. [1 .. 0 -> {}] = {<<>>}
  <2>1. ASSUME NEW q \in [1 .. 0 -> {}]
        PROVE  q = <<>>
    <3>1. q \in Seq({}) /\ Len(q) = 0
      BY <2>1, LenProperties
    <3> QED BY <3>1, EmptySeq
  <2>2. <<>> \in [1 .. 0 -> {}]
    OBVIOUS
  <2> QED BY <2>1, <2>2
<1> QED BY <1>2, <1>3, <1>4 DEF Ascending

\* Valid files are read as they are.
LEMMA ValidIsNotFixed ==
  ASSUME TypeOK, Valid(saved_province_state, saved_states)
  PROVE  /\ FixedStateOf(saved_province_state, saved_states) = saved_province_state
         /\ FixedStates(saved_province_state, saved_states) = saved_states
BY DEF TypeOK, ListsOver, Valid, FixedStateOf, FixedStates

LEMMA StrictInvInit == Init => StrictInv
<1> SUFFICES ASSUME Init PROVE StrictInv
  OBVIOUS
<1>1. DOMAIN m_states = {} /\ Available = {}
  BY DEF Init, NoStates, Available
<1>2. TypeOK
  BY <1>1 DEF Init, TypeOK, NoStates, ListsOver, Imported
<1>3. IDInv
  <2>1. DOMAIN m_states \union Available = 1 .. 0
    BY <1>1
  <2> QED BY <1>1, <2>1 DEF Init, IDInv, AvailableAreUnused
<1>4. FileInv
  BY <1>1, FS_EmptySet DEF Init, FileInv
<1>5. AssignedIsListed /\ MatrixIsCurrent
  BY DEF Init, AssignedIsListed, MatrixIsCurrent, Imported, StateIDs
<1> QED BY <1>2, <1>3, <1>4, <1>5 DEF StrictInv

LEMMA addNewStateKeepsInv ==
  ASSUME StrictInv, NEW chosen \in SUBSET Provinces, addNewState(chosen)
  PROVE  StrictInv'
<1> DEFINE id == NewID
<1>1. id \in StateIDs /\ id \notin DOMAIN m_states
  BY NewIDIsNew DEF StrictInv
<1>2. DOMAIN m_states' = DOMAIN m_states \union {id}
  BY DEF addNewState
<1>3. IDInv' /\ m_available_state_ids' \in Seq(StateIDs)
  BY <1>2, NewIDKeepsIDs DEF StrictInv, addNewState
<1>4. TypeOK'
  BY <1>1, <1>3 DEF StrictInv, TypeOK, addNewState, Edits, files, LeaveOldStates, ListsOver,
                    updateStateIDMatrix
<1>5. FileInv'
  BY DEF StrictInv, FileInv, NoGap, addNewState, Edits, files
<1>6. AssignedIsListed'
  BY <1>1 DEF StrictInv, TypeOK, ListsOver, AssignedIsListed, isValidStateID, addNewState,
              LeaveOldStates
<1>7. MatrixIsCurrent'
  BY DEF addNewState, updateStateIDMatrix, MatrixIsCurrent
<1> QED BY <1>3, <1>4, <1>5, <1>6, <1>7 DEF StrictInv

LEMMA removeStateKeepsInv ==
  ASSUME StrictInv, NEW id \in DOMAIN m_states, removeState(id)
  PROVE  StrictInv'
<1>1. DOMAIN m_states' = DOMAIN m_states \ {id}
  BY DEF removeState, Without
<1>2. IDInv' /\ m_available_state_ids' \in Seq(StateIDs)
  BY <1>1, ReturnedIDKeepsIDs DEF StrictInv, removeState
<1>3. TypeOK'
  BY <1>2 DEF StrictInv, TypeOK, removeState, Edits, files, Without, ListsOver,
              updateStateIDMatrix, NoState
<1>4. FileInv'
  BY DEF StrictInv, FileInv, NoGap, removeState, Edits, files
<1>5. AssignedIsListed'
  BY DEF StrictInv, TypeOK, AssignedIsListed, isValidStateID, removeState, Without,
         NoState, StateIDs
<1>6. MatrixIsCurrent'
  BY DEF removeState, updateStateIDMatrix, MatrixIsCurrent
<1> QED BY <1>2, <1>3, <1>4, <1>5, <1>6 DEF StrictInv

LEMMA removeProvinceKeepsInv ==
  ASSUME StrictInv, NEW p \in Provinces, removeProvinceFromState(p)
  PROVE  StrictInv'
<1>1. TypeOK'
  BY DEF StrictInv, TypeOK, removeProvinceFromState, Edits, files, LeaveOldStates, ListsOver,
         updateStateIDMatrix, NoState
<1>2. IDInv'
  BY DEF StrictInv, IDInv, AvailableAreUnused, Available, removeProvinceFromState,
         LeaveOldStates
<1>3. FileInv'
  BY DEF StrictInv, FileInv, NoGap, removeProvinceFromState, Edits, files
<1>4. AssignedIsListed'
  BY DEF StrictInv, TypeOK, AssignedIsListed, isValidStateID, removeProvinceFromState,
         LeaveOldStates, NoState, StateIDs
<1>5. MatrixIsCurrent'
  BY DEF removeProvinceFromState, updateStateIDMatrix, MatrixIsCurrent
<1> QED BY <1>1, <1>2, <1>3, <1>4, <1>5 DEF StrictInv

\* The steps of a save write files and leave the memory alone.
LEMMA SavingKeepsInv ==
  ASSUME StrictInv, SaveProvinces \/ SaveStates \/ SaveFails
  PROVE  StrictInv'
<1> USE DEF StrictInv, SaveProvinces, SaveStates, SaveFails, memory, files
<1>1. TypeOK'
  BY DEF TypeOK
<1>2. IDInv'
  BY DEF IDInv, AvailableAreUnused, Available
<1>3. FileInv'
  BY StatesAreFinite DEF FileInv
<1>4. AssignedIsListed' /\ MatrixIsCurrent'
  BY DEF AssignedIsListed, isValidStateID, MatrixIsCurrent
<1> QED BY <1>1, <1>2, <1>3, <1>4

LEMMA ExitKeepsInv ==
  ASSUME StrictInv, NoGap, Exit
  PROVE  StrictInv'
<1>1. DOMAIN m_states' = {} /\ m_available_state_ids' = <<>> /\ Available' = {}
  BY DEF Exit, NoStates, Available
<1>2. TypeOK'
  BY <1>1 DEF StrictInv, TypeOK, Exit, files, NoStates, ListsOver, NoState, updateStateIDMatrix
<1>3. IDInv'
  <2>1. (DOMAIN m_states \union Available)' = 1 .. 0
    BY <1>1
  <2> QED BY <1>1, <2>1 DEF IDInv, AvailableAreUnused
<1>4. FileInv'
  BY DEF StrictInv, FileInv, NoGap, Exit, files
<1>5. AssignedIsListed' /\ MatrixIsCurrent'
  BY DEF Exit, AssignedIsListed, MatrixIsCurrent, NoState, StateIDs, updateStateIDMatrix
<1> QED BY <1>2, <1>3, <1>4, <1>5 DEF StrictInv

\* What the validation checks is what AssignedIsListed says.
LEMMA OpenKeepsInv ==
  ASSUME StrictInv, Open(FALSE)
  PROVE  StrictInv'
<1>1. CASE UNCHANGED vars
  BY <1>1 DEF vars, memory, files, StrictInv, TypeOK, IDInv, AvailableAreUnused, Available,
              FileInv, NoGap, AssignedIsListed, isValidStateID, MatrixIsCurrent
<1>2. CASE Valid(saved_province_state, saved_states)
  <2>1. NoGap /\ FileInv /\ TypeOK
    BY DEF StrictInv, FileInv, Open
  <2>2. /\ phase' = "open"
        /\ province_state' = saved_province_state /\ m_states' = saved_states
        /\ m_available_state_ids' = <<>> /\ state_id_matrix' = saved_province_state
        /\ UNCHANGED files
    BY <1>2, <2>1, NoGapNoneUnused, ValidIsNotFixed DEF Open
  <2>3. TypeOK'
    BY <2>1, <2>2 DEF TypeOK, files
  <2>4. IDInv'
    <3>1. Available' = {} /\ DOMAIN m_states' = 1 .. Cardinality(DOMAIN saved_states)
      BY <2>1, <2>2 DEF Available, NoGap
    <3>2. Cardinality(DOMAIN saved_states) \in Nat
      BY <2>1, FS_CardinalityType DEF FileInv
    <3> QED BY <2>2, <3>1, <3>2 DEF IDInv, AvailableAreUnused
  <2>5. FileInv'
    BY <2>1, <2>2 DEF FileInv, files
  <2>6. AssignedIsListed'
    BY <1>2, <2>2 DEF AssignedIsListed, isValidStateID, Valid, InvalidStateID,
                      ProvinceNotInState, NoState, StateIDs
  <2>7. MatrixIsCurrent'
    BY <2>2 DEF MatrixIsCurrent
  <2> QED BY <2>3, <2>4, <2>5, <2>6, <2>7 DEF StrictInv
<1>3. (UNCHANGED vars) \/ Valid(saved_province_state, saved_states)
  BY DEF Open, vars
<1> QED BY <1>1, <1>2, <1>3

LEMMA StrictInvNext == StrictInv /\ [StrictNext]_vars => StrictInv'
<1> SUFFICES ASSUME StrictInv, [StrictNext]_vars PROVE StrictInv'
  OBVIOUS
<1>1. CASE \E chosen \in SUBSET Provinces \ {{}} : addNewState(chosen)
  BY <1>1, addNewStateKeepsInv
<1>2. CASE \E id \in DOMAIN m_states : removeState(id)
  BY <1>2, removeStateKeepsInv
<1>3. CASE \E p \in Provinces : removeProvinceFromState(p)
  BY <1>3, removeProvinceKeepsInv
<1>4. CASE SaveProvinces \/ SaveStates \/ SaveFails
  BY <1>4, SavingKeepsInv
<1>5. CASE NoGap /\ Exit
  BY <1>5, ExitKeepsInv
<1>6. CASE Open(FALSE)
  BY <1>6, OpenKeepsInv
<1>7. CASE UNCHANGED vars
  BY <1>7 DEF vars, memory, files, StrictInv, TypeOK, IDInv, AvailableAreUnused, Available,
              FileInv, NoGap, AssignedIsListed, isValidStateID, MatrixIsCurrent
<1> QED BY <1>1, <1>2, <1>3, <1>4, <1>5, <1>6, <1>7 DEF StrictNext, Edit

LEMMA StrictInvAlways == StrictSpec => []StrictInv
BY StrictInvInit, StrictInvNext, PTL DEF StrictSpec

-----------------------------------------------------------------------------
(* Whatever happens: killed at any moment, opened with or without a gap in the *)
(* ids, with or without --fix-warnings-on-load.                            *)

\* The ids found unused can be queued in order: the rank of an id among them is
\* one to one, so every rank is that of an id.
LEMMA AscendingExists ==
  ASSUME NEW ids \in SUBSET Nat, IsFiniteSet(ids)
  PROVE  /\ Ascending(ids) \in [1 .. Cardinality(ids) -> ids]
         /\ \A i, j \in 1 .. Cardinality(ids) : i < j => Ascending(ids)[i] < Ascending(ids)[j]
<1> DEFINE n == Cardinality(ids)
           UpTo(x) == {y \in ids : y <= x}
           rank == [x \in ids |-> Cardinality(UpTo(x))]
<1>1. n \in Nat /\ IsFiniteSet(1 .. n) /\ Cardinality(1 .. n) = n
  <2>1. n \in Nat
    BY FS_CardinalityType
  <2> QED BY <2>1, FS_Interval
<1>2. ASSUME NEW x \in ids
      PROVE  /\ IsFiniteSet(UpTo(x)) /\ Cardinality(UpTo(x)) \in 1 .. n
  <2>1. UpTo(x) \in SUBSET ids /\ UpTo(x) # {}
    BY <1>2
  <2>2. IsFiniteSet(UpTo(x)) /\ Cardinality(UpTo(x)) <= n
    BY <2>1, FS_Subset
  <2>3. Cardinality(UpTo(x)) \in Nat /\ Cardinality(UpTo(x)) # 0
    BY <2>1, <2>2, FS_CardinalityType, FS_EmptySet
  <2> QED BY <1>1, <2>2, <2>3
<1>3. ASSUME NEW x \in ids, NEW y \in ids, x < y
      PROVE  rank[x] < rank[y]
  <2>1. UpTo(x) \in SUBSET UpTo(y) /\ UpTo(x) # UpTo(y)
    <3>1. ASSUME NEW z \in UpTo(x) PROVE z \in UpTo(y)
      <4>1. z \in ids /\ z \in Nat /\ x \in Nat /\ y \in Nat /\ z <= x
        OBVIOUS
      <4> QED BY <1>3, <4>1
    <3>2. y \in UpTo(y) /\ y \notin UpTo(x)
      BY <1>3
    <3> QED BY <3>1, <3>2
  <2>2. Cardinality(UpTo(x)) <= Cardinality(UpTo(y)) /\ Cardinality(UpTo(x)) # Cardinality(UpTo(y))
    BY <1>2, <2>1, FS_Subset
  <2> QED BY <1>2, <2>2
<1>4. rank \in [ids -> 1 .. n]
  BY <1>2
<1>5. \A x, y \in ids : rank[x] = rank[y] => x = y
  BY <1>3, <1>4
<1> HIDE DEF rank, n, UpTo
<1>6. rank \in Injection(ids, 1 .. n)
  BY <1>4, <1>5 DEF Injection, IsInjective
<1>7. rank \in Surjection(ids, 1 .. n)
  BY <1>1, <1>6, FS_Injection DEF n
<1>8. \A i \in 1 .. n : \E x \in ids : rank[x] = i
  BY <1>7 DEF Surjection
<1> DEFINE q == [i \in 1 .. n |-> CHOOSE x \in ids : rank[x] = i]
<1>9. \A i \in 1 .. n : q[i] \in ids /\ rank[q[i]] = i
  BY <1>8
<1>11. q \in [1 .. n -> ids]
  BY <1>9
<1> HIDE DEF q
<1>10. ASSUME NEW i \in 1 .. n, NEW j \in 1 .. n, i < j
       PROVE  q[i] < q[j]
  <2>1. q[i] \in ids /\ q[j] \in ids /\ rank[q[i]] = i /\ rank[q[j]] = j
    BY <1>9
  <2>2. i \in Int /\ j \in Int /\ q[i] \in Nat /\ q[j] \in Nat
    <3>1. n \in Int
      BY <1>1
    <3>2. i \in Int /\ j \in Int
      BY <3>1
    <3>3. \A x \in ids : x \in Nat
      OBVIOUS
    <3> QED BY <2>1, <3>2, <3>3
  <2>3. q[i] # q[j] /\ ~(q[j] < q[i])
    BY <1>3, <1>10, <2>1, <2>2
  <2> QED BY <2>2, <2>3
<1> QED BY <1>10, <1>11 DEF Ascending, n

\* The inductive invariant of Spec.
AllInv ==
  /\ TypeOK
  /\ AvailableAreUnused
  /\ IsFiniteSet(DOMAIN m_states) /\ IsFiniteSet(DOMAIN saved_states)

LEMMA AllInvInit == Init => AllInv
<1> SUFFICES ASSUME Init PROVE AllInv
  OBVIOUS
<1>1. DOMAIN m_states = {} /\ Available = {}
  BY DEF Init, NoStates, Available
<1>2. TypeOK
  BY <1>1 DEF Init, TypeOK, NoStates, ListsOver, Imported
<1> QED BY <1>1, <1>2, FS_EmptySet DEF Init, AllInv, AvailableAreUnused

\* Creating a state takes an id off the queue, if there is one.
LEMMA addNewStateKeepsAll ==
  ASSUME AllInv, NEW chosen \in SUBSET Provinces, addNewState(chosen)
  PROVE  AllInv'
<1> DEFINE q == m_available_state_ids
<1>1. NewID \in StateIDs
  BY FS_CardinalityType DEF AllInv, TypeOK, NewID, StateIDs
<1>2. DOMAIN m_states' = DOMAIN m_states \union {NewID}
  BY DEF addNewState
<1>3. IsFiniteSet(DOMAIN m_states') /\ IsFiniteSet(DOMAIN saved_states')
  BY <1>2, FS_AddElement DEF AllInv, addNewState, Edits, files
<1>4. q' \in Seq(StateIDs) /\ AvailableAreUnused'
  <2>1. CASE q = <<>>
    BY <2>1 DEF addNewState, AvailableAreUnused, Available
  <2>2. CASE q # <<>>
    <3>1. /\ q' = Tail(q) /\ NewID = q[1]
          /\ q' \in Seq(StateIDs) /\ Len(q) \in Nat \ {0}
          /\ DOMAIN q = 1 .. Len(q) /\ DOMAIN q' = 1 .. Len(q) - 1
          /\ \A i \in 1 .. Len(q) - 1 : q'[i] = q[i + 1]
      BY <2>2 DEF AllInv, TypeOK, addNewState, NewID
    <3>2. \A i \in DOMAIN q' : i \in Int /\ i + 1 \in DOMAIN q /\ i + 1 # 1 /\ 1 \in DOMAIN q
      BY <3>1
    <3>3. \A i \in DOMAIN q' : q'[i] # NewID /\ q'[i] \notin DOMAIN m_states
      BY <3>1, <3>2 DEF AllInv, AvailableAreUnused, Available
    <3>4. \A i, j \in DOMAIN q' : q'[i] = q'[j] => i = j
      <4> SUFFICES ASSUME NEW i \in DOMAIN q', NEW j \in DOMAIN q', q'[i] = q'[j] PROVE i = j
        OBVIOUS
      <4>1. i + 1 = j + 1
        BY <3>1, <3>2 DEF AllInv, AvailableAreUnused
      <4> QED BY <3>2, <4>1
    <3> QED BY <1>2, <3>1, <3>3, <3>4 DEF AvailableAreUnused, Available
  <2> QED BY <2>1, <2>2
<1>5. TypeOK'
  BY <1>1, <1>4 DEF AllInv, TypeOK, addNewState, Edits, files, LeaveOldStates, ListsOver,
                    updateStateIDMatrix
<1> QED BY <1>3, <1>4, <1>5 DEF AllInv

\* Deleting a state puts its id on the queue, where it is not yet.
LEMMA removeStateKeepsAll ==
  ASSUME AllInv, NEW id \in DOMAIN m_states, removeState(id)
  PROVE  AllInv'
<1> DEFINE q == m_available_state_ids
<1>1. DOMAIN m_states' = DOMAIN m_states \ {id}
  BY DEF removeState, Without
<1>2. IsFiniteSet(DOMAIN m_states') /\ IsFiniteSet(DOMAIN saved_states')
  BY <1>1, FS_RemoveElement DEF AllInv, removeState, Edits, files
<1>3. /\ id \in StateIDs
      /\ q' \in Seq(StateIDs) /\ Len(q) \in Nat
      /\ DOMAIN q = 1 .. Len(q) /\ DOMAIN q' = 1 .. Len(q) + 1
      /\ q'[Len(q) + 1] = id /\ \A i \in 1 .. Len(q) : q'[i] = q[i]
  BY DEF AllInv, TypeOK, removeState
<1>4. \A i \in 1 .. Len(q) : q[i] # id /\ q[i] \notin DOMAIN m_states
  BY <1>3 DEF AllInv, AvailableAreUnused, Available
<1>5. \A i, j \in 1 .. Len(q) : q[i] = q[j] => i = j
  BY <1>3 DEF AllInv, AvailableAreUnused
<1>6. AvailableAreUnused'
  <2>1. \A i \in DOMAIN q' : q'[i] \notin DOMAIN m_states'
    BY <1>1, <1>3, <1>4
  <2>2. \A i, j \in DOMAIN q' : q'[i] = q'[j] => i = j
    BY <1>3, <1>4, <1>5
  <2> QED BY <2>1, <2>2 DEF AvailableAreUnused, Available
<1>7. TypeOK'
  BY <1>3 DEF AllInv, TypeOK, removeState, Edits, files, Without, ListsOver,
              updateStateIDMatrix, NoState
<1> QED BY <1>2, <1>6, <1>7 DEF AllInv

\* Opening a project queues ids below the number of states that no state has.
LEMMA OpenKeepsAll ==
  ASSUME AllInv, NEW fix \in BOOLEAN, Open(fix), ~(UNCHANGED vars)
  PROVE  AllInv'
<1> DEFINE unused == UnusedIDs(DOMAIN saved_states)
           n == Cardinality(unused)
<1>1. /\ UNCHANGED files /\ phase' = "open"
      /\ province_state' = FixedStateOf(saved_province_state, saved_states)
      /\ m_states' = FixedStates(saved_province_state, saved_states)
      /\ m_available_state_ids' = Ascending(unused)
      /\ state_id_matrix' = saved_province_state
  BY DEF Open, vars
<1>2. Cardinality(DOMAIN saved_states) \in Nat
  BY FS_CardinalityType DEF AllInv
<1>3. unused \in SUBSET StateIDs /\ unused \in SUBSET Nat /\ IsFiniteSet(unused) /\ n \in Nat
  <2>1. unused \in SUBSET StateIDs /\ unused \in SUBSET Nat
    BY <1>2 DEF UnusedIDs, StateIDs
  <2>2. IsFiniteSet(1 .. Cardinality(DOMAIN saved_states) - 1)
    BY <1>2, FS_Interval
  <2>3. unused \in SUBSET (1 .. Cardinality(DOMAIN saved_states) - 1)
    BY DEF UnusedIDs
  <2>4. IsFiniteSet(unused)
    BY <2>2, <2>3, FS_Subset
  <2> QED BY <2>1, <2>4, FS_CardinalityType
<1> HIDE DEF unused, n
<1>4. /\ Ascending(unused) \in [1 .. n -> unused]
      /\ \A i, j \in 1 .. n : i < j => Ascending(unused)[i] < Ascending(unused)[j]
  BY <1>3, AscendingExists DEF n
<1>5. DOMAIN m_states' = DOMAIN saved_states
  BY <1>1 DEF FixedStates
<1>6. unused \intersect DOMAIN saved_states = {}
  BY DEF unused, UnusedIDs
<1>7. AvailableAreUnused'
  <2>1. (Available \intersect DOMAIN m_states)' = {}
    BY <1>1, <1>4, <1>5, <1>6 DEF Available
  <2>2. ASSUME NEW i \in 1 .. n, NEW j \in 1 .. n, Ascending(unused)[i] = Ascending(unused)[j]
        PROVE  i = j
    <3>1. i \in Int /\ j \in Int /\ Ascending(unused)[i] \in Nat
      <4>1. n \in Int /\ \A x \in unused : x \in Nat
        BY <1>3
      <4>2. i \in Int /\ j \in Int
        BY <4>1
      <4>3. Ascending(unused)[i] \in unused
        BY <1>4
      <4> QED BY <4>1, <4>2, <4>3
    <3> QED BY <1>4, <2>2, <3>1
  <2> QED BY <1>1, <1>4, <2>1, <2>2 DEF AvailableAreUnused
<1>8. TypeOK'
  <2>1. m_available_state_ids' \in Seq(StateIDs)
    <3>1. Ascending(unused) \in [1 .. n -> StateIDs]
      BY <1>3, <1>4
    <3> QED BY <1>1, <1>3, <3>1, SeqDef
  <2>2. FixedStateOf(saved_province_state, saved_states)
          \in [Provinces -> StateIDs \union {NoState, Imported}]
    BY DEF AllInv, TypeOK, FixedStateOf
  <2>3. FixedStates(saved_province_state, saved_states) \in ListsOver(DOMAIN saved_states)
    BY DEF AllInv, TypeOK, FixedStates, ListsOver
  <2> QED BY <1>1, <1>5, <2>1, <2>2, <2>3 DEF AllInv, TypeOK, files
<1> QED BY <1>1, <1>5, <1>7, <1>8 DEF AllInv, files

LEMMA AllInvNext == AllInv /\ [Next]_vars => AllInv'
<1> SUFFICES ASSUME AllInv, [Next]_vars PROVE AllInv'
  OBVIOUS
<1>1. CASE \E chosen \in SUBSET Provinces \ {{}} : addNewState(chosen)
  BY <1>1, addNewStateKeepsAll
<1>2. CASE \E id \in DOMAIN m_states : removeState(id)
  BY <1>2, removeStateKeepsAll
<1>3. CASE \E p \in Provinces : removeProvinceFromState(p)
  <2>1. PICK p \in Provinces : removeProvinceFromState(p)
    BY <1>3
  <2>2. DOMAIN m_states' = DOMAIN m_states /\ m_available_state_ids' = m_available_state_ids
    BY <2>1 DEF removeProvinceFromState, LeaveOldStates
  <2>3. TypeOK'
    BY <2>1 DEF AllInv, TypeOK, removeProvinceFromState, Edits, files, LeaveOldStates,
                ListsOver, updateStateIDMatrix, NoState
  <2> QED BY <2>1, <2>2, <2>3 DEF AllInv, AvailableAreUnused, Available,
                                  removeProvinceFromState, Edits, files
<1>4. CASE SaveProvinces \/ SaveStates \/ SaveFails
  BY <1>4 DEF AllInv, TypeOK, AvailableAreUnused, Available, SaveProvinces, SaveStates,
              SaveFails, memory, files
<1>5. CASE Exit
  <2>1. DOMAIN m_states' = {} /\ m_available_state_ids' = <<>> /\ Available' = {}
    BY <1>5 DEF Exit, NoStates, Available
  <2>2. TypeOK'
    BY <1>5, <2>1 DEF AllInv, TypeOK, Exit, files, NoStates, ListsOver, NoState,
                      updateStateIDMatrix
  <2> QED BY <1>5, <2>1, <2>2, FS_EmptySet DEF AllInv, AvailableAreUnused, Exit, files
<1>6. CASE (\E fix \in BOOLEAN : Open(fix)) /\ ~(UNCHANGED vars)
  BY <1>6, OpenKeepsAll
<1>7. CASE UNCHANGED vars
  BY <1>7 DEF vars, memory, files, AllInv, TypeOK, AvailableAreUnused, Available
<1> QED BY <1>1, <1>2, <1>3, <1>4, <1>5, <1>6, <1>7 DEF Next, Edit

LEMMA AllInvAlways == Spec => []AllInv
BY AllInvInit, AllInvNext, PTL DEF Spec

-----------------------------------------------------------------------------
(* Theorems.                                                               *)

\* The type invariant, however the project is used.
THEOREM StatesTypeCorrect == Spec => []TypeOK
<1>1. AllInv => TypeOK
  BY DEF AllInv
<1> QED BY <1>1, AllInvAlways, PTL

\* However the project is used, an id taken off the queue for a new state is the
\* id of no state, and is given out once (StateProject.cpp:454-457).
THEOREM AvailableStayUnused == Spec => []AvailableAreUnused
<1>1. AllInv => AvailableAreUnused
  BY DEF AllInv
<1> QED BY <1>1, AllInvAlways, PTL

\* Whatever the project's size and however often the program is killed between
\* the two files of a save: a province in a state is listed by it.
THEOREM AssignedAreListed == StrictSpec => []AssignedIsListed
<1>1. StrictInv => AssignedIsListed
  BY DEF StrictInv
<1> QED BY <1>1, StrictInvAlways, PTL

\* The matrix that is drawn is that of the provinces.
THEOREM MatrixAlwaysCurrent == StrictSpec => []MatrixIsCurrent
<1>1. StrictInv => MatrixIsCurrent
  BY DEF StrictInv
<1> QED BY <1>1, StrictInvAlways, PTL

\* The ids in use and the ids given back are 1, ..., n.
THEOREM IDsAlwaysAccountedFor == StrictSpec => []IDsAccountedFor
<1>1. StrictInv => IDsAccountedFor
  <2> SUFFICES ASSUME StrictInv PROVE IDsAccountedFor
    OBVIOUS
  <2>1. PICK n \in Nat : DOMAIN m_states \union Available = 1 .. n
    BY DEF StrictInv, IDInv
  <2>2. Cardinality(1 .. n) = n
    BY FS_Interval
  <2> QED BY <2>1, <2>2 DEF IDsAccountedFor
<1> QED BY <1>1, StrictInvAlways, PTL

-----------------------------------------------------------------------------
(* The copies agree, and the view shows them.                              *)

\* Provinces and states name each other.
Agree(of, states) ==
  /\ \A p \in Provinces, s \in DOMAIN states : p \in states[s] <=> of[p] = s
  /\ \A p \in Provinces : of[p] \in StateIDs => of[p] \in DOMAIN states

\* Of the files: while they are written one of them is new, and at all other times
\* they agree, which is why opening a project repairs nothing.
FilesAgree ==
  /\ phase # "saving" => Agree(saved_province_state, saved_states)
  /\ phase = "saving" => saved_province_state = province_state

\* The matrix may say 0 where a province was repaired to -1.
MatrixAgrees ==
  \A p \in Provinces : InState(state_id_matrix[p]) = InState(province_state[p])

\* The inductive invariant of the states.
TidyInv ==
  /\ TypeOK
  /\ IDInv
  /\ FileInv
  /\ Agree(province_state, m_states)
  /\ FilesAgree
  /\ MatrixAgrees

\* That of the view: the area has the map of the open project, and a texture that
\* is not outdated is of it.
ViewInv ==
  /\ phase # "closed" => map_matrix = state_id_matrix
  /\ \/ view.last_tag = NoTag /\ view.texture = Nothing
     \/ view.last_tag = getStateIDMatrixUpdatedTag /\ view.texture # Nothing
  /\ phase # "closed" /\ ~outdated /\ view.texture # Nothing => view.texture = map_matrix

-----------------------------------------------------------------------------
(* The operations on states.                                               *)

LEMMA TidyInvInit == Init => TidyInv
<1> SUFFICES ASSUME Init PROVE TidyInv
  OBVIOUS
<1>1. TypeOK /\ IDInv /\ FileInv
  BY StrictInvInit DEF StrictInv
<1>2. DOMAIN m_states = {} /\ DOMAIN saved_states = {}
  BY DEF Init, NoStates
<1>3. Agree(province_state, m_states) /\ FilesAgree /\ MatrixAgrees
  BY <1>2 DEF Init, Agree, FilesAgree, MatrixAgrees, Imported, StateIDs
<1> QED BY <1>1, <1>3 DEF TidyInv

\* A province that is in no state any more is in none that could exist.
LEMMA NoStateIsNone == NoState \notin StateIDs /\ Imported \notin StateIDs
BY DEF NoState, Imported, StateIDs

LEMMA CreateIsTidy ==
  ASSUME TidyInv, NEW chosen \in SUBSET Provinces, addNewState(chosen)
  PROVE  TidyInv'
<1> DEFINE id == NewID
<1>1. id \in StateIDs /\ id \notin DOMAIN m_states
  BY NewIDIsNew DEF TidyInv
<1>2. /\ DOMAIN m_states' = DOMAIN m_states \union {id}
      /\ \A s \in DOMAIN m_states' :
           m_states'[s] = IF s = id THEN chosen
                          ELSE m_states[s] \ {p \in chosen : province_state[p] = s}
      /\ \A p \in Provinces :
           province_state'[p] = IF p \in chosen THEN id ELSE province_state[p]
  BY DEF addNewState, LeaveOldStates
<1>3. IDInv' /\ m_available_state_ids' \in Seq(StateIDs)
  BY <1>2, NewIDKeepsIDs DEF TidyInv, addNewState
<1>4. TypeOK'
  BY <1>1, <1>3 DEF TidyInv, TypeOK, addNewState, Edits, files, LeaveOldStates, ListsOver,
                    updateStateIDMatrix
<1> HIDE DEF id
<1>5. Agree(province_state, m_states)'
  <2>1. Agree(province_state, m_states)
    BY DEF TidyInv
  <2>2. \A p \in Provinces, s \in DOMAIN m_states \union {id} :
          p \in m_states'[s] <=> province_state'[p] = s
    <3> SUFFICES ASSUME NEW p \in Provinces, NEW s \in DOMAIN m_states \union {id}
                 PROVE  p \in m_states'[s] <=> province_state'[p] = s
      OBVIOUS
    <3>1. CASE s = id
      BY <1>1, <1>2, <2>1, <3>1 DEF Agree
    <3>2. CASE s # id
      <4>1. s \in DOMAIN m_states /\ s \in DOMAIN m_states'
        BY <1>2, <3>2
      <4>2. m_states'[s] = m_states[s] \ {x \in chosen : province_state[x] = s}
        BY <1>2, <3>2, <4>1
      <4>3. p \in m_states[s] <=> province_state[p] = s
        BY <2>1, <4>1 DEF Agree
      <4>4. province_state'[p] = IF p \in chosen THEN id ELSE province_state[p]
        BY <1>2
      <4> QED BY <3>2, <4>2, <4>3, <4>4
    <3> QED BY <3>1, <3>2
  <2>3. \A p \in Provinces :
          province_state'[p] \in StateIDs => province_state'[p] \in DOMAIN m_states \union {id}
    BY <1>2, <2>1 DEF Agree
  <2> QED BY <1>2, <2>2, <2>3 DEF Agree
<1>6. FileInv' /\ FilesAgree' /\ MatrixAgrees'
  BY DEF TidyInv, FileInv, NoGap, FilesAgree, Agree, MatrixAgrees, addNewState, Edits, files,
         updateStateIDMatrix
<1> QED BY <1>3, <1>4, <1>5, <1>6 DEF TidyInv

LEMMA DeleteIsTidy ==
  ASSUME TidyInv, NEW id \in DOMAIN m_states, removeState(id)
  PROVE  TidyInv'
<1>1. /\ DOMAIN m_states' = DOMAIN m_states \ {id}
      /\ \A s \in DOMAIN m_states' : m_states'[s] = m_states[s]
      /\ \A p \in Provinces :
           province_state'[p] = IF p \in m_states[id] THEN NoState ELSE province_state[p]
  BY DEF removeState, Without
<1>2. IDInv' /\ m_available_state_ids' \in Seq(StateIDs)
  BY <1>1, ReturnedIDKeepsIDs DEF TidyInv, removeState
<1>3. TypeOK'
  BY <1>2 DEF TidyInv, TypeOK, removeState, Edits, files, Without, ListsOver,
              updateStateIDMatrix, NoState
<1>4. DOMAIN m_states \subseteq StateIDs
  BY DEF TidyInv, TypeOK
<1>5. Agree(province_state, m_states)'
  BY <1>1, <1>4, NoStateIsNone DEF TidyInv, Agree
<1>6. FileInv' /\ FilesAgree' /\ MatrixAgrees'
  BY DEF TidyInv, FileInv, NoGap, FilesAgree, Agree, MatrixAgrees, removeState, Edits, files,
         updateStateIDMatrix
<1> QED BY <1>2, <1>3, <1>5, <1>6 DEF TidyInv

\* One province leaves its state, for another one or for none.
LEMMA TransferIsTidy ==
  ASSUME TidyInv, NEW p \in Provinces,
         \/ removeProvinceFromState(p)
         \/ \E id \in DOMAIN m_states : moveProvinceToState(p, id)
  PROVE  TidyInv'
<1>1. PICK id \in DOMAIN m_states \union {NoState} :
        /\ Edits /\ updateStateIDMatrix /\ UNCHANGED m_available_state_ids
        /\ province_state' = [province_state EXCEPT ![p] = id]
        /\ DOMAIN m_states' = DOMAIN m_states
        /\ \A s \in DOMAIN m_states :
             m_states'[s] = IF s = id THEN m_states[s] \union {p}
                            ELSE m_states[s] \ {x \in {p} : province_state[x] = s}
  <2>1. CASE removeProvinceFromState(p)
    <3>1. NoState \notin DOMAIN m_states
      BY NoStateIsNone DEF TidyInv, TypeOK
    <3> QED BY <2>1, <3>1 DEF removeProvinceFromState, LeaveOldStates
  <2>2. CASE \E id \in DOMAIN m_states : moveProvinceToState(p, id)
    <3>1. PICK id \in DOMAIN m_states : moveProvinceToState(p, id)
      BY <2>2
    <3>2. /\ Edits /\ updateStateIDMatrix /\ UNCHANGED m_available_state_ids
          /\ province_state' = [province_state EXCEPT ![p] = id]
          /\ DOMAIN m_states' = DOMAIN m_states
          /\ \A s \in DOMAIN m_states :
               m_states'[s] = IF s = id THEN LeaveOldStates({p})[s] \union {p}
                              ELSE LeaveOldStates({p})[s]
      BY <3>1 DEF moveProvinceToState, LeaveOldStates
    <3>3. \A s \in DOMAIN m_states :
            m_states'[s] = IF s = id THEN m_states[s] \union {p}
                           ELSE m_states[s] \ {x \in {p} : province_state[x] = s}
      BY <3>2 DEF LeaveOldStates
    <3> QED BY <3>2, <3>3
  <2> QED BY <2>1, <2>2
<1>2. DOMAIN m_states \subseteq StateIDs /\ id \in StateIDs \union {NoState}
  BY DEF TidyInv, TypeOK
<1>3. TypeOK'
  <2>1. \A s \in DOMAIN m_states : m_states'[s] \in SUBSET Provinces
    BY <1>1 DEF TidyInv, TypeOK, ListsOver
  <2>2. m_states' \in ListsOver(DOMAIN m_states')
    <3>1. CASE removeProvinceFromState(p)
      BY <1>1, <2>1, <3>1 DEF removeProvinceFromState, LeaveOldStates, ListsOver
    <3>2. CASE \E i \in DOMAIN m_states : moveProvinceToState(p, i)
      BY <1>1, <2>1, <3>2 DEF moveProvinceToState, LeaveOldStates, ListsOver
    <3> QED BY <3>1, <3>2
  <2> QED BY <1>1, <1>2, <2>2 DEF TidyInv, TypeOK, Edits, files, updateStateIDMatrix
<1>4. \A q \in Provinces : province_state'[q] = IF q = p THEN id ELSE province_state[q]
  BY <1>1 DEF TidyInv, TypeOK
<1>5. Agree(province_state, m_states)'
  BY <1>1, <1>2, <1>4, NoStateIsNone DEF TidyInv, Agree
<1>6. IDInv'
  BY <1>1 DEF TidyInv, IDInv, AvailableAreUnused, Available
<1>7. FileInv' /\ FilesAgree' /\ MatrixAgrees'
  BY <1>1 DEF TidyInv, FileInv, NoGap, FilesAgree, Agree, MatrixAgrees, Edits, files,
              updateStateIDMatrix
<1> QED BY <1>3, <1>5, <1>6, <1>7 DEF TidyInv

LEMMA SaveIsTidy ==
  ASSUME TidyInv, SaveProvinces \/ SaveStates
  PROVE  TidyInv'
<1> USE DEF TidyInv, SaveProvinces, SaveStates, memory
<1>1. TypeOK'
  BY DEF TypeOK
<1>2. IDInv'
  BY DEF IDInv, AvailableAreUnused, Available
<1>3. FileInv'
  BY StatesAreFinite DEF FileInv
<1>4. Agree(province_state, m_states)' /\ MatrixAgrees'
  BY DEF Agree, MatrixAgrees
<1>5. FilesAgree'
  BY DEF FilesAgree, Agree
<1> QED BY <1>1, <1>2, <1>3, <1>4, <1>5

LEMMA CloseIsTidy ==
  ASSUME TidyInv, phase = "open", NoGap, Exit
  PROVE  TidyInv'
<1>1. DOMAIN m_states' = {} /\ m_available_state_ids' = <<>> /\ Available' = {}
  BY DEF Exit, NoStates, Available
<1>2. TypeOK'
  BY <1>1 DEF TidyInv, TypeOK, Exit, files, NoStates, ListsOver, NoState, updateStateIDMatrix
<1>3. IDInv'
  <2>1. (DOMAIN m_states \union Available)' = 1 .. 0
    BY <1>1
  <2> QED BY <1>1, <2>1 DEF IDInv, AvailableAreUnused
<1>4. FileInv' /\ FilesAgree'
  BY DEF TidyInv, FileInv, FilesAgree, Agree, NoGap, Exit, files
<1>5. Agree(province_state, m_states)' /\ MatrixAgrees'
  BY <1>1, NoStateIsNone DEF Exit, Agree, MatrixAgrees, updateStateIDMatrix
<1> QED BY <1>2, <1>3, <1>4, <1>5 DEF TidyInv

\* Files that agree are read as they are, but for provinces that were never in a
\* state, with a repair or without one.
LEMMA OpenReadsFiles ==
  ASSUME TidyInv, NEW fix \in BOOLEAN, Open(fix), ~(UNCHANGED vars)
  PROVE  /\ phase = "closed" /\ phase' = "open" /\ UNCHANGED files
         /\ m_states' = saved_states /\ m_available_state_ids' = <<>>
         /\ state_id_matrix' = saved_province_state
         /\ province_state' \in [Provinces -> StateIDs \union {NoState, Imported}]
         /\ \A p \in Provinces :
              \/ province_state'[p] = saved_province_state[p]
              \/ province_state'[p] = NoState /\ saved_province_state[p] \notin StateIDs
<1> DEFINE of == saved_province_state
<1>1. /\ phase = "closed" /\ phase' = "open" /\ UNCHANGED files
      /\ province_state' = FixedStateOf(of, saved_states)
      /\ m_states' = FixedStates(of, saved_states)
      /\ m_available_state_ids' = Ascending(UnusedIDs(DOMAIN saved_states))
      /\ state_id_matrix' = of
  BY DEF Open, vars
<1>2. Agree(of, saved_states) /\ NoGap /\ FileInv /\ TypeOK
  BY <1>1 DEF TidyInv, FilesAgree, FileInv
<1>3. \A p \in Provinces : ~ProvinceNotInState(p, of, saved_states)
  BY <1>2 DEF Agree, ProvinceNotInState
<1>4. FixedStates(of, saved_states) = saved_states
  <2>1. {p \in Provinces : ProvinceNotInState(p, of, saved_states)} = {}
    BY <1>3
  <2> QED BY <1>2, <2>1 DEF FixedStates, TypeOK, ListsOver
<1>5. \A p \in Provinces :
        \/ FixedStateOf(of, saved_states)[p] = of[p]
        \/ FixedStateOf(of, saved_states)[p] = NoState /\ of[p] \notin StateIDs
  BY <1>2 DEF FixedStateOf, InvalidStateID, Agree
<1>6. FixedStateOf(of, saved_states) \in [Provinces -> StateIDs \union {NoState, Imported}]
  BY <1>2 DEF FixedStateOf, TypeOK
<1> QED BY <1>1, <1>2, <1>4, <1>5, <1>6, NoGapNoneUnused

LEMMA OpenIsTidy ==
  ASSUME TidyInv, NEW fix \in BOOLEAN, Open(fix), ~(UNCHANGED vars)
  PROVE  TidyInv'
<1>1. /\ phase = "closed" /\ phase' = "open" /\ UNCHANGED files
      /\ m_states' = saved_states /\ m_available_state_ids' = <<>>
      /\ state_id_matrix' = saved_province_state
      /\ province_state' \in [Provinces -> StateIDs \union {NoState, Imported}]
      /\ \A p \in Provinces :
           \/ province_state'[p] = saved_province_state[p]
           \/ province_state'[p] = NoState /\ saved_province_state[p] \notin StateIDs
  BY OpenReadsFiles
<1>2. Agree(saved_province_state, saved_states) /\ NoGap /\ FileInv /\ TypeOK
  BY <1>1 DEF TidyInv, FilesAgree, FileInv
<1>3. TypeOK'
  BY <1>1, <1>2 DEF TypeOK, files
<1>4. IDInv'
  <2>1. Available' = {} /\ DOMAIN m_states' = 1 .. Cardinality(DOMAIN saved_states)
    BY <1>1, <1>2 DEF Available, NoGap
  <2>2. Cardinality(DOMAIN saved_states) \in Nat
    BY <1>2, FS_CardinalityType DEF FileInv
  <2> QED BY <1>1, <2>1, <2>2 DEF IDInv, AvailableAreUnused
<1>5. FileInv' /\ FilesAgree'
  BY <1>1, <1>2 DEF FileInv, FilesAgree, Agree, files
<1>6. Agree(province_state, m_states)'
  <2>1. DOMAIN saved_states \subseteq StateIDs
    BY <1>2 DEF TypeOK
  <2> QED BY <1>1, <1>2, <2>1, NoStateIsNone DEF Agree
<1>7. MatrixAgrees'
  BY <1>1, NoStateIsNone DEF MatrixAgrees, InState
<1> QED BY <1>3, <1>4, <1>5, <1>6, <1>7 DEF TidyInv

-----------------------------------------------------------------------------
(* The assignment.                                                         *)

LEMMA CreateImplements ==
  ASSUME TidyInv, NEW chosen \in SUBSET Provinces, addNewState(chosen)
  PROVE  Assignment!Create(chosen)
<1> DEFINE id == NewID
<1>1. id \in StateIDs /\ id \notin DOMAIN m_states
  BY NewIDIsNew DEF TidyInv
<1>2. /\ phase = "open" /\ phase' = "open" /\ UNCHANGED files
      /\ DOMAIN m_states' = DOMAIN m_states \union {id}
      /\ \A p \in Provinces :
           province_state'[p] = IF p \in chosen THEN id ELSE province_state[p]
  BY DEF addNewState, Edits
<1> HIDE DEF id
<1> QED BY <1>1, <1>2 DEF Assignment!Create, Assignment!Move, InState, files

LEMMA DeleteImplements ==
  ASSUME TidyInv, NEW id \in DOMAIN m_states, removeState(id)
  PROVE  Assignment!Delete(id)
<1>1. /\ phase = "open" /\ phase' = "open" /\ UNCHANGED files
      /\ DOMAIN m_states' = DOMAIN m_states \ {id}
      /\ \A p \in Provinces :
           province_state'[p] = IF p \in m_states[id] THEN NoState ELSE province_state[p]
  BY DEF removeState, Edits, Without
<1>2. id \in StateIDs
  BY DEF TidyInv, TypeOK
<1>3. \A p \in Provinces : p \in m_states[id] <=> InState(province_state[p]) = id
  BY <1>2, NoStateIsNone DEF TidyInv, Agree, InState
<1> QED BY <1>1, <1>3, NoStateIsNone DEF Assignment!Delete, Assignment!Move, InState, files

LEMMA TransferImplements ==
  ASSUME TidyInv, NEW p \in Provinces,
         \/ removeProvinceFromState(p)
         \/ \E id \in DOMAIN m_states : moveProvinceToState(p, id)
  PROVE  Assignment!Transfer(p)
<1>1. PICK id \in DOMAIN m_states \union {NoState} :
        province_state' = [province_state EXCEPT ![p] = id]
  BY DEF removeProvinceFromState, moveProvinceToState
<1>2. /\ phase = "open" /\ phase' = "open" /\ UNCHANGED files
      /\ DOMAIN m_states' = DOMAIN m_states
  BY DEF removeProvinceFromState, moveProvinceToState, Edits, LeaveOldStates
<1>3. InState(id) = id
  BY NoStateIsNone DEF TidyInv, TypeOK, InState
<1>4. \A q \in Provinces : province_state'[q] = IF q = p THEN id ELSE province_state[q]
  BY <1>1 DEF TidyInv, TypeOK
<1> QED BY <1>2, <1>3, <1>4 DEF Assignment!Transfer, Assignment!Move, files

LEMMA SaveImplements ==
  ASSUME TidyInv, SaveProvinces \/ SaveStates
  PROVE  Assignment!Save \/ UNCHANGED Assignment!assignmentVars
<1>1. CASE SaveProvinces
  BY <1>1 DEF SaveProvinces, memory, Assignment!Save
<1>2. CASE SaveStates
  BY <1>2 DEF SaveStates, memory, Assignment!assignmentVars
<1> QED BY <1>1, <1>2

LEMMA CloseImplements ==
  ASSUME phase = "open", Exit
  PROVE  Assignment!Restore
BY DEF Exit, files, Assignment!Restore

\* Opening a project changes nothing: it is what the closed one stands for.
LEMMA OpenImplements ==
  ASSUME TidyInv, NEW fix \in BOOLEAN, Open(fix)
  PROVE  UNCHANGED Assignment!assignmentVars
<1>1. CASE UNCHANGED vars
  BY <1>1 DEF vars, memory, files, Assignment!assignmentVars
<1>2. CASE ~(UNCHANGED vars)
  <2>1. /\ phase = "closed" /\ phase' = "open" /\ UNCHANGED files
        /\ m_states' = saved_states
        /\ \A p \in Provinces :
             \/ province_state'[p] = saved_province_state[p]
             \/ province_state'[p] = NoState /\ saved_province_state[p] \notin StateIDs
    BY <1>2, OpenReadsFiles
  <2>2. \A p \in Provinces : InState(province_state'[p]) = InState(saved_province_state[p])
    BY <2>1, NoStateIsNone DEF InState
  <2> QED BY <2>1, <2>2 DEF files, Assignment!assignmentVars
<1> QED BY <1>1, <1>2
-----------------------------------------------------------------------------
(* The specification.                                                      *)

LEMMA TidyInvStep == TidyInv /\ [ViewNext]_viewVars => TidyInv'
<1> SUFFICES ASSUME TidyInv, [ViewNext]_viewVars PROVE TidyInv'
  OBVIOUS
<1>1. CASE UNCHANGED vars
  BY <1>1 DEF TidyInv, TypeOK, IDInv, AvailableAreUnused, Available, FileInv, NoGap, Agree,
              FilesAgree, MatrixAgrees, vars, memory, files
<1>2. CASE EditStates
  <2>1. CASE \E chosen \in SUBSET Provinces \ {{}} : addNewState(chosen)
    BY <2>1, CreateIsTidy
  <2>2. CASE \E id \in DOMAIN m_states : removeState(id)
    BY <2>2, DeleteIsTidy
  <2>3. CASE \E p \in Provinces :
               \/ removeProvinceFromState(p)
               \/ \E id \in DOMAIN m_states : moveProvinceToState(p, id)
    BY <2>3, TransferIsTidy
  <2> QED BY <1>2, <2>1, <2>2, <2>3 DEF EditStates, Edit
<1>3. CASE Save
  BY <1>3, SaveIsTidy DEF Save
<1>4. CASE CloseProject
  BY <1>4, CloseIsTidy DEF CloseProject
<1>5. CASE OpenProject
  BY <1>1, <1>5, OpenIsTidy DEF OpenProject
<1> QED BY <1>1, <1>2, <1>3, <1>4, <1>5
        DEF ViewNext, viewVars, on_render, setViewingMode, Restart

LEMMA TidyIsInductive == ViewSpec => []TidyInv
<1>1. ViewInit => TidyInv
  BY TidyInvInit DEF ViewInit
<1> QED BY <1>1, TidyInvStep, PTL DEF ViewSpec

\* A map that is open is a matrix, so that the area has one to draw.
LEMMA ViewInvStep == TidyInv /\ TidyInv' /\ ViewInv /\ [ViewNext]_viewVars => ViewInv'
<1> SUFFICES ASSUME TidyInv, TidyInv', ViewInv, [ViewNext]_viewVars PROVE ViewInv'
  OBVIOUS
<1> USE DEF ViewInv
<1>1. CASE on_render
  BY <1>1, NothingAssumption DEF on_render, beginRender, NoTag, getStateIDMatrixUpdatedTag,
                                 vars, memory
<1>2. CASE \E mode \in ViewingModes : setViewingMode(mode)
  BY <1>2 DEF setViewingMode, vars, memory
<1>3. CASE EditStates
  <2>1. phase = "open" /\ phase' = "open"
    BY <1>3 DEF EditStates, Edit, Edits, addNewState, removeState, removeProvinceFromState,
                moveProvinceToState
  <2> QED BY <1>3, <2>1 DEF EditStates, Rewritten
<1>4. CASE Save
  <2>1. phase # "closed" /\ phase' # "closed" /\ UNCHANGED state_id_matrix
    BY <1>4 DEF Save, SaveProvinces, SaveStates, memory
  <2> QED BY <1>4, <2>1 DEF Save, area
<1>5. CASE CloseProject
  BY <1>5 DEF CloseProject, Exit, area
<1>6. CASE Restart
  BY <1>6 DEF Restart, NewView, vars
<1>7. CASE OpenProject
  <2>1. phase = "closed" /\ phase' \in {"open", "closed"}
    BY <1>7 DEF OpenProject, Open
  <2>2. CASE phase' = "open"
    BY <1>7, <2>1, <2>2 DEF OpenProject, Rewritten
  <2>3. CASE phase' = "closed"
    BY <1>7, <2>1, <2>3 DEF OpenProject
  <2> QED BY <2>1, <2>2, <2>3
<1>8. CASE UNCHANGED viewVars
  BY <1>8 DEF viewVars, vars, memory, area
<1> QED BY <1>1, <1>2, <1>3, <1>4, <1>5, <1>6, <1>7, <1>8 DEF ViewNext

LEMMA ViewIsInductive == ViewSpec => []ViewInv
<1>1. ViewInit => ViewInv
  BY DEF ViewInit, ViewInv, NewView
<1> QED BY <1>1, ViewInvStep, TidyIsInductive, PTL DEF ViewSpec

-----------------------------------------------------------------------------
(* The theorems.                                                           *)

\* The state that lists a province is the one the province says it is in
\* (StateProject.cpp:451-547) and the one of its pixels in the matrix (384-428),
\* through every sequence of edits, complete saves and openings.
THEOREM CopiesAlwaysAgree == ViewSpec => []CopiesAgree
<1>1. TidyInv => CopiesAgree
  BY DEF TidyInv, Agree, MatrixAgrees, CopiesAgree
<1> QED BY <1>1, TidyIsInductive, PTL

\* A frame of the states view (StateRenderingView.cpp:42-131) shows every province
\* in its state, unless the texture is older than the last edit or map.
THEOREM FramesShowStates == ViewSpec => []FrameShowsStates
<1>1. TidyInv /\ ViewInv => FrameShowsStates
  <2> SUFFICES ASSUME TidyInv, ViewInv, phase # "closed", ~outdated, NEW p \in Provinces
               PROVE  render(beginRender(view))[p] = InState(province_state[p])
    BY DEF FrameShowsStates
  <2> DEFINE texture == beginRender(view).texture
  <2>1. texture = state_id_matrix /\ state_id_matrix # Nothing
    BY NothingAssumption DEF TidyInv, TypeOK, Matrices, ViewInv, beginRender, NoTag,
                             getStateIDMatrixUpdatedTag
  <2> HIDE DEF texture
  <2>2. InState(state_id_matrix[p]) = InState(province_state[p])
    BY DEF TidyInv, MatrixAgrees
  <2>3. render(beginRender(view))[p] =
          IF state_id_matrix[p] \in DOMAIN m_states /\ m_states[state_id_matrix[p]] # {}
          THEN state_id_matrix[p] ELSE NoState
    BY <2>1 DEF render, texture
  <2>4. CASE state_id_matrix[p] \in StateIDs
    <3>1. province_state[p] = state_id_matrix[p]
      BY <2>2, <2>4, NoStateIsNone DEF InState
    <3>2. state_id_matrix[p] \in DOMAIN m_states /\ p \in m_states[state_id_matrix[p]]
      BY <2>4, <3>1 DEF TidyInv, Agree
    <3> QED BY <2>2, <2>3, <2>4, <3>2 DEF InState
  <2>5. CASE state_id_matrix[p] \notin StateIDs
    <3>1. state_id_matrix[p] \notin DOMAIN m_states
      BY <2>5 DEF TidyInv, TypeOK
    <3> QED BY <2>2, <2>3, <2>5, <3>1 DEF InState
  <2> QED BY <2>4, <2>5
<1> QED BY <1>1, TidyIsInductive, ViewIsInductive, PTL

\* The states implement StateAssignment: every operation moves just the provinces it
\* should, saving keeps what is there, and what is opened is what was saved.
THEOREM ImplementsAssignment == ViewSpec => AssignmentSpec
<1>1. ViewInit => Assignment!Init
  BY DEF ViewInit, Init, Assignment!Init, NoStates, InState, Imported, StateIDs
<1>2. TidyInv /\ [ViewNext]_viewVars => [Assignment!Next]_(Assignment!assignmentVars)
  <2> SUFFICES ASSUME TidyInv, [ViewNext]_viewVars
               PROVE  Assignment!Next \/ UNCHANGED Assignment!assignmentVars
    OBVIOUS
  <2>1. CASE UNCHANGED vars
    BY <2>1 DEF vars, memory, files, Assignment!assignmentVars
  <2>2. CASE EditStates
    <3>1. CASE \E chosen \in SUBSET Provinces \ {{}} : addNewState(chosen)
      BY <3>1, CreateImplements DEF Assignment!Next
    <3>2. CASE \E id \in DOMAIN m_states : removeState(id)
      BY <3>2, DeleteImplements DEF Assignment!Next, removeState, Edits
    <3>3. CASE \E p \in Provinces :
                 \/ removeProvinceFromState(p)
                 \/ \E id \in DOMAIN m_states : moveProvinceToState(p, id)
      BY <3>3, TransferImplements DEF Assignment!Next
    <3> QED BY <2>2, <3>1, <3>2, <3>3 DEF EditStates, Edit
  <2>3. CASE Save
    BY <2>3, SaveImplements DEF Save, Assignment!Next
  <2>4. CASE CloseProject
    BY <2>4, CloseImplements DEF CloseProject, Assignment!Next
  <2>5. CASE OpenProject
    BY <2>5, OpenImplements DEF OpenProject
  <2> QED BY <2>1, <2>2, <2>3, <2>4, <2>5
          DEF ViewNext, viewVars, on_render, setViewingMode, Restart
<1> QED BY <1>1, <1>2, TidyIsInductive, PTL DEF ViewSpec, AssignmentSpec, Assignment!Spec
=============================================================================
