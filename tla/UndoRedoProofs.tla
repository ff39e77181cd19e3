--------------------------- MODULE UndoRedoProofs ---------------------------
(***************************************************************************)
(* Proofs about UndoRedo, for all provinces, borders, names and bounds on  *)
(* the history: the history fits, and implements Timeline.                 *)
(***************************************************************************)
EXTENDS UndoRedo, SequenceTheorems, WellFoundedInduction, TLAPS

-----------------------------------------------------------------------------
(* Values and actions.                                                     *)

IsProject(p) == p = [k \in Keys |-> p[k]] /\ \A k \in Keys : p[k] \in ValuesOf(k)

LEMMA KeyValues ==
  ASSUME NEW k \in Keys
  PROVE  /\ k[2] \in {"coastal", "type", "continent", "exists"}
         /\ k[2] = "coastal" => ValuesOf(k) = BOOLEAN
         /\ k[2] = "type" => ValuesOf(k) = {"LAND", "SEA"}
         /\ k[2] = "continent" => ValuesOf(k) = Names \union {Nothing, None}
         /\ k[2] = "exists" => ValuesOf(k) = BOOLEAN
BY DEF Keys, ValuesOf

\* An action is a key with two of its values.
LEMMA ActionParts ==
  ASSUME NEW a \in Actions
  PROVE  /\ a.key \in Keys
         /\ a.old \in ValuesOf(a.key)
         /\ a.new \in ValuesOf(a.key)
<1>1. PICK k \in Keys : a \in [key : {k}, old : ValuesOf(k), new : ValuesOf(k)]
  BY DEF Actions
<1> QED
  BY <1>1

LEMMA IsAction ==
  ASSUME NEW k \in Keys, NEW v \in ValuesOf(k), NEW w \in ValuesOf(k)
  PROVE  [key |-> k, old |-> v, new |-> w] \in Actions
BY DEF Actions

-----------------------------------------------------------------------------
(* The history, as a sequence H of actions of which the first n are done.  *)

Same(H, i, j) == H[i].key = H[j].key

Fits(p, H, n) ==
  \A i \in 1 .. Len(H) :
    /\ \A j \in 1 .. Len(H) :
         i < j /\ Same(H, i, j) /\ (\A l \in i + 1 .. j - 1 : ~Same(H, i, l))
           => H[i].new = H[j].old
    /\ i <= n /\ (\A l \in i + 1 .. n : ~Same(H, i, l)) => H[i].new = p[H[i].key]
    /\ i > n /\ (\A l \in n + 1 .. i - 1 : ~Same(H, i, l)) => H[i].old = p[H[i].key]

\* What can be redone may be forgotten.
LEMMA ForgetUndone ==
  ASSUME NEW p, NEW A \in Seq(Actions), NEW U \in Seq(Actions), Fits(p, A \o U, Len(A))
  PROVE  Fits(p, A, Len(A))
<1> DEFINE H == A \o U
<1>1. /\ Len(H) = Len(A) + Len(U) /\ Len(A) \in Nat /\ Len(U) \in Nat
      /\ \A i \in 1 .. Len(A) : H[i] = A[i]
  BY ConcatProperties
<1>2. \A i, j \in 1 .. Len(A) : Same(H, i, j) <=> Same(A, i, j)
  BY <1>1 DEF Same
<1>3. ASSUME NEW i \in 1 .. Len(A), NEW j \in 1 .. Len(A), i < j, Same(A, i, j),
             \A l \in i + 1 .. j - 1 : ~Same(A, i, l)
      PROVE  A[i].new = A[j].old
  <2>1. \A l \in i + 1 .. j - 1 : ~Same(H, i, l)
    BY <1>1, <1>2, <1>3
  <2>2. i \in 1 .. Len(H) /\ j \in 1 .. Len(H) /\ Same(H, i, j)
    BY <1>1, <1>2, <1>3
  <2> HIDE DEF H
  <2>3. Fits(p, H, Len(A))
    BY DEF H
  <2> QED
    BY <1>1, <1>3, <2>1, <2>2, <2>3 DEF Fits
<1>4. ASSUME NEW i \in 1 .. Len(A), \A l \in i + 1 .. Len(A) : ~Same(A, i, l)
      PROVE  A[i].new = p[A[i].key]
  <2>1. \A l \in i + 1 .. Len(A) : ~Same(H, i, l)
    BY <1>1, <1>2, <1>4
  <2>2. i \in 1 .. Len(H) /\ i <= Len(A)
    BY <1>1
  <2> HIDE DEF H
  <2>3. Fits(p, H, Len(A))
    BY DEF H
  <2> QED
    BY <1>1, <2>1, <2>2, <2>3 DEF Fits
<1> QED
  BY <1>1, <1>3, <1>4 DEF Fits

\* An action that is done finds the value the newest one on its key left, and
\* leaves the value the next one on it will find.
LEMMA RedoOne ==
  ASSUME NEW H \in Seq(Actions), NEW n \in Nat, n < Len(H),
         NEW p, IsProject(p), Fits(p, H, n), H[n + 1].old = p[H[n + 1].key]
  PROVE  Fits([p EXCEPT ![H[n + 1].key] = H[n + 1].new], H, n + 1)
<1> DEFINE a == H[n + 1]
           q == [p EXCEPT ![a.key] = a.new]
<1>1. Len(H) \in Nat /\ \A i \in 1 .. Len(H) : H[i].key \in Keys
  BY LenProperties, ElementOfSeq, ActionParts
<1>2. n + 1 \in 1 .. Len(H) /\ a.key \in Keys
  BY <1>1
<1>3. \A k \in Keys : q[k] = IF k = a.key THEN a.new ELSE p[k]
  BY <1>2 DEF IsProject
<1>4. ASSUME NEW i \in 1 .. Len(H), i <= n + 1, \A l \in i + 1 .. n + 1 : ~Same(H, i, l)
      PROVE  H[i].new = q[H[i].key]
  <2>1. CASE i = n + 1
    BY <1>2, <1>3, <2>1
  <2>2. CASE i <= n
    <3>1. ~Same(H, i, n + 1) /\ \A l \in i + 1 .. n : ~Same(H, i, l)
      BY <1>4, <2>2
    <3>2. H[i].new = p[H[i].key]
      BY <2>2, <3>1 DEF Fits
    <3> QED
      BY <1>1, <1>3, <3>1, <3>2 DEF Same
  <2> QED
    BY <1>4, <2>1, <2>2
<1>5. ASSUME NEW i \in 1 .. Len(H), i > n + 1, \A l \in n + 2 .. i - 1 : ~Same(H, i, l)
      PROVE  H[i].old = q[H[i].key]
  <2>1. CASE Same(H, i, n + 1)
    <3>1. Same(H, n + 1, i) /\ \A l \in n + 2 .. i - 1 : ~Same(H, n + 1, l)
      BY <1>5, <2>1 DEF Same
    <3>2. a.new = H[i].old
      BY <1>2, <1>5, <3>1 DEF Fits
    <3> QED
      BY <1>1, <1>3, <2>1, <3>2 DEF Same
  <2>2. CASE ~Same(H, i, n + 1)
    <3>1. \A l \in n + 1 .. i - 1 : ~Same(H, i, l)
      BY <1>5, <2>2
    <3>2. H[i].old = p[H[i].key]
      BY <1>5, <3>1 DEF Fits
    <3> QED
      BY <1>1, <1>3, <2>2, <3>2 DEF Same
  <2> QED
    BY <2>1, <2>2
<1> HIDE DEF a, q
<1>6. Fits(q, H, n + 1)
  BY <1>4, <1>5 DEF Fits
<1> QED
  BY <1>6 DEF a, q

\* Undoing it is the reverse.
LEMMA UndoOne ==
  ASSUME NEW H \in Seq(Actions), NEW n \in Nat, n > 0, n <= Len(H),
         NEW p, IsProject(p), Fits(p, H, n)
  PROVE  Fits([p EXCEPT ![H[n].key] = H[n].old], H, n - 1)
<1> DEFINE a == H[n]
           q == [p EXCEPT ![a.key] = a.old]
<1>1. Len(H) \in Nat /\ \A i \in 1 .. Len(H) : H[i].key \in Keys
  BY LenProperties, ElementOfSeq, ActionParts
<1>2. n \in 1 .. Len(H) /\ a.key \in Keys
  BY <1>1
<1>3. \A k \in Keys : q[k] = IF k = a.key THEN a.old ELSE p[k]
  BY <1>2 DEF IsProject
<1>4. ASSUME NEW i \in 1 .. Len(H), i <= n - 1, \A l \in i + 1 .. n - 1 : ~Same(H, i, l)
      PROVE  H[i].new = q[H[i].key]
  <2>1. CASE Same(H, i, n)
    <3>1. H[i].new = a.old
      BY <1>2, <1>4, <2>1 DEF Fits
    <3> QED
      BY <1>1, <1>3, <2>1, <3>1 DEF Same
  <2>2. CASE ~Same(H, i, n)
    <3>1. \A l \in i + 1 .. n : ~Same(H, i, l)
      BY <1>4, <2>2
    <3>2. H[i].new = p[H[i].key]
      BY <1>4, <3>1 DEF Fits
    <3> QED
      BY <1>1, <1>3, <2>2, <3>2 DEF Same
  <2> QED
    BY <2>1, <2>2
<1>5. ASSUME NEW i \in 1 .. Len(H), i > n - 1, \A l \in n .. i - 1 : ~Same(H, i, l)
      PROVE  H[i].old = q[H[i].key]
  <2>1. CASE i = n
    BY <1>2, <1>3, <2>1
  <2>2. CASE i > n
    <3>1. ~Same(H, i, n) /\ \A l \in n + 1 .. i - 1 : ~Same(H, i, l)
      BY <1>5, <2>2
    <3>2. H[i].old = p[H[i].key]
      BY <2>2, <3>1 DEF Fits
    <3> QED
      BY <1>1, <1>3, <3>1, <3>2 DEF Same
  <2> QED
    BY <1>5, <2>1, <2>2
<1> HIDE DEF a, q
<1>6. Fits(q, H, n - 1)
  <2>1. (n - 1) + 1 = n
    OBVIOUS
  <2> QED
    BY <1>4, <1>5, <2>1 DEF Fits
<1> QED
  BY <1>6 DEF a, q

\* A new action, that finds the value it expects, once nothing can be redone.
LEMMA DoOne ==
  ASSUME NEW A \in Seq(Actions), NEW a \in Actions,
         NEW p, IsProject(p), Fits(p, A, Len(A)), a.old = p[a.key]
  PROVE  Fits([p EXCEPT ![a.key] = a.new], Append(A, a), Len(A) + 1)
<1> DEFINE H == Append(A, a)
           n == Len(A)
<1>1. /\ H \in Seq(Actions) /\ n \in Nat /\ Len(H) = n + 1
      /\ H[n + 1] = a /\ \A i \in 1 .. n : H[i] = A[i]
  BY AppendProperties, LenProperties
<1>2. Fits(p, H, n)
  <2>1. \A i, j \in 1 .. n : Same(H, i, j) <=> Same(A, i, j)
    BY <1>1 DEF Same
  <2>2. ASSUME NEW i \in 1 .. Len(H), NEW j \in 1 .. Len(H), i < j, Same(H, i, j),
               \A l \in i + 1 .. j - 1 : ~Same(H, i, l)
        PROVE  H[i].new = H[j].old
    <3>1. i \in 1 .. n
      BY <1>1, <2>2
    <3>2. CASE j = n + 1
      <4>1. \A l \in i + 1 .. n : ~Same(A, i, l)
        BY <1>1, <2>1, <2>2, <3>1, <3>2
      <4>2. A[i].new = p[A[i].key]
        BY <3>1, <4>1, <1>1 DEF Fits
      <4> QED
        BY <1>1, <2>2, <3>1, <3>2, <4>2 DEF Same
    <3>3. CASE j \in 1 .. n
      <4>1. Same(A, i, j) /\ \A l \in i + 1 .. j - 1 : ~Same(A, i, l)
        BY <1>1, <2>1, <2>2, <3>1, <3>3
      <4>2. A[i].new = A[j].old
        BY <2>2, <3>1, <3>3, <4>1 DEF Fits
      <4> QED
        BY <1>1, <3>1, <3>3, <4>2
    <3> QED
      BY <1>1, <3>2, <3>3
  <2>3. ASSUME NEW i \in 1 .. Len(H), i <= n, \A l \in i + 1 .. n : ~Same(H, i, l)
        PROVE  H[i].new = p[H[i].key]
    <3>1. i \in 1 .. n /\ \A l \in i + 1 .. n : ~Same(A, i, l)
      BY <1>1, <2>1, <2>3
    <3>2. A[i].new = p[A[i].key]
      BY <1>1, <3>1 DEF Fits
    <3> QED
      BY <1>1, <3>1, <3>2
  <2>4. ASSUME NEW i \in 1 .. Len(H), i > n
        PROVE  H[i].old = p[H[i].key]
    <3>1. i = n + 1
      BY <1>1, <2>4
    <3> QED
      BY <1>1, <3>1
  <2> HIDE DEF H, n
  <2> QED
    BY <2>2, <2>3, <2>4 DEF Fits
<1> HIDE DEF H, n
<1>3. n < Len(H) /\ H[n + 1].old = p[H[n + 1].key]
  BY <1>1
<1>4. Fits([p EXCEPT ![H[n + 1].key] = H[n + 1].new], H, n + 1)
  BY <1>1, <1>2, <1>3, RedoOne
<1> QED
  BY <1>1, <1>4 DEF H, n

-----------------------------------------------------------------------------
(* The invariant of the specification.                                     *)

IInv == TypeOK /\ HistoryFits

LEMMA HistoryIsFits ==
  ASSUME TypeOK
  PROVE  /\ History \in Seq(Actions)
         /\ Present \in Nat
         /\ IsProject(project)
         /\ Len(History) = Present + Len(m_undone_actions)
         /\ HistoryFits <=> Fits(project, History, Present)
<1>1. /\ m_actions \in Seq(Actions) /\ m_undone_actions \in Seq(Actions)
      /\ IsProject(project)
  BY DEF TypeOK, IsProject
<1>2. /\ History \in Seq(Actions)
      /\ Present \in Nat
      /\ Len(History) = Present + Len(m_undone_actions)
  BY <1>1, LenProperties, ConcatProperties DEF History, Present
<1>3. DOMAIN History = 1 .. Len(History)
  BY <1>2, LenProperties
<1>4. HistoryFits <=> Fits(project, History, Present)
  BY <1>3 DEF HistoryFits, Fits, SameKey, Same
<1> QED
  BY <1>1, <1>2, <1>4

LEMMA SetOne ==
  ASSUME NEW p, IsProject(p), NEW k \in Keys, NEW v \in ValuesOf(k)
  PROVE  IsProject([p EXCEPT ![k] = v])
BY DEF IsProject

\* What the invariant of the next state comes down to.
LEMMA InvFromParts ==
  ASSUME IsProject(project'),
         m_actions' \in Seq(Actions), m_undone_actions' \in Seq(Actions),
         m_continent_menu' \subseteq Names,
         Fits(project', m_actions' \o m_undone_actions', Len(m_actions'))
  PROVE  IInv'
<1>1. TypeOK'
  BY DEF TypeOK, IsProject
<1>2. Fits(project', History', Present')
  BY DEF History, Present
<1>3. HistoryFits' <=> Fits(project', History', Present')
  <2>1. DOMAIN History' = 1 .. Len(History')
    BY ConcatProperties, LenProperties DEF History
  <2> QED
    BY <2>1 DEF HistoryFits, Fits, SameKey, Same
<1> QED
  BY <1>1, <1>2, <1>3 DEF IInv

LEMMA InitInv == Init => IInv
<1> SUFFICES ASSUME Init PROVE IInv
  OBVIOUS
<1>1. PICK types \in [Provinces -> {"LAND", "SEA"}] : project = Coasts(ImportedMap(types))
  BY DEF Init
<1>2. ASSUME NEW k \in Keys
      PROVE  ImportedMap(types)[k] \in ValuesOf(k)
  <2>1. k[2] = "type" => k[1] \in Provinces
    BY DEF Keys
  <2>2. ImportedMap(types)[k] = CASE k[2] = "type"      -> types[k[1]]
                                  [] k[2] = "continent" -> None
                                  [] OTHER              -> FALSE
    BY DEF ImportedMap
  <2>3. CASE k[2] = "type"
    BY <2>1, <2>2, <2>3, KeyValues
  <2>4. CASE k[2] = "continent"
    BY <2>2, <2>4, KeyValues
  <2>5. CASE k[2] \in {"coastal", "exists"}
    BY <2>2, <2>5, KeyValues
  <2> QED
    BY <2>3, <2>4, <2>5, KeyValues
<1>3. IsProject(project)
  <2>1. project = [k \in Keys |->
                     IF k[2] = "coastal" /\ ImportedMap(types)[<<k[1], "type">>] = "LAND"
                     THEN \E q \in Provinces : <<k[1], q>> \in Adjacent
                                               /\ ImportedMap(types)[<<q, "type">>] = "SEA"
                     ELSE ImportedMap(types)[k]]
    BY <1>1 DEF Coasts
  <2>2. ASSUME NEW k \in Keys PROVE project[k] \in ValuesOf(k)
    BY <1>2, <2>1, KeyValues
  <2> QED
    BY <2>1, <2>2 DEF IsProject
<1>4. TypeOK
  BY <1>3 DEF TypeOK, IsProject, Init
<1>5. DOMAIN History = {}
  <2>1. History = <<>>
    BY ConcatEmptySeq, EmptySeq DEF Init, History
  <2> QED
    BY <2>1
<1> QED
  BY <1>4, <1>5 DEF IInv, HistoryFits

-----------------------------------------------------------------------------
(* What the steps do to the project and the two stacks.                    *)

DidNothing == UNCHANGED <<project, m_actions, m_undone_actions>>

DidOne(a) ==
  /\ a.old = project[a.key]
  /\ project' = [project EXCEPT ![a.key] = a.new]
  /\ m_actions' = Append(m_actions, a)
  /\ m_undone_actions' = <<>>

DidTwo(a, b) ==
  /\ a.old = project[a.key] /\ b.old = project[b.key] /\ a.key # b.key
  /\ project' = [[project EXCEPT ![a.key] = a.new] EXCEPT ![b.key] = b.new]
  /\ m_actions' = Append(Append(m_actions, a), b)
  /\ m_undone_actions' = <<>>

Undid ==
  /\ Present > 0
  /\ project' = [project EXCEPT ![History[Present].key] = History[Present].old]
  /\ History' = History
  /\ Present' = Present - 1
  /\ m_actions' \in Seq(Actions) /\ m_undone_actions' \in Seq(Actions)

Redid ==
  /\ Present < Len(History)
  /\ History[Present + 1].old = project[History[Present + 1].key]
  /\ project' = [project EXCEPT ![History[Present + 1].key] = History[Present + 1].new]
  /\ History' = History
  /\ Present' = Present + 1
  /\ m_actions' \in Seq(Actions) /\ m_undone_actions' \in Seq(Actions)

LEMMA DoShape ==
  ASSUME TypeOK, NEW a \in Actions, doAction(a)
  PROVE  DidNothing \/ DidOne(a)
<1>1. CASE project[a.key] # a.old
  BY <1>1 DEF doAction, DidNothing
<1>2. CASE project[a.key] = a.old
  <2>1. m_actions' = m_actions \o <<a>>
    BY <1>2 DEF doAction, Done
  <2>2. m_actions' = Append(m_actions, a)
    BY <2>1, AppendIsConcat DEF TypeOK
  <2> QED
    BY <1>2, <2>2 DEF doAction, Done, DidOne
<1> QED
  BY <1>1, <1>2

LEMMA EditShape ==
  ASSUME TypeOK, NEW p \in Provinces, EditProvince(p)
  PROVE  DidNothing \/ \E a \in Actions : DidOne(a)
<1>1. IsProject(project) /\ m_continent_menu \subseteq Names
  BY HistoryIsFits DEF TypeOK
<1>2. ASSUME NEW k \in Keys, NEW v \in ValuesOf(k), doAction(SetProperty(k, v))
      PROVE  DidNothing \/ \E a \in Actions : DidOne(a)
  <2>1. SetProperty(k, v) \in Actions
    BY <1>1, IsAction DEF SetProperty, IsProject
  <2> QED
    BY <1>2, <2>1, DoShape
<1>3. /\ <<p, "coastal">> \in Keys /\ ValuesOf(<<p, "coastal">>) = BOOLEAN
      /\ <<p, "type">> \in Keys /\ ValuesOf(<<p, "type">>) = {"LAND", "SEA"}
      /\ <<p, "continent">> \in Keys
      /\ ValuesOf(<<p, "continent">>) = Names \union {Nothing, None}
  BY DEF Keys, ValuesOf
<1> QED
  BY <1>1, <1>2, <1>3 DEF EditProvince

LEMMA DeleteShape ==
  ASSUME TypeOK, NEW c \in Names, DeleteContinent(c)
  PROVE  DidNothing \/ \E a \in Actions : DidOne(a)
<1>1. RemoveContinent(c) \in Actions
  <2>1. <<c, "exists">> \in Keys /\ ValuesOf(<<c, "exists">>) = BOOLEAN
    BY DEF Keys, ValuesOf
  <2> QED
    BY <2>1, IsAction DEF RemoveContinent
<1> QED
  BY <1>1, DoShape DEF DeleteContinent

\* A new continent is one action, and one more if the menu empties the continent of
\* the province shown.
LEMMA AddShape ==
  ASSUME TypeOK, NEW c \in Names, NEW shown \in {<<>>} \union {<<p>> : p \in Provinces},
         AddContinent(c, shown)
  PROVE  \/ \E a \in Actions : DidOne(a)
         \/ \E a, b \in Actions : DidTwo(a, b)
<1> DEFINE a == CreateContinent(c)
<1>1. IsProject(project) /\ m_actions \in Seq(Actions)
  BY HistoryIsFits DEF TypeOK
<1>2. a \in Actions /\ a.key = <<c, "exists">> /\ a.key \in Keys /\ a.old = FALSE /\ a.new = TRUE
  <2>1. <<c, "exists">> \in Keys /\ ValuesOf(<<c, "exists">>) = BOOLEAN
    BY DEF Keys, ValuesOf
  <2> QED
    BY <2>1, IsAction DEF CreateContinent
<1>3. project[a.key] = FALSE
  BY <1>1, <1>2, KeyValues DEF AddContinent, Continents, IsProject
<1>4. m_undone_actions' = <<>>
  BY DEF AddContinent, Done
<1>5. CASE shown = <<>>
  <2>1. m_actions' = Append(m_actions, a)
    <3>1. ClearMenu(shown) = <<>>
      BY <1>5 DEF ClearMenu
    <3>2. m_actions' = m_actions \o <<a>>
      BY <3>1, ConcatEmptySeq, <1>2 DEF AddContinent, Done
    <3> QED
      BY <1>1, <1>2, <3>2, AppendIsConcat
  <2>2. project' = [project EXCEPT ![a.key] = a.new]
    <3>1. project' = [k \in Keys |-> IF k = a.key THEN TRUE ELSE project[k]]
      BY <1>2, <1>5 DEF AddContinent
    <3>2. [project EXCEPT ![a.key] = a.new]
            = [k \in Keys |-> IF k = a.key THEN TRUE ELSE project[k]]
      BY <1>1, <1>2 DEF IsProject
    <3> QED
      BY <3>1, <3>2
  <2> HIDE DEF a
  <2> QED
    BY <1>2, <1>3, <1>4, <2>1, <2>2 DEF DidOne
<1>6. ASSUME NEW p \in Provinces, shown = <<p>>
      PROVE  \E b \in Actions : DidTwo(a, b)
  <2> DEFINE b == SetProperty(<<p, "continent">>, Nothing)
             middle == [project EXCEPT ![a.key] = a.new]
  <2>1. /\ <<p, "continent">> \in Keys /\ Nothing \in ValuesOf(<<p, "continent">>)
        /\ <<p, "continent">> # a.key
    BY <1>2 DEF Keys, ValuesOf
  <2>2. /\ b \in Actions /\ b.key = <<p, "continent">> /\ b.new = Nothing
        /\ b.old = project[b.key]
    BY <1>1, <2>1, IsAction DEF SetProperty, IsProject
  <2>3. m_actions' = Append(Append(m_actions, a), b)
    <3>1. ClearMenu(shown) = <<b>>
      BY <1>6 DEF ClearMenu
    <3>2. m_actions' = m_actions \o (<<a>> \o <<b>>)
      BY <3>1 DEF AddContinent, Done
    <3>3. m_actions \in Seq(Actions) /\ <<a>> \in Seq(Actions) /\ <<b>> \in Seq(Actions)
      BY <1>1, <1>2, <2>2
    <3>4. m_actions' = (m_actions \o <<a>>) \o <<b>>
      BY <3>2, <3>3, ConcatAssociative
    <3>5. Append(m_actions, a) \in Seq(Actions)
      BY <1>1, <1>2, AppendProperties
    <3> HIDE DEF a, b
    <3> QED
      BY <1>1, <1>2, <2>2, <3>4, <3>5, AppendIsConcat
  <2>4. project' = [middle EXCEPT ![b.key] = b.new]
    <3>1. \A k \in Keys : (\E i \in DOMAIN shown : k = <<shown[i], "continent">>)
                             <=> k = <<p, "continent">>
      BY <1>6
    <3>2. project' = [k \in Keys |-> IF k = a.key THEN TRUE
                                     ELSE IF k = <<p, "continent">> THEN Nothing
                                     ELSE project[k]]
      BY <1>2, <3>1 DEF AddContinent
    <3>3. middle = [k \in Keys |-> IF k = a.key THEN TRUE ELSE project[k]]
      BY <1>1, <1>2 DEF IsProject
    <3> HIDE DEF a, b, middle
    <3> QED
      BY <2>1, <2>2, <3>2, <3>3
  <2> HIDE DEF a, b
  <2> QED
    BY <1>2, <1>3, <1>4, <2>1, <2>2, <2>3, <2>4 DEF DidTwo
<1> HIDE DEF a
<1> QED
  BY <1>2, <1>5, <1>6

\* The actions stay as they are, in the same order; one fewer is done.
LEMMA UndoShape ==
  ASSUME TypeOK, undoAction
  PROVE  DidNothing \/ Undid
<1> DEFINE a == Last(m_actions)
           n == Len(m_actions)
<1>1. CASE project[a.key] # a.new
  BY <1>1 DEF undoAction, DidNothing
<1>2. CASE project[a.key] = a.new
  <2>1. /\ project' = [project EXCEPT ![a.key] = a.old]
        /\ m_actions' = Front(m_actions)
        /\ m_undone_actions' = <<a>> \o m_undone_actions
        /\ m_actions # <<>>
    BY <1>2 DEF undoAction
  <2>2. /\ m_actions \in Seq(Actions) /\ n \in Nat /\ n > 0
        /\ m_undone_actions \in Seq(Actions) /\ a = m_actions[n] /\ a \in Actions
    BY <2>1, LenProperties, EmptySeq, ElementOfSeq DEF TypeOK, Last
  <2>3. /\ m_actions' \in Seq(Actions) /\ Len(m_actions') = n - 1
        /\ \A i \in 1 .. n - 1 : m_actions'[i] = m_actions[i]
    BY <2>1, <2>2, SubSeqProperties DEF Front
  <2>4. m_actions' \o <<a>> = m_actions
    <3>1. /\ <<a>> \in Seq(Actions) /\ Len(<<a>>) = 1 /\ <<a>>[1] = a
      BY <2>2
    <3>2. /\ m_actions' \o <<a>> \in Seq(Actions) /\ Len(m_actions' \o <<a>>) = n
          /\ \A i \in 1 .. n - 1 : (m_actions' \o <<a>>)[i] = m_actions[i]
          /\ (m_actions' \o <<a>>)[n] = a
      BY <2>2, <2>3, <3>1, ConcatProperties
    <3> HIDE DEF a, n
    <3>3. \A i \in 1 .. n : (m_actions' \o <<a>>)[i] = m_actions[i]
      BY <2>2, <3>2
    <3> QED
      BY <2>2, <3>2, <3>3, SeqEqual DEF n
  <2>5. History' = History
    <3>1. /\ m_actions' \in Seq(Actions) /\ <<a>> \in Seq(Actions)
          /\ m_undone_actions \in Seq(Actions)
      BY <2>2, <2>3
    <3> HIDE DEF a, n
    <3>2. m_actions' \o (<<a>> \o m_undone_actions) = (m_actions' \o <<a>>) \o m_undone_actions
      BY <3>1, ConcatAssociative
    <3> QED
      BY <2>1, <2>4, <3>2 DEF History
  <2>6. History[n] = a /\ Present = n /\ Present' = n - 1
    BY <2>2, <2>3, ConcatProperties DEF History, Present
  <2>7. m_undone_actions' \in Seq(Actions)
    BY <2>1, <2>2, ConcatProperties
  <2> HIDE DEF a, n
  <2> QED
    BY <2>1, <2>2, <2>3, <2>5, <2>6, <2>7 DEF Undid
<1> QED
  BY <1>1, <1>2

\* Redoing is the reverse.
LEMMA RedoShape ==
  ASSUME TypeOK, redoAction
  PROVE  DidNothing \/ Redid
<1> DEFINE a == Head(m_undone_actions)
           n == Len(m_actions)
<1>1. CASE project[a.key] # a.old
  BY <1>1 DEF redoAction, DidNothing
<1>2. CASE project[a.key] = a.old
  <2>1. /\ project' = [project EXCEPT ![a.key] = a.new]
        /\ m_actions' = Append(m_actions, a)
        /\ m_undone_actions' = Tail(m_undone_actions)
        /\ m_undone_actions # <<>>
    BY <1>2 DEF redoAction
  <2>2. /\ m_actions \in Seq(Actions) /\ n \in Nat
        /\ m_undone_actions \in Seq(Actions) /\ a \in Actions /\ a = m_undone_actions[1]
        /\ Len(m_undone_actions) \in Nat /\ Len(m_undone_actions) > 0
        /\ m_undone_actions' \in Seq(Actions)
    BY <2>1, LenProperties, HeadTailProperties, EmptySeq DEF TypeOK
  <2>3. /\ m_actions' \in Seq(Actions) /\ Len(m_actions') = n + 1
    BY <2>1, <2>2, AppendProperties
  <2>4. m_undone_actions = <<a>> \o Tail(m_undone_actions)
    BY <2>1, <2>2, HeadTailProperties
  <2>5. History' = History
    <3>1. m_actions' = m_actions \o <<a>> /\ <<a>> \in Seq(Actions)
      BY <2>1, <2>2, AppendIsConcat
    <3> HIDE DEF a
    <3> QED
      BY <2>1, <2>2, <2>4, <3>1, ConcatAssociative DEF History
  <2>6. n < Len(History) /\ History[n + 1] = a /\ Present = n /\ Present' = n + 1
    BY <2>2, <2>3, ConcatProperties DEF History, Present
  <2> HIDE DEF a, n
  <2> QED
    BY <1>2, <2>1, <2>2, <2>3, <2>5, <2>6 DEF Redid
<1> QED
  BY <1>1, <1>2

LEMMA StepShape ==
  ASSUME TypeOK, [ActionNext]_vars
  PROVE  \/ DidNothing
         \/ \E a \in Actions : DidOne(a)
         \/ \E a, b \in Actions : DidTwo(a, b)
         \/ Undid
         \/ Redid
<1>1. ASSUME NEW p \in Provinces, EditProvince(p)
      PROVE  DidNothing \/ \E a \in Actions : DidOne(a)
  BY <1>1, EditShape
<1>2. ASSUME NEW c \in Names, NEW shown \in {<<>>} \union {<<p>> : p \in Provinces},
             AddContinent(c, shown)
      PROVE  (\E a \in Actions : DidOne(a)) \/ \E a, b \in Actions : DidTwo(a, b)
  BY <1>2, AddShape
<1>3. ASSUME NEW c \in Names, DeleteContinent(c)
      PROVE  DidNothing \/ \E a \in Actions : DidOne(a)
  BY <1>3, DeleteShape
<1>4. CASE undoAction
  BY <1>4, UndoShape
<1>5. CASE redoAction
  BY <1>5, RedoShape
<1>6. CASE UNCHANGED vars
  BY <1>6 DEF vars, DidNothing
<1> QED
  BY <1>1, <1>2, <1>3, <1>4, <1>5, <1>6 DEF ActionNext

\* The menu offers names, as what it offers is the continents.
LEMMA MenuOffersNames ==
  ASSUME TypeOK, [ActionNext]_vars
  PROVE  m_continent_menu' \subseteq Names
BY DEF TypeOK, ActionNext, EditProvince, AddContinent, DeleteContinent, undoAction,
       redoAction, Continents, vars

-----------------------------------------------------------------------------
(* All of them keep the invariant.                                         *)

LEMMA DidOneKeepsFits ==
  ASSUME IInv, NEW a \in Actions, DidOne(a)
  PROVE  /\ m_actions' \in Seq(Actions) /\ Len(m_actions') = Len(m_actions) + 1
         /\ IsProject(project')
         /\ Fits(project', m_actions', Len(m_actions'))
<1>1. /\ TypeOK /\ IsProject(project) /\ m_actions \in Seq(Actions)
      /\ Fits(project, m_actions, Len(m_actions))
  BY HistoryIsFits, ForgetUndone DEF IInv, TypeOK, History, Present
<1>2. m_actions' \in Seq(Actions) /\ Len(m_actions') = Len(m_actions) + 1
  BY <1>1, AppendProperties DEF DidOne
<1>3. Fits(project', m_actions', Len(m_actions'))
  BY <1>1, <1>2, DoOne DEF DidOne
<1>4. IsProject(project')
  BY <1>1, SetOne, ActionParts DEF DidOne
<1> QED
  BY <1>2, <1>3, <1>4

LEMMA DidTwoKeepsFits ==
  ASSUME IInv, NEW a \in Actions, NEW b \in Actions, DidTwo(a, b)
  PROVE  /\ m_actions' \in Seq(Actions)
         /\ IsProject(project')
         /\ Fits(project', m_actions', Len(m_actions'))
<1> DEFINE A == Append(m_actions, a)
           p == [project EXCEPT ![a.key] = a.new]
<1>1. /\ TypeOK /\ IsProject(project) /\ m_actions \in Seq(Actions)
      /\ Fits(project, m_actions, Len(m_actions))
  BY HistoryIsFits, ForgetUndone DEF IInv, TypeOK, History, Present
<1>2. A \in Seq(Actions) /\ Len(A) = Len(m_actions) + 1
  BY <1>1, AppendProperties
<1>3. Fits(p, A, Len(A)) /\ IsProject(p)
  BY <1>1, <1>2, DoOne, SetOne, ActionParts DEF DidTwo
<1>4. b.old = p[b.key]
  BY <1>1, ActionParts DEF DidTwo, IsProject
<1>5. m_actions' = Append(A, b) /\ project' = [p EXCEPT ![b.key] = b.new]
  BY DEF DidTwo
<1> HIDE DEF A, p
<1>6. m_actions' \in Seq(Actions) /\ Len(m_actions') = Len(A) + 1
  BY <1>2, <1>5, AppendProperties
<1>7. Fits(project', m_actions', Len(m_actions'))
  BY <1>2, <1>3, <1>4, <1>5, <1>6, DoOne
<1>8. IsProject(project')
  BY <1>3, <1>5, SetOne, ActionParts
<1> QED
  BY <1>6, <1>7, <1>8

LEMMA NextKeepsInv == IInv /\ [ActionNext]_vars => IInv'
<1> SUFFICES ASSUME IInv, [ActionNext]_vars PROVE IInv'
  OBVIOUS
<1>1. /\ TypeOK /\ Fits(project, History, Present) /\ IsProject(project)
      /\ History \in Seq(Actions) /\ Present \in Nat
  BY HistoryIsFits DEF IInv
<1>2. m_continent_menu' \subseteq Names
  BY <1>1, MenuOffersNames
<1>3. CASE DidNothing
  BY <1>1, <1>2, <1>3, InvFromParts DEF DidNothing, TypeOK, History, Present
<1>4. ASSUME m_undone_actions' = <<>>, m_actions' \in Seq(Actions), IsProject(project'),
             Fits(project', m_actions', Len(m_actions'))
      PROVE  IInv'
  <2>1. m_undone_actions' \in Seq(Actions) /\ m_actions' \o m_undone_actions' = m_actions'
    BY <1>4, ConcatEmptySeq
  <2> QED
    BY <1>2, <1>4, <2>1, InvFromParts
<1>5. ASSUME NEW a \in Actions, DidOne(a) PROVE IInv'
  BY <1>4, <1>5, DidOneKeepsFits DEF DidOne
<1>6. ASSUME NEW a \in Actions, NEW b \in Actions, DidTwo(a, b) PROVE IInv'
  BY <1>4, <1>6, DidTwoKeepsFits DEF DidTwo
<1>7. ASSUME NEW k \in Keys, NEW v \in ValuesOf(k), project' = [project EXCEPT ![k] = v],
             Fits(project', History, Present'), History' = History,
             m_actions' \in Seq(Actions), m_undone_actions' \in Seq(Actions)
      PROVE  IInv'
  <2>1. IsProject(project')
    BY <1>1, <1>7, SetOne
  <2> QED
    BY <1>2, <1>7, <2>1, InvFromParts DEF History, Present
<1>8. CASE Undid
  <2>1. Present <= Len(History)
    BY <1>1, LenProperties, HistoryIsFits DEF TypeOK
  <2>2. Fits(project', History, Present')
    BY <1>1, <1>8, <2>1, UndoOne DEF Undid
  <2>3. History[Present] \in Actions
    BY <1>1, <1>8, <2>1, ElementOfSeq DEF Undid
  <2> QED
    BY <1>7, <1>8, <2>2, <2>3, ActionParts DEF Undid
<1>9. CASE Redid
  <2>1. Fits(project', History, Present')
    BY <1>1, <1>9, RedoOne DEF Redid
  <2>2. History[Present + 1] \in Actions
    BY <1>1, <1>9, LenProperties, ElementOfSeq DEF Redid
  <2> QED
    BY <1>7, <1>9, <2>1, <2>2, ActionParts DEF Redid
<1> QED
  BY <1>1, <1>3, <1>5, <1>6, <1>8, <1>9, StepShape

\* The project, the menu and the two stacks keep their types, whatever is edited,
\* undone and redone (ActionManager.h:50-54).
THEOREM HistoryTypeCorrect == ActionSpec => []TypeOK
<1>1. IInv => TypeOK
  BY DEF IInv
<1> QED
  BY <1>1, InitInv, NextKeepsInv, PTL DEF ActionSpec

\* As long as every edit is an action, all that was done can be undone and all
\* that was undone can be redone (ActionManager.h:14-16), for every number of
\* actions.
THEOREM HistoryAlwaysFits == ActionSpec => []HistoryFits
<1>1. IInv => HistoryFits
  BY DEF IInv
<1> QED
  BY <1>1, InitInv, NextKeepsInv, PTL DEF ActionSpec

-----------------------------------------------------------------------------
(* The least and the greatest of a set of numbers.                         *)

LEMMA LeastExists ==
  ASSUME NEW S, S \subseteq Nat, S # {}
  PROVE  \E m \in S : \A l \in S : m <= l
<1>1. PICK m \in S : \A l \in S : ~(<<l, m>> \in OpToRel(<, Nat))
  BY NatLessThanWellFounded, WFMin
<1>2. \A l \in S : ~(l < m)
  BY <1>1 DEF OpToRel
<1> QED
  BY <1>2

LEMMA GreatestExists ==
  ASSUME NEW N \in Nat, NEW S, S \subseteq 0 .. N, S # {}
  PROVE  \E m \in S : \A l \in S : l <= m
<1> DEFINE T == {N - l : l \in S}
<1>1. T \subseteq Nat /\ T # {}
  <2>1. \A l \in S : N - l \in Nat
    OBVIOUS
  <2> QED
    BY <2>1
<1>2. PICK t \in T : \A u \in T : t <= u
  BY <1>1, LeastExists
<1>3. PICK m \in S : t = N - m
  OBVIOUS
<1>4. \A l \in S : N - m <= N - l
  BY <1>2, <1>3
<1> QED
  BY <1>4

LEMMA MinIsLeast ==
  ASSUME NEW S, S \subseteq Nat, S # {}
  PROVE  Min(S) \in S /\ \A l \in S : Min(S) <= l
BY LeastExists DEF Min

LEMMA MaxIsGreatest ==
  ASSUME NEW N \in Nat, NEW S, S \subseteq 0 .. N, S # {}
  PROVE  Max(S) \in S /\ \A l \in S : l <= Max(S)
<1>1. \E m \in S : \A l \in S : m >= l
  BY GreatestExists
<1> QED
  BY <1>1 DEF Max

-----------------------------------------------------------------------------
(* The values of the versions.                                             *)

\* v is the value of key k when i actions of H are done, if n of them are done now
\* and the values are p.
IsAt(p, H, n, i, k, v) ==
  /\ \A j \in i + 1 .. n :
       H[j].key = k /\ (\A l \in i + 1 .. j - 1 : H[l].key # k) => v = H[j].old
  /\ \A j \in n + 1 .. i :
       H[j].key = k /\ (\A l \in j + 1 .. i : H[l].key # k) => v = H[j].new
  /\ (\A j \in i + 1 .. n : H[j].key # k) /\ (\A j \in n + 1 .. i : H[j].key # k)
       => v = p[k]

\* There is one such value, and ValueAt returns it.
LEMMA ValueIsAt ==
  ASSUME Present \in Nat, NEW i \in Nat, NEW k
  PROVE  IsAt(project, History, Present, i, k, ValueAt(i, k))
<1> DEFINE U == {j \in i + 1 .. Present : History[j].key = k}
           R == {j \in Present + 1 .. i : History[j].key = k}
<1>1. ValueAt(i, k) = CASE U # {} -> History[Min(U)].old
                        [] R # {} -> History[Max(R)].new
                        [] OTHER  -> project[k]
  BY DEF ValueAt
<1>2. CASE U # {}
  <2>1. U \subseteq Nat /\ R = {}
    BY <1>2
  <2>2. Min(U) \in U /\ \A l \in U : Min(U) <= l
    BY <1>2, <2>1, MinIsLeast
  <2>3. ValueAt(i, k) = History[Min(U)].old
    BY <1>1, <1>2, <2>1
  <2>4. ASSUME NEW j \in i + 1 .. Present, History[j].key = k,
               \A l \in i + 1 .. j - 1 : History[l].key # k
        PROVE  j = Min(U)
    <3>1. j \in U /\ Min(U) <= j /\ Min(U) \in i + 1 .. Present
      BY <2>2, <2>4
    <3>2. ~(Min(U) \in i + 1 .. j - 1)
      BY <2>2, <2>4
    <3> QED
      BY <3>1, <3>2
  <2> QED
    BY <1>2, <2>1, <2>3, <2>4 DEF IsAt
<1>3. CASE U = {} /\ R # {}
  <2>1. R \subseteq 0 .. i
    OBVIOUS
  <2>2. Max(R) \in R /\ \A l \in R : l <= Max(R)
    BY <1>3, <2>1, MaxIsGreatest
  <2>3. ValueAt(i, k) = History[Max(R)].new
    BY <1>1, <1>3
  <2>4. ASSUME NEW j \in Present + 1 .. i, History[j].key = k,
               \A l \in j + 1 .. i : History[l].key # k
        PROVE  j = Max(R)
    <3>1. j \in R /\ j <= Max(R) /\ Max(R) \in Present + 1 .. i
      BY <2>2, <2>4
    <3>2. ~(Max(R) \in j + 1 .. i)
      BY <2>2, <2>4
    <3> QED
      BY <3>1, <3>2
  <2> QED
    BY <1>3, <2>3, <2>4 DEF IsAt
<1>4. CASE U = {} /\ R = {}
  BY <1>1, <1>4 DEF IsAt
<1> QED
  BY <1>2, <1>3, <1>4

LEMMA AtIsUnique ==
  ASSUME NEW p, NEW H, NEW n \in Nat, NEW i \in Nat, NEW k, NEW v, NEW w,
         IsAt(p, H, n, i, k, v), IsAt(p, H, n, i, k, w)
  PROVE  v = w
<1> DEFINE U == {j \in i + 1 .. n : H[j].key = k}
           R == {j \in n + 1 .. i : H[j].key = k}
<1>1. CASE U # {}
  <2>1. U \subseteq Nat
    OBVIOUS
  <2>2. PICK j \in U : \A l \in U : j <= l
    BY <1>1, <2>1, LeastExists
  <2>3. \A l \in i + 1 .. j - 1 : H[l].key # k
    BY <2>2
  <2> QED
    BY <2>2, <2>3 DEF IsAt
<1>2. CASE R # {}
  <2>1. R \subseteq 0 .. i
    OBVIOUS
  <2>2. PICK j \in R : \A l \in R : l <= j
    BY <1>2, <2>1, GreatestExists
  <2>3. \A l \in j + 1 .. i : H[l].key # k
    BY <2>2
  <2> QED
    BY <2>2, <2>3 DEF IsAt
<1>3. CASE U = {} /\ R = {}
  BY <1>3 DEF IsAt
<1> QED
  BY <1>1, <1>2, <1>3

\* Undoing an action leaves the versions as they are.
LEMMA UndoKeepsValues ==
  ASSUME NEW H \in Seq(Actions), NEW n \in Nat, n > 0, n <= Len(H),
         NEW p, IsProject(p), Fits(p, H, n),
         NEW i \in Nat, NEW k \in Keys, NEW v, IsAt(p, H, n, i, k, v)
  PROVE  IsAt([p EXCEPT ![H[n].key] = H[n].old], H, n - 1, i, k, v)
<1> DEFINE a == H[n]
           q == [p EXCEPT ![a.key] = a.old]
<1>1. n \in 1 .. Len(H) /\ a.key \in Keys /\ a.new = p[a.key]
  <2>1. n \in 1 .. Len(H) /\ a.key \in Keys
    BY LenProperties, ElementOfSeq, ActionParts
  <2> QED
    BY <2>1 DEF Fits
<1>2. q[k] = IF k = a.key THEN a.old ELSE p[k]
  BY <1>1 DEF IsProject
<1>3. ASSUME NEW j \in i + 1 .. n - 1, H[j].key = k,
             \A l \in i + 1 .. j - 1 : H[l].key # k
      PROVE  v = H[j].old
  BY <1>3 DEF IsAt
<1>4. ASSUME NEW j \in n .. i, H[j].key = k, \A l \in j + 1 .. i : H[l].key # k
      PROVE  v = H[j].new
  <2>1. CASE j = n
    <3>1. v = p[k]
      BY <1>4, <2>1 DEF IsAt
    <3> QED
      BY <1>1, <1>4, <2>1, <3>1
  <2>2. CASE j \in n + 1 .. i
    BY <1>4, <2>2 DEF IsAt
  <2> QED
    BY <2>1, <2>2
<1>5. ASSUME \A j \in i + 1 .. n - 1 : H[j].key # k, \A j \in n .. i : H[j].key # k
      PROVE  v = q[k]
  <2>1. CASE a.key = k
    <3>1. n \in i + 1 .. n
      BY <1>5, <2>1
    <3> QED
      BY <1>2, <1>5, <2>1, <3>1 DEF IsAt
  <2>2. CASE a.key # k
    <3>1. (\A j \in i + 1 .. n : H[j].key # k) /\ (\A j \in n + 1 .. i : H[j].key # k)
      BY <1>5, <2>2
    <3> QED
      BY <1>2, <2>2, <3>1 DEF IsAt
  <2> QED
    BY <2>1, <2>2
<1> HIDE DEF a, q
<1>6. (n - 1) + 1 = n
  OBVIOUS
<1>7. IsAt(q, H, n - 1, i, k, v)
  BY <1>3, <1>4, <1>5, <1>6 DEF IsAt
<1> QED
  BY <1>7 DEF a, q

\* Doing the next action does, too.
LEMMA RedoKeepsValues ==
  ASSUME NEW H \in Seq(Actions), NEW n \in Nat, n < Len(H),
         NEW p, IsProject(p), H[n + 1].old = p[H[n + 1].key],
         NEW i \in Nat, NEW k \in Keys, NEW v, IsAt(p, H, n, i, k, v)
  PROVE  IsAt([p EXCEPT ![H[n + 1].key] = H[n + 1].new], H, n + 1, i, k, v)
<1> DEFINE a == H[n + 1]
           q == [p EXCEPT ![a.key] = a.new]
<1>1. n + 1 \in 1 .. Len(H) /\ a.key \in Keys
  BY LenProperties, ElementOfSeq, ActionParts
<1>2. q[k] = IF k = a.key THEN a.new ELSE p[k]
  BY <1>1 DEF IsProject
<1>3. ASSUME NEW j \in i + 1 .. n + 1, H[j].key = k,
             \A l \in i + 1 .. j - 1 : H[l].key # k
      PROVE  v = H[j].old
  <2>1. CASE j = n + 1
    <3>1. v = p[k]
      BY <1>3, <2>1 DEF IsAt
    <3> QED
      BY <1>3, <2>1, <3>1
  <2>2. CASE j \in i + 1 .. n
    BY <1>3, <2>2 DEF IsAt
  <2> QED
    BY <2>1, <2>2
<1>4. ASSUME NEW j \in n + 1 + 1 .. i, H[j].key = k, \A l \in j + 1 .. i : H[l].key # k
      PROVE  v = H[j].new
  BY <1>4 DEF IsAt
<1>5. ASSUME \A j \in i + 1 .. n + 1 : H[j].key # k,
             \A j \in n + 1 + 1 .. i : H[j].key # k
      PROVE  v = q[k]
  <2>1. CASE a.key = k
    <3>1. n + 1 \in n + 1 .. i /\ \A l \in n + 1 + 1 .. i : H[l].key # k
      BY <1>5, <2>1
    <3> QED
      BY <1>2, <2>1, <3>1 DEF IsAt
  <2>2. CASE a.key # k
    <3>1. (\A j \in i + 1 .. n : H[j].key # k) /\ (\A j \in n + 1 .. i : H[j].key # k)
      BY <1>5, <2>2
    <3> QED
      BY <1>2, <2>2, <3>1 DEF IsAt
  <2> QED
    BY <2>1, <2>2
<1> HIDE DEF a, q
<1>6. IsAt(q, H, n + 1, i, k, v)
  BY <1>3, <1>4, <1>5 DEF IsAt
<1> QED
  BY <1>6 DEF a, q

\* A new action leaves the versions up to now as they are.
LEMMA DoKeepsValues ==
  ASSUME NEW A \in Seq(Actions), NEW U \in Seq(Actions), NEW a \in Actions,
         NEW p, IsProject(p), a.old = p[a.key],
         NEW i \in 0 .. Len(A), NEW k \in Keys, NEW v, IsAt(p, A \o U, Len(A), i, k, v)
  PROVE  IsAt([p EXCEPT ![a.key] = a.new], Append(A, a), Len(A) + 1, i, k, v)
<1> DEFINE G == A \o U
           H == Append(A, a)
           n == Len(A)
<1>1. /\ H \in Seq(Actions) /\ n \in Nat /\ Len(H) = n + 1 /\ H[n + 1] = a
      /\ \A j \in 1 .. n : H[j] = A[j]
  BY AppendProperties, LenProperties
<1>2. \A j \in 1 .. n : G[j] = A[j]
  BY ConcatProperties
<1>3. IsAt(p, G, n, i, k, v)
  OBVIOUS
<1> HIDE DEF G, H, n
<1>4. i \in 0 .. n
  BY DEF n
<1>5. IsAt(p, H, n, i, k, v)
  <2>1. n + 1 .. i = {} /\ \A j \in i + 1 .. n : G[j] = H[j] /\ j \in 1 .. n
    BY <1>1, <1>2, <1>4
  <2>2. \A j \in i + 1 .. n : \A l \in i + 1 .. j - 1 : l \in i + 1 .. n
    BY <1>1, <1>4
  <2> QED
    BY <1>3, <2>1, <2>2 DEF IsAt
<1>6. IsAt([p EXCEPT ![H[n + 1].key] = H[n + 1].new], H, n + 1, i, k, v)
  <2>1. n < Len(H) /\ i \in Nat /\ H[n + 1].old = p[H[n + 1].key]
    BY <1>1, <1>4
  <2> QED
    BY <1>1, <1>5, <2>1, RedoKeepsValues
<1> QED
  BY <1>1, <1>6 DEF G, H, n

-----------------------------------------------------------------------------
(* The steps of the specification.                                         *)

versions == [n \in 1 .. Len(History) + 1 |-> [k \in Keys |-> ValueAt(n - 1, k)]]
now      == Present + 1

VersionsFit ==
  /\ Present \in Nat /\ Len(History) \in Nat /\ Present <= Len(History)
  /\ IsProject(project) /\ Fits(project, History, Present)
  /\ History \in Seq(Actions)
  /\ DOMAIN versions = 1 .. Len(versions) /\ Len(versions) = Len(History) + 1
  /\ \A i \in Nat, k \in Keys : IsAt(project, History, Present, i, k, ValueAt(i, k))

LEMMA InvVersionsFit == IInv => VersionsFit
<1> SUFFICES ASSUME IInv PROVE VersionsFit
  OBVIOUS
<1>1. /\ Present \in Nat /\ Len(History) \in Nat /\ Present <= Len(History)
      /\ IsProject(project) /\ Fits(project, History, Present)
      /\ History \in Seq(Actions)
  BY HistoryIsFits, LenProperties DEF IInv, TypeOK
<1>2. versions \in Seq({versions[n] : n \in 1 .. Len(History) + 1})
  BY <1>1 DEF versions
<1>3. DOMAIN versions = 1 .. Len(versions) /\ Len(versions) = Len(History) + 1
  BY <1>1, <1>2, LenProperties DEF versions
<1>4. \A i \in Nat, k \in Keys : IsAt(project, History, Present, i, k, ValueAt(i, k))
  BY <1>1, ValueIsAt
<1> QED
  BY <1>1, <1>3, <1>4 DEF VersionsFit

LEMMA NextVersionsFit == IInv' => VersionsFit'
BY InvVersionsFit, PTL

\* A version is kept by a step that keeps its values.
LEMMA SameVersion ==
  ASSUME IInv, IInv', NEW n \in 1 .. Len(versions), n <= Len(versions'),
         \A k \in Keys : IsAt(project', History', Present', n - 1, k, ValueAt(n - 1, k))
  PROVE  versions'[n] = versions[n]
<1>1. VersionsFit /\ VersionsFit'
  BY InvVersionsFit, NextVersionsFit
<1>2. n - 1 \in Nat /\ n \in 1 .. Len(History) + 1 /\ n \in 1 .. Len(History') + 1
  BY <1>1 DEF VersionsFit
<1>3. ASSUME NEW k \in Keys
      PROVE  ValueAt(n - 1, k)' = ValueAt(n - 1, k)
  <2>1. IsAt(project', History', Present', n - 1, k, ValueAt(n - 1, k)')
    BY <1>1, <1>2 DEF VersionsFit
  <2>2. Present' \in Nat
    BY <1>1 DEF VersionsFit
  <2> QED
    BY <1>2, <2>1, <2>2, AtIsUnique
<1> QED
  BY <1>2, <1>3 DEF versions

LEMMA SameVersions ==
  ASSUME IInv, IInv', History' = History,
         \A n \in 1 .. Len(versions) : versions'[n] = versions[n]
  PROVE  versions' = versions
BY InvVersionsFit DEF VersionsFit, versions

LEMMA DidNothingIsStutter ==
  ASSUME DidNothing
  PROVE  UNCHANGED <<versions, now>>
BY DEF DidNothing, versions, now, ValueAt, History, Present

\* Going back: what was the value of every key is what it was.
LEMMA UndidIsUndo ==
  ASSUME IInv, IInv', Undid
  PROVE  Versions!Undo
<1>1. VersionsFit /\ VersionsFit'
  BY InvVersionsFit, NextVersionsFit
<1>2. ASSUME NEW n \in 1 .. Len(versions), NEW k \in Keys
      PROVE  IsAt(project', History', Present', n - 1, k, ValueAt(n - 1, k))
  <2>1. n - 1 \in Nat
    BY <1>1, <1>2 DEF VersionsFit
  <2> QED
    BY <1>1, <2>1, UndoKeepsValues DEF VersionsFit, Undid
<1>3. versions' = versions
  <2>1. Len(History') = Len(History) /\ History' = History
    BY DEF Undid
  <2>2. Len(versions') = Len(versions)
    BY <1>1, <2>1 DEF VersionsFit
  <2>3. ASSUME NEW n \in 1 .. Len(versions) PROVE versions'[n] = versions[n]
    <3>1. n <= Len(versions')
      BY <1>1, <2>2 DEF VersionsFit
    <3> QED
      BY <1>2, <3>1, SameVersion
  <2> QED
    BY <2>1, <2>3, SameVersions
<1>4. now > 1 /\ now' = now - 1
  BY <1>1 DEF VersionsFit, Undid, now
<1> QED
  BY <1>3, <1>4 DEF Versions!Undo, versions, now

\* Going forward.
LEMMA RedidIsRedo ==
  ASSUME IInv, IInv', Redid
  PROVE  Versions!Redo
<1>1. VersionsFit /\ VersionsFit'
  BY InvVersionsFit, NextVersionsFit
<1>2. ASSUME NEW n \in 1 .. Len(versions), NEW k \in Keys
      PROVE  IsAt(project', History', Present', n - 1, k, ValueAt(n - 1, k))
  <2>1. n - 1 \in Nat
    BY <1>1, <1>2 DEF VersionsFit
  <2> QED
    BY <1>1, <2>1, RedoKeepsValues DEF VersionsFit, Redid
<1>3. versions' = versions
  <2>1. Len(History') = Len(History) /\ History' = History
    BY DEF Redid
  <2>2. Len(versions') = Len(versions)
    BY <1>1, <2>1 DEF VersionsFit
  <2>3. ASSUME NEW n \in 1 .. Len(versions) PROVE versions'[n] = versions[n]
    <3>1. n <= Len(versions')
      BY <1>1, <2>2 DEF VersionsFit
    <3> QED
      BY <1>2, <3>1, SameVersion
  <2> QED
    BY <2>1, <2>3, SameVersions
<1>4. now < Len(versions) /\ now' = now + 1
  BY <1>1 DEF VersionsFit, Redid, now
<1> QED
  BY <1>3, <1>4 DEF Versions!Redo, versions, now

KeepsValues ==
  \A i \in 0 .. Present, k \in Keys :
    IsAt(project', m_actions', Present', i, k, ValueAt(i, k))

\* An edit keeps the versions up to now, and adds one for each of its actions.
LEMMA NewActionsAreEdit ==
  ASSUME IInv, IInv', m_undone_actions' = <<>>,
         Present' = Present + 1 \/ Present' = Present + 2, KeepsValues
  PROVE  Versions!Edit
<1>1. VersionsFit /\ VersionsFit'
  BY InvVersionsFit, NextVersionsFit
<1>2. History' = m_actions'
  BY ConcatEmptySeq DEF IInv, TypeOK, History
<1>3. Len(History') = Present'
  BY <1>2 DEF Present
<1>4. /\ Present \in Nat /\ Len(History) \in Nat /\ Present <= Len(History)
      /\ Present' = Present + 1 \/ Present' = Present + 2
      /\ Len(versions) = Len(History) + 1 /\ Len(versions') = Present' + 1
      /\ now = Present + 1 /\ now' = Present' + 1
  BY <1>1, <1>3 DEF VersionsFit, now
<1>5. now' \in {now + 1, now + 2}
  BY <1>4
<1>6. Len(versions') = now'
  BY <1>4
<1>7. ASSUME NEW n \in 1 .. now PROVE versions'[n] = versions[n]
  <2>1. n \in 1 .. Len(versions) /\ n <= Len(versions') /\ n - 1 \in 0 .. Present
    BY <1>4
  <2>2. \A k \in Keys : IsAt(project', History', Present', n - 1, k, ValueAt(n - 1, k))
    BY <1>2, <2>1 DEF KeepsValues
  <2> QED
    BY <2>1, <2>2, SameVersion
<1> QED
  BY <1>5, <1>6, <1>7 DEF Versions!Edit, versions, now

LEMMA DidOneIsEdit ==
  ASSUME IInv, IInv', NEW a \in Actions, DidOne(a)
  PROVE  Versions!Edit
<1>1. VersionsFit /\ m_actions \in Seq(Actions) /\ m_undone_actions \in Seq(Actions)
  BY InvVersionsFit DEF IInv, TypeOK
<1>2. Present' = Present + 1
  BY <1>1, AppendProperties DEF DidOne, Present
<1>3. ASSUME NEW i \in 0 .. Present, NEW k \in Keys
      PROVE  IsAt(project', m_actions', Present', i, k, ValueAt(i, k))
  <2>1. IsAt(project, m_actions \o m_undone_actions, Len(m_actions), i, k, ValueAt(i, k))
    BY <1>1, <1>3 DEF VersionsFit, History, Present
  <2>2. i \in 0 .. Len(m_actions) /\ Present' = Len(m_actions) + 1 /\ IsProject(project)
    BY <1>1, <1>2 DEF VersionsFit, Present
  <2>3. /\ a.old = project[a.key] /\ project' = [project EXCEPT ![a.key] = a.new]
        /\ m_actions' = Append(m_actions, a)
    BY DEF DidOne
  <2> QED
    BY <1>1, <2>1, <2>2, <2>3, DoKeepsValues
<1> QED
  BY <1>2, <1>3, NewActionsAreEdit DEF DidOne, KeepsValues

LEMMA DidTwoIsEdit ==
  ASSUME IInv, IInv', NEW a \in Actions, NEW b \in Actions, DidTwo(a, b)
  PROVE  Versions!Edit
<1> DEFINE A == Append(m_actions, a)
           p == [project EXCEPT ![a.key] = a.new]
<1>1. VersionsFit /\ m_actions \in Seq(Actions) /\ m_undone_actions \in Seq(Actions)
  BY InvVersionsFit DEF IInv, TypeOK
<1>2. A \in Seq(Actions) /\ Len(A) = Present + 1
  BY <1>1, AppendProperties DEF Present
<1>3. m_actions' = Append(A, b) /\ project' = [p EXCEPT ![b.key] = b.new]
  BY DEF DidTwo
<1>4. IsProject(p) /\ b.old = p[b.key]
  BY <1>1, SetOne, ActionParts DEF VersionsFit, DidTwo, IsProject
<1>5. ASSUME NEW i \in 0 .. Present, NEW k \in Keys
      PROVE  IsAt(p, A, Len(A), i, k, ValueAt(i, k))
  <2>1. IsAt(project, m_actions \o m_undone_actions, Len(m_actions), i, k, ValueAt(i, k))
    BY <1>1, <1>5 DEF VersionsFit, History, Present
  <2> QED
    BY <1>1, <1>2, <2>1, DoKeepsValues DEF VersionsFit, DidTwo, Present
<1> HIDE DEF A, p
<1>6. Present' = Present + 2
  BY <1>1, <1>2, <1>3, AppendProperties DEF VersionsFit, Present
<1>7. ASSUME NEW i \in 0 .. Present, NEW k \in Keys
      PROVE  IsAt(project', m_actions', Present', i, k, ValueAt(i, k))
  <2>1. i \in 0 .. Len(A) /\ Present' = Len(A) + 1
    BY <1>1, <1>2, <1>6 DEF VersionsFit
  <2>2. A \o <<>> = A /\ <<>> \in Seq(Actions)
    BY <1>2, ConcatEmptySeq
  <2> QED
    BY <1>2, <1>3, <1>4, <1>5, <2>1, <2>2, DoKeepsValues
<1> QED
  BY <1>6, <1>7, NewActionsAreEdit DEF DidTwo, KeepsValues

LEMMA InitIsInit == Init => Versions!Init
<1> SUFFICES ASSUME Init PROVE Versions!Init
  OBVIOUS
<1>1. VersionsFit
  BY InitInv, InvVersionsFit
<1>2. Present = 0 /\ Len(History) = 0
  BY ConcatEmptySeq, EmptySeq DEF Init, Present, History
<1> QED
  BY <1>1, <1>2 DEF VersionsFit, Versions!Init, versions

LEMMA NextIsNext ==
  IInv /\ IInv' /\ [ActionNext]_vars => [Versions!Next]_<<versions, now>>
<1> SUFFICES ASSUME IInv, IInv', [ActionNext]_vars
             PROVE  [Versions!Next]_<<versions, now>>
  OBVIOUS
<1> QED
  BY StepShape, DidNothingIsStutter, DidOneIsEdit, DidTwoIsEdit, UndidIsUndo, RedidIsRedo
     DEF IInv, Versions!Next

\* As long as every edit is an action, undo and redo are a line of versions on
\* which the user goes back and forth and which only an edit can change, ahead of
\* the present version (ActionManager.h:14-16).
THEOREM ImplementsTimeline == ActionSpec => TimelineSpec
<1>1. [Versions!Next]_<<versions, now>> => [Versions!Next]_Versions!timelineVars
  BY DEF Versions!timelineVars, versions, now
<1> QED
  BY <1>1, InitInv, NextKeepsInv, InitIsInit, NextIsNext, PTL
     DEF ActionSpec, TimelineSpec, Versions!Spec
=============================================================================
