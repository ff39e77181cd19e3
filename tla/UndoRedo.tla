------------------------------ MODULE UndoRedo ------------------------------
(***************************************************************************)
(* Actions that can be undone and redone (ActionManager, SetPropertyAction,*)
(* CreateRemoveContinentAction).  What the user edits in the properties    *)
(* pane is an action with the value it finds and the value it leaves; it   *)
(* is done, undone or redone only if it finds what it expects.  Actions    *)
(* that were done and actions that were undone are kept on two stacks.     *)
(* Some edits change the same values and are no actions.                   *)
(***************************************************************************)
EXTENDS Naturals, Sequences, SequencesExt

CONSTANTS
  Provinces,
  Adjacent,      \* the pairs of provinces with a common border
  Names,         \* the names continents may be given
  MaxHistory     \* bound: the actions that are kept

ASSUME UndoAssumption ==
  /\ Adjacent \subseteq Provinces \X Provinces
  /\ MaxHistory \in Nat

Nothing == ""      \* the continent of a province that has none
None    == "None"  \* the entry of the menu for it, which is stored as it is

\* The values that actions change: the properties of the provinces, and for every
\* name whether there is a continent of that name.
Keys == (Provinces \X {"coastal", "type", "continent"}) \union (Names \X {"exists"})

ValuesOf(key) ==
  CASE key[2] = "coastal"   -> BOOLEAN
    [] key[2] = "type"      -> {"LAND", "SEA"}
    [] key[2] = "continent" -> Names \union {Nothing, None}
    [] key[2] = "exists"    -> BOOLEAN

VARIABLES
  project,            \* the value of every key
  m_actions,          \* the actions done, the newest last
  m_undone_actions,   \* the actions undone, the newest first
  m_continent_menu    \* the continents the menu of the pane offers

vars == <<project, m_actions, m_undone_actions, m_continent_menu>>

Actions == UNION {[key : {k}, old : ValuesOf(k), new : ValuesOf(k)] : k \in Keys}

TypeOK ==
  /\ project = [k \in Keys |-> project[k]] /\ \A k \in Keys : project[k] \in ValuesOf(k)
  /\ m_actions \in Seq(Actions)
  /\ m_undone_actions \in Seq(Actions)
  /\ m_continent_menu \subseteq Names

Continents == {c \in Names : project[<<c, "exists">>]}

-----------------------------------------------------------------------------
(* The action manager.                                                     *)

SetProperty(key, new) == [key |-> key, old |-> project[key], new |-> new]
CreateContinent(c)    == [key |-> <<c, "exists">>, old |-> FALSE, new |-> TRUE]
RemoveContinent(c)    == [key |-> <<c, "exists">>, old |-> TRUE, new |-> FALSE]

\* Mutant of Done: actions that were undone before stay on their stack.
DoneKeepsUndone(actions) ==
  /\ m_actions' = m_actions \o actions
  /\ UNCHANGED m_undone_actions

\* Actions that succeeded are remembered, and nothing is left to be redone.
Done(actions) ==
  /\ m_actions' = m_actions \o actions
  /\ m_undone_actions' = <<>>

doAction(action) ==
  /\ Len(m_actions) < MaxHistory
  /\ IF project[action.key] = action.old
     THEN /\ project' = [project EXCEPT ![action.key] = action.new]
          /\ Done(<<action>>)
     ELSE UNCHANGED <<project, m_actions, m_undone_actions>>

\* Mutant of undoAction: the action is not kept for redoAction.
undoForgets ==
  /\ m_actions # <<>>
  /\ project' = [project EXCEPT ![Last(m_actions).key] = Last(m_actions).old]
  /\ m_actions' = Front(m_actions)
  /\ UNCHANGED <<m_undone_actions, m_continent_menu>>

\* An action that cannot be undone stays where it is.
undoAction ==
  /\ m_actions # <<>>
  /\ LET action == Last(m_actions)
     IN IF project[action.key] = action.new
        THEN /\ project' = [project EXCEPT ![action.key] = action.old]
             /\ m_actions' = Front(m_actions)
             /\ m_undone_actions' = <<action>> \o m_undone_actions
        ELSE UNCHANGED <<project, m_actions, m_undone_actions>>
  /\ UNCHANGED m_continent_menu

redoAction ==
  /\ m_undone_actions # <<>>
  /\ LET action == Head(m_undone_actions)
     IN IF project[action.key] = action.old
        THEN /\ project' = [project EXCEPT ![action.key] = action.new]
             /\ m_actions' = Append(m_actions, action)
             /\ m_undone_actions' = Tail(m_undone_actions)
        ELSE UNCHANGED <<project, m_actions, m_undone_actions>>
  /\ UNCHANGED m_continent_menu

-----------------------------------------------------------------------------
(* What the user does in the pane.                                         *)

\* The check button and the menus of the province that is shown; its continent is
\* what the menu offers.
EditProvince(p) ==
  /\ \/ \E new \in BOOLEAN : doAction(SetProperty(<<p, "coastal">>, new))
     \/ \E new \in {"LAND", "SEA"} : doAction(SetProperty(<<p, "type">>, new))
     \/ \E new \in m_continent_menu \union {None} :
          doAction(SetProperty(<<p, "continent">>, new))
  /\ UNCHANGED m_continent_menu

\* The menu is rebuilt.  As its entries are removed it reports that its text, now
\* empty, has changed, and the province shown gets that as its continent.
ClearMenu(shown) ==
  [i \in DOMAIN shown |-> SetProperty(<<shown[i], "continent">>, Nothing)]

\* "+", with a name that is not a continent's yet, while the pane shows one
\* province or none.
AddContinent(c, shown) ==
  /\ c \notin Continents
  /\ Len(m_actions) < MaxHistory
  /\ project' = [k \in Keys |-> IF k = <<c, "exists">> THEN TRUE
                                ELSE IF \E i \in DOMAIN shown : k = <<shown[i], "continent">>
                                     THEN Nothing
                                ELSE project[k]]
  /\ Done(<<CreateContinent(c)>> \o ClearMenu(shown))
  /\ m_continent_menu' = Continents'

\* "-": the dialog, too, can be confirmed only with a name that is NOT a
\* continent's.
DeleteContinent(c) ==
  /\ c \notin Continents
  /\ doAction(RemoveContinent(c))
  /\ UNCHANGED m_continent_menu

\* A province on land is on the coast if there is sea next to it.
Coasts(values) ==
  [k \in Keys |->
     IF k[2] = "coastal" /\ values[<<k[1], "type">>] = "LAND"
     THEN \E q \in Provinces : <<k[1], q>> \in Adjacent /\ values[<<q, "type">>] = "SEA"
     ELSE values[k]]

\* "Recalculate Coastal Provinces", which is not an action.
calculateCoastalProvinces ==
  /\ project' = Coasts(project)
  /\ UNCHANGED <<m_actions, m_undone_actions, m_continent_menu>>

-----------------------------------------------------------------------------
\* A map that was just imported: land and sea, nothing else known of it.
ImportedMap(types) ==
  [k \in Keys |-> CASE k[2] = "type"      -> types[k[1]]
                    [] k[2] = "continent" -> None
                    [] OTHER              -> FALSE]

Init ==
  /\ \E types \in [Provinces -> {"LAND", "SEA"}] : project = Coasts(ImportedMap(types))
  /\ m_actions = <<>>
  /\ m_undone_actions = <<>>
  /\ m_continent_menu = {}

ActionNext ==
  \/ \E p \in Provinces : EditProvince(p)
  \/ \E c \in Names, shown \in {<<>>} \union {<<p>> : p \in Provinces} : AddContinent(c, shown)
  \/ \E c \in Names : DeleteContinent(c)
  \/ undoAction
  \/ redoAction

Next == ActionNext \/ calculateCoastalProvinces

Spec == Init /\ [][Next]_vars

\* Every edit is an action.
ActionSpec == Init /\ [][ActionNext]_vars

-----------------------------------------------------------------------------
(* Properties.                                                             *)

\* All actions in the order in which they were first done, and how many of them
\* are done now.
History == m_actions \o m_undone_actions
Present == Len(m_actions)

\* The manager "is able to roll that stack backwards or forwards as necessary"
\* (ActionManager.h:14-16): however far that is, every action finds the value it
\* expects, because one action on a key finds what the one before it left, and the
\* key has the value between the last one done and the first one undone.  Edits
\* that are no actions break this.
SameKey(i, j) == History[i].key = History[j].key

HistoryFits ==
  \A i \in DOMAIN History :
    /\ \A j \in DOMAIN History :
         i < j /\ SameKey(i, j) /\ (\A l \in i + 1 .. j - 1 : ~SameKey(i, l))
           => History[i].new = History[j].old
    /\ i <= Present /\ (\A l \in i + 1 .. Present : ~SameKey(i, l))
           => History[i].new = project[History[i].key]
    /\ i > Present /\ (\A l \in Present + 1 .. i - 1 : ~SameKey(i, l))
           => History[i].old = project[History[i].key]

\* The value a key has, or had, or will have again, when i actions are done.
ValueAt(i, key) ==
  LET undone == {j \in i + 1 .. Present : History[j].key = key}
      redone == {j \in Present + 1 .. i : History[j].key = key}
  IN CASE undone # {} -> History[Min(undone)].old
       [] redone # {} -> History[Max(redone)].new
       [] OTHER       -> project[key]

\* The stacks implement a timeline of the versions of the project.
Versions == INSTANCE Timeline
  WITH versions <- [n \in 1 .. Len(History) + 1 |-> [k \in Keys |-> ValueAt(n - 1, k)]],
       now      <- Present + 1

TimelineSpec == Versions!Spec
=============================================================================
