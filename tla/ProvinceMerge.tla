--------------------------- MODULE ProvinceMerge ---------------------------
(***************************************************************************)
(* Merged provinces (IProvinceProject).  A province that has been merged   *)
(* with others keeps the id of its parent and the set of its children; the *)
(* provinces merged with one another are the members of one tree.  Parent  *)
(* ids are saved with the project, children are rebuilt when it is loaded. *)
(* Ids are UUIDs: numbers of 128 bits, of which the nil one, 0, stands for *)
(* "no province".  Every operation runs on the GUI thread, to completion.  *)
(***************************************************************************)
EXTENDS Naturals, FiniteSets

CONSTANT Provinces    \* the ids of the provinces of the map (keys of m_provinces)

INVALID_PROVINCE == 0

ASSUME ProvincesAssumption ==
  Provinces \subseteq Nat \ {INVALID_PROVINCE} /\ IsFiniteSet(Provinces)

VARIABLES
  parent_id,   \* Province::parent_id of every province
  children,    \* Province::children of every province
  saved,       \* the parent ids in the province data file of the saved project
  status       \* what the last call returned; "HUNG" if it never returned

vars == <<parent_id, children, saved, status>>

STATUS_SUCCESS == "STATUS_SUCCESS"
FAILURE        == "FAILURE"          \* any failure code
HUNG           == "HUNG"
Statuses == {STATUS_SUCCESS, FAILURE, HUNG}

\* The ids an operation may be called with, a wrong one included.
ProvinceIDs == Provinces \union {INVALID_PROVINCE}

TypeOK ==
  /\ parent_id \in [Provinces -> ProvinceIDs]
  /\ children \in [Provinces -> SUBSET Provinces]
  /\ saved \in [Provinces -> ProvinceIDs]
  /\ status \in Statuses

-----------------------------------------------------------------------------
(* Queries.                                                                *)

\* What a search that starts at id and follows links visits: the least set that
\* holds id and, with a province, every province it is linked to.
Reach(id, links) ==
  LET closed == {S \in SUBSET Provinces :
                   id \in S /\ \A x \in S : links[x] \subseteq S}
  IN {q \in Provinces : \A S \in closed : q \in S}

ParentLinks(parents) == [p \in Provinces |-> {parents[p]} \intersect Provinces]

\* The provinces getRootProvinceParent passes through when called with id.
Above(id) == Reach(id, ParentLinks(parent_id))

\* Mutant of Root: the walk takes one step.
OneStepRoot(id) == IF parent_id[id] = INVALID_PROVINCE THEN id ELSE parent_id[id]

\* That walk ends at a province without a parent, or stops at one that is its own
\* parent, or (there is no other test in the loop) never ends.
HasRoot(id)      == \E r \in Above(id) : parent_id[r] = INVALID_PROVINCE
SelfParented(id) == \E r \in Above(id) : parent_id[r] = r
Root(id)         == CHOOSE r \in Above(id) : parent_id[r] = INVALID_PROVINCE

\* What one more generation of a breadth first search over parents and children finds.
\* Parent and child are not asked to name each other.
Generation(last, parents, kids) ==
  last \union ({parents[p] : p \in last} \intersect Provinces) \union UNION {kids[p] : p \in last}

Search(id, parents, kids) ==
  LET found[n \in 1 .. Cardinality(Provinces)] ==
        IF n = 1 THEN {id} ELSE Generation(found[n - 1], parents, kids)
  IN found[Cardinality(Provinces)]

getMergedProvinces(id) ==
  IF id \in Provinces THEN Search(id, parent_id, children) ELSE {}

\* The first element in the iteration order of a std::set of ids.
Front(S) == CHOOSE x \in S : \A y \in S : x <= y

-----------------------------------------------------------------------------
(* Operations.  None is called before the previous call has returned.      *)

Return(code) == status' = code

Rejects(code) == Return(code) /\ UNCHANGED <<parent_id, children, saved>>

\* The root of a valid id cannot be had: an error, or a call that never returns.
RootFails(id) ==
  /\ ~HasRoot(id)
  /\ \/ SelfParented(id) /\ Rejects(FAILURE)
     \/ ~SelfParented(id) /\ Rejects(HUNG)

\* Mutant of Link: the second tree is hung under the first.
LinkSwapped(root1, root2) ==
  /\ parent_id' = [parent_id EXCEPT ![root2] = root1]
  /\ children' = [children EXCEPT ![root1] = @ \union {root2}]
  /\ Return(STATUS_SUCCESS)
  /\ UNCHANGED saved

\* The ids belong to different trees: the root of the first tree becomes a
\* child of the root of the second.
Link(root1, root2) ==
  /\ parent_id' = [parent_id EXCEPT ![root1] = root2]
  /\ children' = [children EXCEPT ![root2] = @ \union {root1}]
  /\ Return(STATUS_SUCCESS)
  /\ UNCHANGED saved

SameTree(id1, id2) == Root(id1) = Root(id2)

mergeProvinces(id1, id2) ==
  /\ status # HUNG
  /\ \/ id1 = id2 /\ Rejects(FAILURE)
     \/ id1 # id2 /\ ~({id1, id2} \subseteq Provinces) /\ Rejects(FAILURE)
     \/ /\ id1 # id2 /\ {id1, id2} \subseteq Provinces
        /\ \/ RootFails(id1)
           \/ /\ HasRoot(id1)
              /\ \/ RootFails(id2)
                 \/ /\ HasRoot(id2)
                    /\ IF SameTree(id1, id2)
                       THEN Rejects(FAILURE)
                       ELSE Link(Root(id1), Root(id2))

\* Mutant of UnmergeRoot: the children are let go one by one.
UnmergeRootScatters(id) ==
  /\ parent_id' = [p \in Provinces |->
                     IF p \in children[id] THEN INVALID_PROVINCE ELSE parent_id[p]]
  /\ children' = [children EXCEPT ![id] = {}]
  /\ Return(STATUS_SUCCESS)
  /\ UNCHANGED saved

\* A root hands its children over to the first of them, which becomes a root.
UnmergeRoot(id) ==
  LET new_parent == Front(children[id])
      others     == children[id] \ {new_parent}
  IN /\ parent_id' = [p \in Provinces |->
                        IF p = new_parent THEN INVALID_PROVINCE
                        ELSE IF p \in others THEN new_parent
                        ELSE parent_id[p]]
     /\ children' = [children EXCEPT ![new_parent] = @ \union others,
                                     ![id] = {}]
     /\ Return(STATUS_SUCCESS)
     /\ UNCHANGED saved

\* Mutant of UnmergeMember: the root keeps the province in its children.
UnmergeMemberKeeps(id) ==
  LET root == Root(parent_id[id])
  IN /\ parent_id' = [p \in Provinces |->
                        IF p = id THEN INVALID_PROVINCE
                        ELSE IF p \in children[id] THEN parent_id[id]
                        ELSE parent_id[p]]
     /\ children' = [children EXCEPT ![root] = @ \union children[id],
                                     ![id] = {}]
     /\ Return(STATUS_SUCCESS)
     /\ UNCHANGED saved

\* Any other province is taken out of its ROOT's children, which then get the
\* province's own children; these get its parent as their parent.
UnmergeMember(id) ==
  LET root == Root(parent_id[id])
  IN /\ parent_id' = [p \in Provinces |->
                        IF p = id THEN INVALID_PROVINCE
                        ELSE IF p \in children[id] THEN parent_id[id]
                        ELSE parent_id[p]]
     /\ children' = [children EXCEPT ![root] = (@ \ {id}) \union children[id],
                                     ![id] = {}]
     /\ Return(STATUS_SUCCESS)
     /\ UNCHANGED saved

unmergeProvince(id) ==
  /\ status # HUNG
  /\ \/ id \notin Provinces /\ Rejects(FAILURE)
     \/ /\ id \in Provinces /\ parent_id[id] = INVALID_PROVINCE
        /\ \/ children[id] = {} /\ Rejects(STATUS_SUCCESS)
           \/ children[id] # {} /\ UnmergeRoot(id)
     \/ /\ id \in Provinces /\ parent_id[id] # INVALID_PROVINCE
        /\ \/ RootFails(parent_id[id])
           \/ HasRoot(parent_id[id]) /\ UnmergeMember(id)

\* Only the parent id of a province is written to the province data file.
Save ==
  /\ status # HUNG
  /\ saved' = parent_id
  /\ Return(STATUS_SUCCESS)
  /\ UNCHANGED <<parent_id, children>>

ChildrenOf(parents) == [p \in Provinces |-> {c \in Provinces : parents[c] = p}]

\* The saved project is opened, after a clean exit or after the program was
\* killed: the children are those whose parent id names the province.
Load ==
  /\ parent_id' = saved
  /\ children' = ChildrenOf(saved)
  /\ Return(STATUS_SUCCESS)
  /\ UNCHANGED saved

-----------------------------------------------------------------------------
\* A map that was imported and saved: no province is merged with another.
Init ==
  /\ parent_id = [p \in Provinces |-> INVALID_PROVINCE]
  /\ children = [p \in Provinces |-> {}]
  /\ saved = parent_id
  /\ status = STATUS_SUCCESS

Next ==
  \/ \E id1, id2 \in ProvinceIDs : mergeProvinces(id1, id2)
  \/ \E id \in ProvinceIDs : unmergeProvince(id)
  \/ Save
  \/ Load

Spec == Init /\ [][Next]_vars

\* The calls the unit tests make: a province is unmerged only while it is the
\* root of its tree or a child of the root, at whatever depth the tree ends.
Shallow(id) ==
  \A p \in Provinces :
    id \in Provinces /\ parent_id[id] = p => parent_id[p] = INVALID_PROVINCE

ShallowNext ==
  \/ \E id1, id2 \in ProvinceIDs : mergeProvinces(id1, id2)
  \/ \E id \in ProvinceIDs : Shallow(id) /\ unmergeProvince(id)
  \/ Save
  \/ Load

ShallowSpec == Init /\ [][ShallowNext]_vars

-----------------------------------------------------------------------------
(* Properties of Spec.                                                     *)

\* A merge that changes anything (IProject.cpp:237-238) gives every province of
\* the first tree the root of the second and moves no other province: whatever
\* came before, a province that could be asked for its root still can.
MergeJoinsTrees ==
  [][\A id1, id2 \in Provinces :
       parent_id' # parent_id /\ mergeProvinces(id1, id2) =>
         \A p \in Provinces :
           HasRoot(p) => /\ HasRoot(p)'
                         /\ Root(p)' = IF Root(p) = Root(id1) THEN Root(id2) ELSE Root(p)]_vars

-----------------------------------------------------------------------------
(* Properties of ShallowSpec.                                              *)

\* Parent and child always name each other, so that the children saved as
\* nothing but parent ids come back as they were (ProvinceProject.cpp:686-695).
ParentChildAgree == children = ChildrenOf(parent_id)

\* No province is above itself, through however many parents: there is no set
\* of provinces that the walk to the root (IProject.cpp:130) cannot leave.
Acyclic(parents) ==
  \A S \in SUBSET Provinces : S # {} => \E p \in S : parents[p] \notin S

AlwaysAcyclic == Acyclic(parent_id)

\* Every call returns a success or a failure code (IProject.cpp:203, 251).  (Of a
\* member with children, in trees of more levels, two unmerges and a merge make
\* two provinces parents of each other, and the next call never returns.)
CallsReturn == status # HUNG

\* The trees implement the groups, each found by a search from its root.
Roots(parents) == {p \in Provinces : parents[p] = INVALID_PROVINCE}

Groups == INSTANCE MergeGroups
  WITH groups      <- {getMergedProvinces(r) : r \in Roots(parent_id)},
       savedGroups <- {Search(r, saved, ChildrenOf(saved)) : r \in Roots(saved)}

GroupsSpec == Groups!Spec
=============================================================================
