------------------------ MODULE ProvinceMergeProofs ------------------------
(***************************************************************************)
(* Theorems about merged provinces, for every set of provinces.            *)
(***************************************************************************)
EXTENDS ProvinceMerge, FiniteSetTheorems, WellFoundedInduction, TLAPS

LEMMA FirstExists ==
  ASSUME NEW S, S \subseteq Nat, S # {}
  PROVE  \E x \in S : \A y \in S : x <= y
<1> DEFINE Less == {ss \in Nat \X Nat : ss[1] < ss[2]}
<1>1. IsWellFoundedOn(Less, Nat)
  BY NatLessThanWellFounded, Zenon DEF OpToRel
<1> HIDE DEF Less
<1>2. PICK x \in S : \A y \in S : <<y, x>> \notin Less
  BY <1>1, WFMin
<1>3. ASSUME NEW y \in S PROVE x <= y
  <2>1. x \in Nat /\ y \in Nat
    OBVIOUS
  <2>2. y < x => <<y, x>> \in Less
    BY <2>1 DEF Less
  <2> QED
    BY <1>2, <2>1, <2>2
<1> QED
  BY <1>3

\* A set of ids that is not empty has a first element.
LEMMA FrontIsIn ==
  ASSUME NEW S, S \subseteq Provinces, S # {}
  PROVE  Front(S) \in S
  BY FirstExists, ProvincesAssumption DEF Front

\* What holds of 1 and of the next number holds up to any number.
LEMMA FromOneOn ==
  ASSUME NEW N \in Nat, NEW T, 1 \in T, \A n \in 1 .. N - 1 : n \in T => n + 1 \in T
  PROVE  1 .. N \subseteq T
<1> SUFFICES ASSUME (1 .. N) \ T # {} PROVE FALSE
  OBVIOUS
<1> DEFINE rest == (1 .. N) \ T
<1>0. rest \subseteq Nat /\ rest # {}
  OBVIOUS
<1> HIDE DEF rest
<1>1. PICK m \in rest : \A l \in rest : m <= l
  BY <1>0, FirstExists
<1> USE DEF rest
<1>2. m - 1 \in 1 .. N - 1 /\ ~(m <= m - 1)
  BY <1>1
<1>3. m - 1 \in T /\ (m - 1) + 1 = m
  BY <1>1, <1>2
<1> QED
  BY <1>1, <1>2, <1>3

-----------------------------------------------------------------------------
(* Searches and roots.                                                     *)

\* What a search visits holds its start, is closed under the links and is part
\* of every set of provinces that is.
LEMMA ReachIsLeast ==
  ASSUME NEW links \in [Provinces -> SUBSET Provinces], NEW id \in Provinces
  PROVE  /\ id \in Reach(id, links)
         /\ Reach(id, links) \subseteq Provinces
         /\ \A x \in Reach(id, links) : links[x] \subseteq Reach(id, links)
         /\ \A S \in SUBSET Provinces :
              (id \in S /\ \A x \in S : links[x] \subseteq S) => Reach(id, links) \subseteq S
  BY DEF Reach

LEMMA ParentLinksType ==
  ASSUME NEW parents
  PROVE  ParentLinks(parents) \in [Provinces -> SUBSET Provinces]
  BY DEF ParentLinks

\* The root of a province that has one is a province without a parent.
LEMMA RootIsRoot ==
  ASSUME NEW id \in Provinces, HasRoot(id)
  PROVE  Root(id) \in Provinces /\ parent_id[Root(id)] = INVALID_PROVINCE
<1>1. Root(id) \in Above(id) /\ parent_id[Root(id)] = INVALID_PROVINCE
  BY DEF HasRoot, Root
<1>2. Above(id) \subseteq Provinces
  BY ReachIsLeast, ParentLinksType DEF Above
<1> QED
  BY <1>1, <1>2

\* A province without a parent is its own root.
LEMMA RootOfRoot ==
  ASSUME NEW r \in Provinces, parent_id[r] = INVALID_PROVINCE
  PROVE  HasRoot(r) /\ Root(r) = r
<1> DEFINE links == ParentLinks(parent_id)
<1>1. links[r] = {}
  BY ProvincesAssumption DEF ParentLinks
<1>2. Reach(r, links) = {r}
  <2>1. links \in [Provinces -> SUBSET Provinces]
    BY ParentLinksType
  <2> HIDE DEF links
  <2>2. r \in Reach(r, links)
    BY <2>1, ReachIsLeast
  <2>3. {r} \in SUBSET Provinces /\ \A x \in {r} : links[x] \subseteq {r}
    BY <1>1
  <2>4. Reach(r, links) \subseteq {r}
    BY <2>1, <2>3, ReachIsLeast
  <2> QED
    BY <2>2, <2>4
<1> QED
  BY <1>2 DEF HasRoot, Root, Above

\* Where no set of provinces holds the parents of all its members, every walk
\* ends at a root.
LEMMA AcyclicHasRoot ==
  ASSUME TypeOK, Acyclic(parent_id), NEW id \in Provinces
  PROVE  HasRoot(id)
<1>1. /\ id \in Above(id)
      /\ Above(id) \subseteq Provinces
      /\ \A x \in Above(id) : ParentLinks(parent_id)[x] \subseteq Above(id)
  BY ReachIsLeast, ParentLinksType DEF Above
<1>2. \A x \in Above(id) : parent_id[x] \in Provinces => parent_id[x] \in Above(id)
  BY <1>1 DEF ParentLinks
<1>3. PICK r \in Above(id) : parent_id[r] \notin Above(id)
  BY <1>1 DEF Acyclic
<1>4. parent_id[r] = INVALID_PROVINCE
  BY <1>1, <1>2, <1>3 DEF TypeOK, ProvinceIDs
<1> QED
  BY <1>3, <1>4 DEF HasRoot

-----------------------------------------------------------------------------
(* Types, under every call.                                                *)

\* Parents and children are provinces of the map, or none (IProject.cpp:205-380,
\* ProvinceProject.cpp:629-693), so that no look-up by at() can throw.
THEOREM TypeCorrect == Spec => []TypeOK
<1>1. Init => TypeOK
  BY DEF Init, TypeOK, ProvinceIDs, Statuses
<1>2. TypeOK /\ [Next]_vars => TypeOK'
  <2> SUFFICES ASSUME TypeOK, [Next]_vars PROVE TypeOK'
    OBVIOUS
  <2> USE DEF TypeOK, ProvinceIDs, Statuses
  <2>1. ASSUME NEW code \in Statuses, Rejects(code) PROVE TypeOK'
    BY <2>1 DEF Rejects, Return
  <2>2. ASSUME NEW id1 \in ProvinceIDs, NEW id2 \in ProvinceIDs, mergeProvinces(id1, id2)
        PROVE  TypeOK'
    <3>1. CASE \E code \in Statuses : Rejects(code)
      BY <2>1, <3>1
    <3>2. CASE ~\E code \in Statuses : Rejects(code)
      <4>1. /\ id1 \in Provinces /\ id2 \in Provinces
            /\ HasRoot(id1) /\ HasRoot(id2)
            /\ Link(Root(id1), Root(id2))
        BY <2>2, <3>2 DEF mergeProvinces, RootFails,
           STATUS_SUCCESS, FAILURE, HUNG
      <4>2. Root(id1) \in Provinces /\ Root(id2) \in Provinces
        BY <4>1, RootIsRoot
      <4> QED
        BY <4>1, <4>2 DEF Link, Return
    <3> QED
      BY <3>1, <3>2
  <2>3. ASSUME NEW id \in ProvinceIDs, unmergeProvince(id) PROVE TypeOK'
    <3>1. CASE \E code \in Statuses : Rejects(code)
      BY <2>1, <3>1
    <3>2. CASE id \in Provinces /\ children[id] # {} /\ UnmergeRoot(id)
      <4>1. Front(children[id]) \in Provinces
        BY <3>2, FrontIsIn
      <4> QED
        BY <3>2, <4>1 DEF UnmergeRoot, Return
    <3>3. CASE id \in Provinces /\ parent_id[id] # INVALID_PROVINCE /\ UnmergeMember(id)
      BY <3>3 DEF UnmergeMember, Return
    <3> QED
      BY <2>3, <3>1, <3>2, <3>3 DEF unmergeProvince, RootFails,
         STATUS_SUCCESS, FAILURE, HUNG
  <2>4. CASE Save
    BY <2>4 DEF Save, Return
  <2>5. CASE Load
    BY <2>5 DEF Load, Return, ChildrenOf
  <2>6. CASE UNCHANGED vars
    BY <2>6 DEF vars
  <2> QED
    BY <2>2, <2>3, <2>4, <2>5, <2>6 DEF Next
<1> QED
  BY <1>1, <1>2, PTL DEF Spec

-----------------------------------------------------------------------------
(* A merge joins two trees, under every call.                              *)

\* From a province the walk goes on as from its parent.
LEMMA ReachOfParent ==
  ASSUME NEW parents \in [Provinces -> ProvinceIDs], NEW x \in Provinces,
         parents[x] \in Provinces
  PROVE  Reach(x, ParentLinks(parents)) \subseteq
           {x} \union Reach(parents[x], ParentLinks(parents))
<1> DEFINE links == ParentLinks(parents)
           S == {x} \union Reach(parents[x], links)
<1>1. links \in [Provinces -> SUBSET Provinces]
  BY ParentLinksType
<1>2. links[x] = {parents[x]}
  BY DEF ParentLinks
<1> HIDE DEF links
<1>3. /\ parents[x] \in Reach(parents[x], links)
      /\ Reach(parents[x], links) \subseteq Provinces
      /\ \A y \in Reach(parents[x], links) : links[y] \subseteq Reach(parents[x], links)
  BY <1>1, ReachIsLeast
<1>4. S \in SUBSET Provinces /\ x \in S /\ \A y \in S : links[y] \subseteq S
  BY <1>2, <1>3
<1> HIDE DEF S
<1>5. Reach(x, links) \subseteq S
  BY <1>1, <1>4, ReachIsLeast
<1> QED
  BY <1>5 DEF S, links

\* The walk from a province passes through one root at most.
LEMMA OneRoot ==
  ASSUME NEW parents \in [Provinces -> ProvinceIDs], NEW p \in Provinces,
         NEW r \in Reach(p, ParentLinks(parents)), parents[r] = INVALID_PROVINCE,
         NEW s \in Reach(p, ParentLinks(parents)), parents[s] = INVALID_PROVINCE
  PROVE  r = s
<1> DEFINE links == ParentLinks(parents)
           S == {x \in Reach(p, links) : r \in Reach(x, links)}
<1>1. links \in [Provinces -> SUBSET Provinces]
  BY ParentLinksType
<1>2. \A x \in Provinces : links[x] = {parents[x]} \intersect Provinces
  BY DEF ParentLinks
<1>3. \A x \in Provinces : parents[x] \in Provinces =>
        Reach(x, links) \subseteq {x} \union Reach(parents[x], links)
  BY ReachOfParent
<1>4. r \in Reach(p, links) /\ s \in Reach(p, links)
  OBVIOUS
<1> HIDE DEF links
<1>5. p \in Reach(p, links) /\ Reach(p, links) \subseteq Provinces
  BY <1>1, ReachIsLeast
<1>6. p \in S /\ S \in SUBSET Provinces
  BY <1>4, <1>5
<1>7. ASSUME NEW x \in S PROVE links[x] \subseteq S
  <2>1. x \in Provinces /\ links[x] \subseteq Reach(p, links)
    BY <1>1, <1>5, ReachIsLeast
  <2>2. ASSUME parents[x] \in Provinces PROVE r \in Reach(parents[x], links)
    <3>1. r # x
      BY <2>2, ProvincesAssumption
    <3> QED
      BY <1>3, <2>1, <2>2, <3>1
  <2> QED
    BY <1>2, <2>1, <2>2
<1>8. s \in S
  <2> HIDE DEF S
  <2>1. Reach(p, links) \subseteq S
    BY <1>1, <1>6, <1>7, ReachIsLeast
  <2> QED
    BY <1>4, <2>1
<1>9. s \in Provinces /\ links[s] = {}
  BY <1>2, <1>4, <1>5, ProvincesAssumption
<1>10. Reach(s, links) \subseteq {s}
  <2>1. {s} \in SUBSET Provinces /\ s \in {s} /\ \A x \in {s} : links[x] \subseteq {s}
    BY <1>9
  <2> QED
    BY <1>1, <1>9, <2>1, ReachIsLeast
<1> QED
  BY <1>8, <1>10

\* Hanging a root below another one moves its tree and no other.
LEMMA LinkJoins ==
  ASSUME TypeOK, TypeOK',
         NEW r1 \in Provinces, parent_id[r1] = INVALID_PROVINCE,
         NEW r2 \in Provinces, parent_id[r2] = INVALID_PROVINCE,
         r1 # r2, Link(r1, r2), NEW p \in Provinces, HasRoot(p)
  PROVE  HasRoot(p)' /\ Root(p)' = IF Root(p) = r1 THEN r2 ELSE Root(p)
<1> DEFINE old == ParentLinks(parent_id)
           new == ParentLinks(parent_id')
<1>1. /\ \A x \in Provinces \ {r1} : parent_id'[x] = parent_id[x]
      /\ parent_id'[r1] = r2
  BY DEF Link, TypeOK
<1>2. old \in [Provinces -> SUBSET Provinces] /\ new \in [Provinces -> SUBSET Provinces]
  BY ParentLinksType
<1>3. /\ \A x \in Provinces : old[x] = {parent_id[x]} \intersect Provinces
      /\ \A x \in Provinces : new[x] = {parent_id'[x]} \intersect Provinces
  BY DEF ParentLinks
<1>4. Above(p) = Reach(p, old) /\ Above(p)' = Reach(p, new)
  BY DEF Above
<1> HIDE DEF old, new
<1>5. /\ p \in Reach(p, new) /\ Reach(p, new) \subseteq Provinces
      /\ \A x \in Reach(p, new) : new[x] \subseteq Reach(p, new)
  BY <1>2, ReachIsLeast
<1>6. \A x \in Reach(p, new) : old[x] \subseteq Reach(p, new)
  BY <1>1, <1>3, <1>5, ProvincesAssumption
<1>7. Above(p) \subseteq Above(p)'
  BY <1>2, <1>4, <1>5, <1>6, ReachIsLeast
<1>8. Root(p) \in Above(p) /\ parent_id[Root(p)] = INVALID_PROVINCE /\ Root(p) \in Provinces
  <2>1. Root(p) \in Above(p) /\ parent_id[Root(p)] = INVALID_PROVINCE
    BY DEF HasRoot, Root
  <2> QED
    BY <2>1, RootIsRoot
<1>9. \A r \in Above(p)' : parent_id'[r] = INVALID_PROVINCE => HasRoot(p)' /\ Root(p)' = r
  <2>1. parent_id' \in [Provinces -> ProvinceIDs]
    BY DEF TypeOK
  <2>2. ASSUME NEW r \in Above(p)', parent_id'[r] = INVALID_PROVINCE PROVE HasRoot(p)'
    BY <2>2 DEF HasRoot
  <2>3. ASSUME NEW r \in Above(p)', parent_id'[r] = INVALID_PROVINCE PROVE Root(p)' = r
    <3>1. Root(p)' \in Above(p)' /\ parent_id'[Root(p)'] = INVALID_PROVINCE
      BY <2>3 DEF Root
    <3> QED
      BY <1>4, <2>1, <2>3, <3>1, OneRoot DEF new
  <2> QED
    BY <2>2, <2>3
<1>10. CASE Root(p) = r1
  <2>1. r2 \in Above(p)'
    BY <1>1, <1>3, <1>4, <1>5, <1>7, <1>8, <1>10
  <2> QED
    BY <1>1, <1>9, <1>10, <2>1
<1>11. CASE Root(p) # r1
  BY <1>1, <1>7, <1>8, <1>9, <1>11
<1> QED
  BY <1>10, <1>11

\* A merge that changes anything joins two trees and moves no other province, however
\* the trees came about: unmerges that leave them inconsistent included.
THEOREM MergesJoinTrees == Spec => MergeJoinsTrees
<1>1. ASSUME TypeOK, TypeOK', NEW id1 \in Provinces, NEW id2 \in Provinces,
             mergeProvinces(id1, id2), parent_id' # parent_id,
             NEW p \in Provinces, HasRoot(p)
      PROVE  HasRoot(p)' /\ Root(p)' = IF Root(p) = Root(id1) THEN Root(id2) ELSE Root(p)
  <2>1. /\ HasRoot(id1) /\ HasRoot(id2) /\ Root(id1) # Root(id2)
        /\ Link(Root(id1), Root(id2))
    BY <1>1 DEF mergeProvinces, RootFails, Rejects, SameTree
  <2>2. /\ Root(id1) \in Provinces /\ parent_id[Root(id1)] = INVALID_PROVINCE
        /\ Root(id2) \in Provinces /\ parent_id[Root(id2)] = INVALID_PROVINCE
    BY <2>1, RootIsRoot
  <2> QED
    BY <1>1, <2>1, <2>2, LinkJoins
<1>2. TypeOK /\ TypeOK' =>
        [\A id1, id2 \in Provinces :
           parent_id' # parent_id /\ mergeProvinces(id1, id2) =>
             \A p \in Provinces :
               HasRoot(p) => /\ HasRoot(p)'
                             /\ Root(p)' = IF Root(p) = Root(id1) THEN Root(id2) ELSE Root(p)]_vars
  BY <1>1
<1> QED
  BY <1>2, TypeCorrect, PTL DEF MergeJoinsTrees

-----------------------------------------------------------------------------
(* Consistent trees, where only roots and children of roots are unmerged.  *)

\* The inductive invariant.  That the links agree is what makes the children a
\* province hands over its only ones; that trees end is what makes the walk to
\* the root return; the saved parents are what Load puts in place of the trees.
TreeInv ==
  /\ TypeOK
  /\ ParentChildAgree
  /\ AlwaysAcyclic
  /\ Acyclic(saved)
  /\ CallsReturn

LEMMA TreeInvInit == Init => TreeInv
<1> SUFFICES ASSUME Init PROVE TreeInv
  OBVIOUS
<1>1. TypeOK /\ CallsReturn
  BY DEF Init, TypeOK, ProvinceIDs, Statuses, CallsReturn, STATUS_SUCCESS, HUNG
<1>2. ParentChildAgree
  BY ProvincesAssumption DEF Init, ParentChildAgree, ChildrenOf
<1>3. Acyclic(saved) /\ AlwaysAcyclic
  BY ProvincesAssumption DEF Init, AlwaysAcyclic, Acyclic
<1> QED
  BY <1>1, <1>2, <1>3 DEF TreeInv

\* An error changes nothing that the invariant is about.
LEMMA RejectsKeepsTrees ==
  ASSUME TreeInv, NEW code \in Statuses \ {HUNG}, Rejects(code)
  PROVE  TreeInv'
  BY DEF TreeInv, TypeOK, ParentChildAgree, ChildrenOf, AlwaysAcyclic, Acyclic,
         CallsReturn, Rejects, Return

LEMMA LinkKeepsTrees ==
  ASSUME TreeInv,
         NEW r1 \in Provinces, parent_id[r1] = INVALID_PROVINCE,
         NEW r2 \in Provinces, parent_id[r2] = INVALID_PROVINCE,
         r1 # r2, Link(r1, r2)
  PROVE  TreeInv'
<1> USE DEF TreeInv
<1>1. /\ parent_id' = [parent_id EXCEPT ![r1] = r2]
      /\ children' = [children EXCEPT ![r2] = @ \union {r1}]
      /\ status' = STATUS_SUCCESS
      /\ saved' = saved
  BY DEF Link, Return
<1>2. TypeOK' /\ CallsReturn'
  BY <1>1 DEF TypeOK, ProvinceIDs, Statuses, CallsReturn, STATUS_SUCCESS, HUNG
<1>3. ParentChildAgree'
  <2>1. ASSUME NEW p \in Provinces
        PROVE  children'[p] = {c \in Provinces : parent_id'[c] = p}
    BY <1>1, ProvincesAssumption DEF TypeOK, ParentChildAgree, ChildrenOf
  <2> QED
    BY <1>2, <2>1 DEF TypeOK, ParentChildAgree, ChildrenOf
<1>4. AlwaysAcyclic'
  <2> SUFFICES ASSUME NEW S \in SUBSET Provinces, S # {},
                      \A p \in S : parent_id'[p] \in S
               PROVE  FALSE
    BY DEF AlwaysAcyclic, Acyclic
  <2>1. r2 \notin S
    BY <1>1, ProvincesAssumption DEF TypeOK
  <2>2. r1 \notin S
    BY <1>1, <2>1 DEF TypeOK
  <2>3. \A p \in S : parent_id[p] \in S
    BY <1>1, <2>2 DEF TypeOK
  <2> QED
    BY <2>3 DEF AlwaysAcyclic, Acyclic
<1> QED
  BY <1>1, <1>2, <1>3, <1>4 DEF Acyclic

LEMMA UnmergeRootKeepsTrees ==
  ASSUME TreeInv,
         NEW id \in Provinces, parent_id[id] = INVALID_PROVINCE,
         children[id] # {}, UnmergeRoot(id)
  PROVE  TreeInv'
<1> USE DEF TreeInv
<1> DEFINE new    == Front(children[id])
           others == children[id] \ {new}
<1>1. /\ parent_id' = [p \in Provinces |->
                         IF p = new THEN INVALID_PROVINCE
                         ELSE IF p \in others THEN new
                         ELSE parent_id[p]]
      /\ children' = [children EXCEPT ![new] = @ \union others, ![id] = {}]
      /\ status' = STATUS_SUCCESS
      /\ saved' = saved
  BY DEF UnmergeRoot, Return
<1>2. new \in Provinces /\ new \in children[id] /\ others \subseteq Provinces
  BY FrontIsIn DEF TypeOK
<1>3. \A c \in Provinces : c \in children[id] <=> parent_id[c] = id
  BY DEF ParentChildAgree, ChildrenOf
<1>4. new # id
  BY <1>2, <1>3, ProvincesAssumption
<1> HIDE DEF new
<1>5. TypeOK' /\ CallsReturn'
  BY <1>1, <1>2 DEF TypeOK, ProvinceIDs, Statuses, CallsReturn, STATUS_SUCCESS, HUNG
<1>6. ParentChildAgree'
  <2>1. ASSUME NEW p \in Provinces
        PROVE  children'[p] = {c \in Provinces : parent_id'[c] = p}
    <3>1. children[p] = {c \in Provinces : parent_id[c] = p}
      BY DEF ParentChildAgree, ChildrenOf
    <3>2. CASE p = new
      BY <1>1, <1>2, <1>3, <1>4, <3>1, <3>2, ProvincesAssumption DEF TypeOK
    <3>3. CASE p = id
      BY <1>1, <1>2, <1>3, <1>4, <3>1, <3>3, ProvincesAssumption DEF TypeOK
    <3>4. CASE p # new /\ p # id
      BY <1>1, <1>2, <1>3, <3>1, <3>4, ProvincesAssumption DEF TypeOK
    <3> QED
      BY <3>2, <3>3, <3>4
  <2> QED
    BY <1>5, <2>1 DEF TypeOK, ParentChildAgree, ChildrenOf
<1>7. AlwaysAcyclic'
  <2> SUFFICES ASSUME NEW S \in SUBSET Provinces, S # {},
                      \A p \in S : parent_id'[p] \in S
               PROVE  FALSE
    BY DEF AlwaysAcyclic, Acyclic
  <2>1. new \notin S
    BY <1>1, ProvincesAssumption
  <2>2. others \intersect S = {}
    BY <1>1, <1>2, <2>1
  <2>3. \A p \in S : parent_id[p] \in S
    BY <1>1, <2>1, <2>2
  <2> QED
    BY <2>3 DEF AlwaysAcyclic, Acyclic
<1> QED
  BY <1>1, <1>5, <1>6, <1>7 DEF Acyclic

LEMMA UnmergeMemberKeepsTrees ==
  ASSUME TreeInv,
         NEW id \in Provinces, parent_id[id] \in Provinces,
         parent_id[parent_id[id]] = INVALID_PROVINCE, UnmergeMember(id)
  PROVE  TreeInv'
<1> USE DEF TreeInv
<1> DEFINE root == parent_id[id]
<1>1. Root(parent_id[id]) = root
  BY RootOfRoot
<1>2. /\ parent_id' = [p \in Provinces |->
                         IF p = id THEN INVALID_PROVINCE
                         ELSE IF p \in children[id] THEN root
                         ELSE parent_id[p]]
      /\ children' = [children EXCEPT ![root] = (@ \ {id}) \union children[id], ![id] = {}]
      /\ status' = STATUS_SUCCESS
      /\ saved' = saved
  BY <1>1 DEF UnmergeMember, Return
<1>3. root # id
  BY ProvincesAssumption
<1>4. \A p, c \in Provinces : c \in children[p] <=> parent_id[c] = p
  BY DEF ParentChildAgree, ChildrenOf
<1>5. TypeOK' /\ CallsReturn'
  BY <1>2 DEF TypeOK, ProvinceIDs, Statuses, CallsReturn, STATUS_SUCCESS, HUNG
<1>6. ParentChildAgree'
  <2>1. ASSUME NEW p \in Provinces
        PROVE  children'[p] = {c \in Provinces : parent_id'[c] = p}
    <3>1. children[p] = {c \in Provinces : parent_id[c] = p}
      BY DEF ParentChildAgree, ChildrenOf
    <3>2. CASE p = root
      BY <1>2, <1>3, <1>4, <3>1, <3>2, ProvincesAssumption DEF TypeOK
    <3>3. CASE p = id
      BY <1>2, <1>3, <1>4, <3>1, <3>3, ProvincesAssumption DEF TypeOK
    <3>4. CASE p # root /\ p # id
      <4>1. children'[p] = children[p]
        BY <1>2, <3>4 DEF TypeOK
      <4>2. \A c \in Provinces : parent_id'[c] = p <=> parent_id[c] = p
        BY <1>2, <1>4, <3>4, ProvincesAssumption
      <4> QED
        BY <3>1, <4>1, <4>2
    <3> QED
      BY <3>2, <3>3, <3>4
  <2> QED
    BY <1>5, <2>1 DEF TypeOK, ParentChildAgree, ChildrenOf
<1>7. AlwaysAcyclic'
  <2> SUFFICES ASSUME NEW S \in SUBSET Provinces, S # {},
                      \A p \in S : parent_id'[p] \in S
               PROVE  FALSE
    BY DEF AlwaysAcyclic, Acyclic
  <2>1. id \notin S
    BY <1>2, ProvincesAssumption
  <2>2. root \notin S
    BY <1>2, <1>3, <1>4, ProvincesAssumption
  <2>3. children[id] \intersect S = {}
    BY <1>2, <2>1, <2>2
  <2>4. \A p \in S : parent_id[p] \in S
    BY <1>2, <2>1, <2>3
  <2> QED
    BY <2>4 DEF AlwaysAcyclic, Acyclic
<1> QED
  BY <1>2, <1>5, <1>6, <1>7 DEF Acyclic

LEMMA TreeInvNext == TreeInv /\ [ShallowNext]_vars => TreeInv'
<1> SUFFICES ASSUME TreeInv, [ShallowNext]_vars PROVE TreeInv'
  OBVIOUS
<1>1. \A id \in Provinces : HasRoot(id)
  BY AcyclicHasRoot DEF TreeInv, AlwaysAcyclic
<1>2. \A id \in Provinces : ~RootFails(id)
  BY <1>1 DEF RootFails
<1>3. {STATUS_SUCCESS, FAILURE} \subseteq Statuses \ {HUNG}
  BY DEF Statuses, STATUS_SUCCESS, FAILURE, HUNG
<1>4. ASSUME NEW id1 \in ProvinceIDs, NEW id2 \in ProvinceIDs, mergeProvinces(id1, id2)
      PROVE  TreeInv'
  <2>1. CASE \E code \in Statuses \ {HUNG} : Rejects(code)
    BY <2>1, RejectsKeepsTrees
  <2>2. CASE ~\E code \in Statuses \ {HUNG} : Rejects(code)
    <3>1. /\ id1 \in Provinces /\ id2 \in Provinces
          /\ Root(id1) # Root(id2)
          /\ Link(Root(id1), Root(id2))
      BY <1>2, <1>3, <1>4, <2>2 DEF mergeProvinces, SameTree
    <3>2. /\ Root(id1) \in Provinces /\ parent_id[Root(id1)] = INVALID_PROVINCE
          /\ Root(id2) \in Provinces /\ parent_id[Root(id2)] = INVALID_PROVINCE
      BY <1>1, <3>1, RootIsRoot
    <3> QED
      BY <3>1, <3>2, LinkKeepsTrees
  <2> QED
    BY <2>1, <2>2
<1>5. ASSUME NEW id \in ProvinceIDs, Shallow(id), unmergeProvince(id)
      PROVE  TreeInv'
  <2>1. CASE \E code \in Statuses \ {HUNG} : Rejects(code)
    BY <2>1, RejectsKeepsTrees
  <2>2. CASE ~\E code \in Statuses \ {HUNG} : Rejects(code)
    <3>1. CASE /\ id \in Provinces /\ parent_id[id] = INVALID_PROVINCE
               /\ children[id] # {} /\ UnmergeRoot(id)
      BY <3>1, UnmergeRootKeepsTrees
    <3>2. CASE /\ id \in Provinces /\ parent_id[id] # INVALID_PROVINCE
               /\ UnmergeMember(id)
      <4>1. parent_id[id] \in Provinces
        BY <3>2 DEF TreeInv, TypeOK, ProvinceIDs
      <4>2. parent_id[parent_id[id]] = INVALID_PROVINCE
        BY <1>5, <3>2, <4>1 DEF Shallow
      <4> QED
        BY <3>2, <4>1, <4>2, UnmergeMemberKeepsTrees
    <3>3. id \in Provinces /\ parent_id[id] # INVALID_PROVINCE => ~RootFails(parent_id[id])
      BY <1>2 DEF TreeInv, TypeOK, ProvinceIDs
    <3> QED
      BY <1>3, <1>5, <2>2, <3>1, <3>2, <3>3 DEF unmergeProvince
  <2> QED
    BY <2>1, <2>2
<1>6. CASE Save
  BY <1>6 DEF Save, Return, TreeInv, TypeOK, Statuses, ParentChildAgree, ChildrenOf,
     AlwaysAcyclic, Acyclic, CallsReturn, STATUS_SUCCESS, HUNG
<1>7. CASE Load
  BY <1>7 DEF Load, Return, TreeInv, TypeOK, Statuses, ParentChildAgree, ChildrenOf,
     AlwaysAcyclic, Acyclic, CallsReturn, STATUS_SUCCESS, HUNG
<1>8. CASE UNCHANGED vars
  BY <1>8 DEF vars, TreeInv, TypeOK, ParentChildAgree, ChildrenOf, AlwaysAcyclic,
     Acyclic, CallsReturn
<1> QED
  BY <1>4, <1>5, <1>6, <1>7, <1>8 DEF ShallowNext

LEMMA TreeInvAlways == ShallowSpec => []TreeInv
  BY TreeInvInit, TreeInvNext, PTL DEF ShallowSpec

\* Parent and child always name each other.
THEOREM ParentAndChildAgree == ShallowSpec => []ParentChildAgree
<1>1. TreeInv => ParentChildAgree
  BY DEF TreeInv
<1> QED
  BY <1>1, TreeInvAlways, PTL

\* No province is ever above itself.
THEOREM TreesStayAcyclic == ShallowSpec => []AlwaysAcyclic
<1>1. TreeInv => AlwaysAcyclic
  BY DEF TreeInv
<1> QED
  BY <1>1, TreeInvAlways, PTL

\* Every call returns: the walk to the root always ends.
THEOREM EveryCallReturns == ShallowSpec => []CallsReturn
<1>1. TreeInv => CallsReturn
  BY DEF TreeInv
<1> QED
  BY <1>1, TreeInvAlways, PTL

-----------------------------------------------------------------------------
(* What the search finds, generation by generation.                        *)

\* f holds the first m generations of a search.
IsSearch(f, m, id, parents, kids) ==
  f = [n \in 1 .. m |-> IF n = 1 THEN {id} ELSE Generation(f[n - 1], parents, kids)]

LEMMA GenerationsExist ==
  ASSUME NEW id, NEW parents, NEW kids, NEW N \in Nat \ {0}
  PROVE  \E f : IsSearch(f, N, id, parents, kids)
<1> DEFINE T == {m \in 1 .. N : \E f : IsSearch(f, m, id, parents, kids)}
<1>1. 1 \in T
  <2> DEFINE f == [n \in 1 .. 1 |-> {id}]
  <2>1. IsSearch(f, 1, id, parents, kids)
    BY DEF IsSearch
  <2> QED
    BY <2>1
<1>2. ASSUME NEW m \in 1 .. N - 1, m \in T PROVE m + 1 \in T
  <2>1. PICK f : IsSearch(f, m, id, parents, kids)
    BY <1>2
  <2> DEFINE g == [n \in 1 .. m + 1 |-> IF n = m + 1 THEN Generation(f[m], parents, kids) ELSE f[n]]
  <2>2. \A n \in 1 .. m : f[n] = IF n = 1 THEN {id} ELSE Generation(f[n - 1], parents, kids)
    BY <2>1 DEF IsSearch
  <2>3. ASSUME NEW n \in 1 .. m + 1
        PROVE  g[n] = IF n = 1 THEN {id} ELSE Generation(g[n - 1], parents, kids)
    <3>1. CASE n = m + 1
      <4>1. g[m] = f[m] /\ n # 1 /\ n - 1 = m
        BY <3>1
      <4>2. g[n] = Generation(f[m], parents, kids)
        BY <3>1
      <4> QED
        BY <4>1, <4>2
    <3>2. CASE n \in 1 .. m
      <4>1. g[n] = f[n] /\ (n # 1 => g[n - 1] = f[n - 1])
        BY <3>2
      <4> QED
        BY <2>2, <3>2, <4>1
    <3> QED
      BY <3>1, <3>2
  <2>4. DOMAIN g = 1 .. m + 1 /\ g = [n \in 1 .. m + 1 |-> g[n]]
    OBVIOUS
  <2> HIDE DEF g
  <2>5. IsSearch(g, m + 1, id, parents, kids)
    BY <2>3, <2>4 DEF IsSearch
  <2> QED
    BY <1>2, <2>5
<1> HIDE DEF T
<1>3. 1 .. N \subseteq T
  BY <1>1, <1>2, FromOneOn
<1> QED
  BY <1>3 DEF T

LEMMA SearchIsLast ==
  ASSUME NEW id \in Provinces, NEW parents, NEW kids
  PROVE  \E f : /\ IsSearch(f, Cardinality(Provinces), id, parents, kids)
                /\ Search(id, parents, kids) = f[Cardinality(Provinces)]
<1>1. Cardinality(Provinces) \in Nat \ {0}
  BY FS_CardinalityType, FS_EmptySet, ProvincesAssumption
<1> DEFINE f == CHOOSE f : IsSearch(f, Cardinality(Provinces), id, parents, kids)
<1>2. IsSearch(f, Cardinality(Provinces), id, parents, kids)
  BY <1>1, GenerationsExist
<1>3. Search(id, parents, kids) = f[Cardinality(Provinces)]
  BY DEF Search, IsSearch
<1> QED
  BY <1>2, <1>3

LEMMA GenerationIs ==
  ASSUME NEW parents \in [Provinces -> ProvinceIDs], NEW kids \in [Provinces -> SUBSET Provinces],
         NEW S \in SUBSET Provinces
  PROVE  /\ Generation(S, parents, kids) \in SUBSET Provinces
         /\ S \subseteq Generation(S, parents, kids)
         /\ \A C \in SUBSET Provinces :
              S \subseteq C => Generation(S, parents, kids) \subseteq Generation(C, parents, kids)
BY DEF Generation

\* The search finds the least set that holds its start and the parent and the children
\* of each of its members: there are no more generations than provinces before one that
\* finds nothing new.
LEMMA SearchIsLeast ==
  ASSUME NEW parents \in [Provinces -> ProvinceIDs], NEW kids \in [Provinces -> SUBSET Provinces],
         NEW id \in Provinces
  PROVE  LET found == Search(id, parents, kids)
         IN /\ found \in SUBSET Provinces /\ id \in found
            /\ Generation(found, parents, kids) = found
            /\ \A C \in SUBSET Provinces :
                 id \in C /\ Generation(C, parents, kids) \subseteq C => found \subseteq C
<1> DEFINE N == Cardinality(Provinces)
           Gen(S) == Generation(S, parents, kids)
<1>1. N \in Nat \ {0} /\ IsFiniteSet(Provinces)
  BY FS_CardinalityType, FS_EmptySet, ProvincesAssumption
<1>2. PICK f : IsSearch(f, N, id, parents, kids) /\ Search(id, parents, kids) = f[N]
  BY SearchIsLast
<1>3. f[1] = {id} /\ \A n \in 1 .. N - 1 : f[n + 1] = Gen(f[n])
  <2> HIDE DEF N
  <2>1. \A n \in 1 .. N : f[n] = IF n = 1 THEN {id} ELSE Generation(f[n - 1], parents, kids)
    BY <1>2 DEF IsSearch
  <2>2. 1 \in 1 .. N /\ \A n \in 1 .. N - 1 : n + 1 \in 1 .. N /\ n + 1 # 1 /\ (n + 1) - 1 = n
    BY <1>1
  <2> QED
    BY <2>1, <2>2
<1>4. \A S \in SUBSET Provinces : Gen(S) \in SUBSET Provinces /\ S \subseteq Gen(S)
  BY GenerationIs
<1>5. \A S, C \in SUBSET Provinces : S \subseteq C => Gen(S) \subseteq Gen(C)
  BY GenerationIs
<1> HIDE DEF N, Gen
<1>6. \A n \in 1 .. N : f[n] \in SUBSET Provinces /\ id \in f[n]
  <2> DEFINE T == {n \in 1 .. N : f[n] \in SUBSET Provinces /\ id \in f[n]}
  <2>1. 1 \in T
    BY <1>1, <1>3
  <2>2. ASSUME NEW n \in 1 .. N - 1, n \in T PROVE n + 1 \in T
    BY <1>1, <1>3, <1>4, <2>2
  <2> HIDE DEF T
  <2>3. 1 .. N \subseteq T
    BY <1>1, <2>1, <2>2, FromOneOn
  <2> QED
    BY <2>3 DEF T
<1>7. \A n \in 1 .. N : Gen(f[n]) = f[n] \/ Cardinality(f[n]) >= n
  <2> DEFINE T == {n \in 1 .. N : Gen(f[n]) = f[n] \/ Cardinality(f[n]) >= n}
  <2>1. 1 \in T
    <3>1. Cardinality(f[1]) = 1
      BY <1>3, FS_Singleton
    <3> QED
      BY <1>1, <3>1
  <2>2. ASSUME NEW n \in 1 .. N - 1, n \in T PROVE n + 1 \in T
    <3>0. n \in 1 .. N /\ n + 1 \in 1 .. N /\ f[n + 1] = Gen(f[n])
      BY <1>1, <1>3
    <3>1. CASE Gen(f[n]) = f[n]
      BY <3>0, <3>1
    <3>2. CASE Gen(f[n]) # f[n] /\ Cardinality(f[n]) >= n
      <4>1. f[n] \in SUBSET f[n + 1] /\ f[n] # f[n + 1] /\ f[n + 1] \in SUBSET Provinces
        BY <1>4, <1>6, <3>0, <3>2
      <4>2. IsFiniteSet(f[n + 1])
        BY <1>1, <4>1, FS_Subset
      <4>3. /\ Cardinality(f[n]) <= Cardinality(f[n + 1])
            /\ Cardinality(f[n]) # Cardinality(f[n + 1])
        BY <4>1, <4>2, FS_Subset
      <4>4. Cardinality(f[n]) \in Nat /\ Cardinality(f[n + 1]) \in Nat
        BY <4>1, <4>2, FS_Subset, FS_CardinalityType
      <4>5. Cardinality(f[n + 1]) >= n + 1
        BY <3>2, <4>3, <4>4
      <4> QED
        BY <3>0, <4>5
    <3> QED
      BY <2>2, <3>1, <3>2
  <2> HIDE DEF T
  <2>3. 1 .. N \subseteq T
    BY <1>1, <2>1, <2>2, FromOneOn
  <2> QED
    BY <2>3 DEF T
<1>8. N \in 1 .. N
  BY <1>1
<1>9. Gen(f[N]) = f[N]
  <2>1. f[N] \in SUBSET Provinces
    BY <1>6, <1>8
  <2>2. CASE Cardinality(f[N]) >= N
    <3>1. Cardinality(f[N]) <= N /\ (N = Cardinality(f[N]) => Provinces = f[N])
      BY <1>1, <2>1, FS_Subset DEF N
    <3>2. Cardinality(f[N]) \in Nat
      BY <1>1, <2>1, FS_Subset, FS_CardinalityType
    <3>3. f[N] = Provinces
      BY <1>1, <2>2, <3>1, <3>2
    <3> QED
      BY <1>4, <2>1, <3>3
  <2> QED
    BY <1>7, <1>8, <2>2
<1>10. ASSUME NEW C \in SUBSET Provinces, id \in C, Gen(C) \subseteq C PROVE f[N] \subseteq C
  <2> DEFINE T == {n \in 1 .. N : f[n] \subseteq C}
  <2>1. 1 \in T
    BY <1>1, <1>3, <1>10
  <2>2. ASSUME NEW n \in 1 .. N - 1, n \in T PROVE n + 1 \in T
    <3>1. n \in 1 .. N /\ n + 1 \in 1 .. N /\ f[n + 1] = Gen(f[n])
      BY <1>1, <1>3
    <3>2. Gen(f[n]) \subseteq Gen(C)
      BY <1>5, <1>6, <2>2, <3>1
    <3> QED
      BY <1>10, <3>1, <3>2
  <2> HIDE DEF T
  <2>3. 1 .. N \subseteq T
    BY <1>1, <2>1, <2>2, FromOneOn
  <2> QED
    BY <1>8, <2>3 DEF T
<1> QED
  BY <1>2, <1>6, <1>8, <1>9, <1>10 DEF Gen

-----------------------------------------------------------------------------
(* The trees are a partition into groups.                                  *)

\* R gives every province the root of its tree.
Labels(R, parents) ==
  /\ R \in [Provinces -> Provinces]
  /\ \A p \in Provinces : IF parents[p] = INVALID_PROVINCE THEN R[p] = p ELSE R[p] = R[parents[p]]
  /\ \A p \in Provinces : parents[R[p]] = INVALID_PROVINCE

\* The provinces that R gives the same root.
Classes(R) == {{q \in Provinces : R[q] = R[p]} : p \in Provinces}

Trees(parents) == {Search(r, parents, ChildrenOf(parents)) : r \in Roots(parents)}

\* A search from a root finds its tree.
LEMMA SearchIsTree ==
  ASSUME NEW parents \in [Provinces -> ProvinceIDs], Acyclic(parents),
         NEW R, Labels(R, parents), NEW r \in Roots(parents)
  PROVE  Search(r, parents, ChildrenOf(parents)) = {p \in Provinces : R[p] = r}
<1> DEFINE kids == ChildrenOf(parents)
           found == Search(r, parents, kids)
           C == {p \in Provinces : R[p] = r}
<1>1. kids \in [Provinces -> SUBSET Provinces] /\ r \in Provinces /\ parents[r] = INVALID_PROVINCE
  BY DEF ChildrenOf, Roots
<1>2. \A p, c \in Provinces : c \in kids[p] <=> parents[c] = p
  BY DEF ChildrenOf
<1> HIDE DEF kids, found
<1>3. /\ found \in SUBSET Provinces /\ r \in found
      /\ Generation(found, parents, kids) = found
      /\ \A S \in SUBSET Provinces :
           r \in S /\ Generation(S, parents, kids) \subseteq S => found \subseteq S
  BY <1>1, SearchIsLeast DEF found
<1>4. r \in C
  BY <1>1 DEF Labels
<1>5. Generation(C, parents, kids) \subseteq C
  <2>1. ASSUME NEW x \in C, parents[x] \in Provinces PROVE parents[x] \in C
    BY <2>1, ProvincesAssumption DEF Labels
  <2>2. ASSUME NEW x \in C, NEW c \in kids[x] PROVE c \in C
    BY <1>1, <1>2, <2>2, ProvincesAssumption DEF Labels
  <2> QED
    BY <2>1, <2>2 DEF Generation
<1>6. C \subseteq found
  <2> SUFFICES ASSUME C \ found # {} PROVE FALSE
    OBVIOUS
  <2>1. PICK p \in C \ found : parents[p] \notin C \ found
    BY DEF Acyclic
  <2>2. parents[p] # INVALID_PROVINCE
    BY <1>3, <2>1 DEF Labels
  <2>3. parents[p] \in Provinces /\ R[parents[p]] = r
    BY <2>1, <2>2 DEF Labels, ProvinceIDs
  <2>4. parents[p] \in found /\ p \in kids[parents[p]]
    BY <1>2, <2>1, <2>3
  <2>5. p \in Generation(found, parents, kids)
    BY <2>4 DEF Generation
  <2> QED
    BY <1>3, <2>1, <2>5
<1> QED
  BY <1>3, <1>4, <1>5, <1>6 DEF found, kids

LEMMA TreesAreClasses ==
  ASSUME NEW parents \in [Provinces -> ProvinceIDs], Acyclic(parents), NEW R, Labels(R, parents)
  PROVE  Trees(parents) = Classes(R)
<1>1. \A r \in Roots(parents) : Search(r, parents, ChildrenOf(parents)) = {p \in Provinces : R[p] = r}
  BY SearchIsTree
<1>2. Trees(parents) = {{p \in Provinces : R[p] = r} : r \in Roots(parents)}
  BY <1>1 DEF Trees
<1>3. \A p \in Provinces : R[p] \in Roots(parents)
  BY DEF Labels, Roots
<1>4. \A r \in Roots(parents) : r \in Provinces /\ R[r] = r
  BY DEF Labels, Roots
<1> QED
  BY <1>2, <1>3, <1>4 DEF Classes

\* The groups of the abstract specification are the trees.
LEMMA GroupsAreTrees ==
  ASSUME TreeInv
  PROVE  {getMergedProvinces(r) : r \in Roots(parent_id)} = Trees(parent_id)
BY DEF TreeInv, ParentChildAgree, getMergedProvinces, Roots, Trees

\* Every province has one root, its own or that of its parent.
LEMMA RootsLabel ==
  ASSUME TreeInv
  PROVE  Labels([p \in Provinces |-> Root(p)], parent_id)
<1> DEFINE links == ParentLinks(parent_id)
<1>0. parent_id \in [Provinces -> ProvinceIDs]
  BY DEF TreeInv, TypeOK
<1>1. \A p \in Provinces : HasRoot(p)
  BY AcyclicHasRoot DEF TreeInv, AlwaysAcyclic
<1>2. \A p \in Provinces : Root(p) \in Provinces /\ parent_id[Root(p)] = INVALID_PROVINCE
  BY <1>1, RootIsRoot
<1>3. \A p \in Provinces : parent_id[p] = INVALID_PROVINCE => Root(p) = p
  BY RootOfRoot
<1>4. ASSUME NEW p \in Provinces, parent_id[p] # INVALID_PROVINCE PROVE Root(p) = Root(parent_id[p])
  <2>1. parent_id[p] \in Provinces
    BY <1>0, <1>4 DEF ProvinceIDs
  <2>2. \A x \in Provinces : Root(x) \in Reach(x, links) /\ parent_id[Root(x)] = INVALID_PROVINCE
    BY <1>1 DEF HasRoot, Root, Above
  <2>3. Root(p) # p
    BY <1>2, <1>4
  <2>4. Root(p) \in Reach(parent_id[p], links)
    BY <1>0, <2>1, <2>2, <2>3, ReachOfParent
  <2> QED
    BY <1>0, <2>1, <2>2, <2>4, OneRoot
<1> QED
  BY <1>0, <1>2, <1>3, <1>4 DEF Labels, ProvinceIDs

\* Partitions that differ in who is with whom as a merge, and as an unmerge, wants it.
LEMMA ClassesJoined ==
  ASSUME NEW R \in [Provinces -> Provinces], NEW r1 \in Provinces, NEW r2 \in Provinces,
         R[r1] = r1, R[r2] = r2, r1 # r2
  PROVE  Classes([p \in Provinces |-> IF R[p] = r1 THEN r2 ELSE R[p]]) \in Groups!Joined(Classes(R))
<1> DEFINE R2 == [p \in Provinces |-> IF R[p] = r1 THEN r2 ELSE R[p]]
           Of(p) == {q \in Provinces : R[q] = R[p]}
           Of2(p) == {q \in Provinces : R2[q] = R2[p]}
<1>1. \A p \in Provinces : Of2(p) = IF R[p] \in {r1, r2} THEN Of(r1) \union Of(r2) ELSE Of(p)
  OBVIOUS
<1>2. \A p \in Provinces : Of(p) \in {Of(r1), Of(r2)} <=> R[p] \in {r1, r2}
  <2>1. \A p, q \in Provinces : Of(p) = Of(q) <=> R[p] = R[q]
    OBVIOUS
  <2> QED
    BY <2>1
<1>3. Classes(R) = {Of(p) : p \in Provinces} /\ Classes(R2) = {Of2(p) : p \in Provinces}
  BY DEF Classes
<1> HIDE DEF Of, Of2, R2
<1>4. Classes(R2) = (Classes(R) \ {Of(r1), Of(r2)}) \union {Of(r1) \union Of(r2)}
  <2>1. \A x : x \in Classes(R2) => x \in (Classes(R) \ {Of(r1), Of(r2)}) \union {Of(r1) \union Of(r2)}
    BY <1>1, <1>2, <1>3
  <2>2. \A x : x \in Classes(R) \ {Of(r1), Of(r2)} => x \in Classes(R2)
    BY <1>1, <1>2, <1>3
  <2>3. Of(r1) \union Of(r2) \in Classes(R2)
    BY <1>1, <1>3
  <2> QED
    BY <2>1, <2>2, <2>3
<1>5. Of(r1) \in Classes(R) /\ Of(r2) \in Classes(R)
  BY <1>3
<1> QED
  BY <1>4, <1>5 DEF Groups!Joined, R2

LEMMA ClassesSeparated ==
  ASSUME NEW R \in [Provinces -> Provinces], NEW R2 \in [Provinces -> Provinces], NEW id \in Provinces,
         \A p, q \in Provinces \ {id} : R2[p] = R2[q] <=> R[p] = R[q],
         \A p \in Provinces \ {id} : R2[p] # R2[id]
  PROVE  Classes(R2) \in Groups!Separated(Classes(R))
<1> DEFINE Of(p) == {q \in Provinces : R[q] = R[p]}
           Of2(p) == {q \in Provinces : R2[q] = R2[p]}
<1>1. Of2(id) = {id} /\ \A p \in Provinces \ {id} : Of2(p) = Of(p) \ {id} /\ Of(p) # {id}
  OBVIOUS
<1>2. Classes(R) = {Of(p) : p \in Provinces} /\ Classes(R2) = {Of2(p) : p \in Provinces}
  BY DEF Classes
<1>3. ASSUME Of(id) # {id} PROVE \E p \in Provinces \ {id} : Of(id) = Of(p)
  <2>1. id \in Of(id)
    OBVIOUS
  <2>2. PICK p \in Of(id) : p # id
    BY <1>3, <2>1
  <2> QED
    BY <2>2
<1> HIDE DEF Of, Of2
<1> DEFINE parts == {G \ {id} : G \in Classes(R) \ {{id}}} \union {{id}}
<1>4. \A x : x \in Classes(R2) => x \in parts
  BY <1>1, <1>2
<1>5. ASSUME NEW G \in Classes(R) \ {{id}} PROVE G \ {id} \in Classes(R2)
  <2>1. PICK p \in Provinces : G = Of(p)
    BY <1>2, <1>5
  <2>2. PICK q \in Provinces \ {id} : G = Of(q)
    BY <1>3, <1>5, <2>1
  <2> QED
    BY <1>1, <1>2, <2>2
<1>6. {id} \in Classes(R2)
  BY <1>1, <1>2
<1>7. Classes(R2) = parts
  <2>1. \A x : x \in parts => x \in Classes(R2)
    BY <1>5, <1>6
  <2> HIDE DEF parts
  <2> QED
    BY <1>4, <2>1
<1> QED
  BY <1>7 DEF Groups!Separated

\* A step after which R2 labels the trees changes the groups from the classes of the roots
\* to those of R2.
LEMMA GroupsChange ==
  ASSUME TreeInv, TreeInv', NEW R2, Labels(R2, parent_id')
  PROVE  /\ {getMergedProvinces(r) : r \in Roots(parent_id)} = Classes([p \in Provinces |-> Root(p)])
         /\ {getMergedProvinces(r) : r \in Roots(parent_id)}' = Classes(R2)
<1>1. /\ parent_id \in [Provinces -> ProvinceIDs] /\ Acyclic(parent_id)
      /\ parent_id' \in [Provinces -> ProvinceIDs] /\ Acyclic(parent_id')
  BY DEF TreeInv, TypeOK, AlwaysAcyclic, Acyclic
<1>2. Trees(parent_id) = Classes([p \in Provinces |-> Root(p)])
  BY <1>1, RootsLabel, TreesAreClasses
<1>3. Trees(parent_id') = Classes(R2)
  BY <1>1, TreesAreClasses
<1>4. TreeInv => {getMergedProvinces(r) : r \in Roots(parent_id)} = Trees(parent_id)
  BY GroupsAreTrees
<1>5. {getMergedProvinces(r) : r \in Roots(parent_id)}' = Trees(parent_id')
  BY DEF TreeInv, ParentChildAgree, getMergedProvinces, Roots, Trees
<1> QED
  BY <1>2, <1>3, <1>4, <1>5

LEMMA LinkRefines ==
  ASSUME TreeInv, TreeInv',
         NEW r1 \in Provinces, parent_id[r1] = INVALID_PROVINCE,
         NEW r2 \in Provinces, parent_id[r2] = INVALID_PROVINCE,
         r1 # r2, Link(r1, r2)
  PROVE  Groups!Join
<1> DEFINE R == [p \in Provinces |-> Root(p)]
           R2 == [p \in Provinces |-> IF R[p] = r1 THEN r2 ELSE R[p]]
<1>1. parent_id' = [parent_id EXCEPT ![r1] = r2] /\ saved' = saved
  BY DEF Link
<1>2. Labels(R, parent_id) /\ parent_id \in [Provinces -> ProvinceIDs]
  BY RootsLabel DEF TreeInv, TypeOK
<1> HIDE DEF R
<1>3. Labels(R2, parent_id')
  <2>1. \A p \in Provinces : parent_id'[p] = IF p = r1 THEN r2 ELSE parent_id[p]
    BY <1>1, <1>2
  <2>2. R \in [Provinces -> Provinces] /\ R2 \in [Provinces -> Provinces] /\ R[r1] = r1 /\ R[r2] = r2
    BY <1>2 DEF Labels
  <2>3. ASSUME NEW p \in Provinces
        PROVE  IF parent_id'[p] = INVALID_PROVINCE THEN R2[p] = p ELSE R2[p] = R2[parent_id'[p]]
    <3>1. CASE p = r1
      BY <2>1, <2>2, <3>1, ProvincesAssumption
    <3>2. CASE p # r1 /\ parent_id[p] = INVALID_PROVINCE
      BY <1>2, <2>1, <3>2 DEF Labels
    <3>3. CASE p # r1 /\ parent_id[p] # INVALID_PROVINCE
      <4>1. R[p] = R[parent_id[p]] /\ parent_id[p] \in Provinces
        BY <1>2, <3>3 DEF Labels, ProvinceIDs
      <4> QED
        BY <2>1, <3>3, <4>1
    <3> QED
      BY <3>1, <3>2, <3>3
  <2>4. \A p \in Provinces : parent_id'[R2[p]] = INVALID_PROVINCE
    BY <1>2, <2>1, <2>2 DEF Labels
  <2> QED
    BY <2>2, <2>3, <2>4 DEF Labels
<1>4. Classes(R2) \in Groups!Joined(Classes(R))
  <2>1. R \in [Provinces -> Provinces] /\ R[r1] = r1 /\ R[r2] = r2
    BY <1>2 DEF Labels
  <2> QED
    BY <2>1, ClassesJoined
<1> HIDE DEF R2
<1>5. /\ {getMergedProvinces(r) : r \in Roots(parent_id)} = Classes(R)
      /\ {getMergedProvinces(r) : r \in Roots(parent_id)}' = Classes(R2)
  BY <1>3, GroupsChange DEF R
<1> QED
  BY <1>1, <1>4, <1>5 DEF Groups!Join, Roots

\* An unmerge takes one province out and leaves the others together.
LEMMA UnmergeRefines ==
  ASSUME TreeInv, TreeInv', saved' = saved, NEW id \in Provinces,
         NEW R2, Labels(R2, parent_id'),
         \A p, q \in Provinces \ {id} : R2[p] = R2[q] <=> Root(p) = Root(q),
         \A p \in Provinces \ {id} : R2[p] # R2[id]
  PROVE  Groups!Separate
<1> DEFINE R == [p \in Provinces |-> Root(p)]
<1>1. R \in [Provinces -> Provinces] /\ R2 \in [Provinces -> Provinces]
  BY RootsLabel DEF Labels
<1>2. \A p, q \in Provinces \ {id} : R2[p] = R2[q] <=> R[p] = R[q]
  OBVIOUS
<1>3. Classes(R2) \in Groups!Separated(Classes(R))
  <2> HIDE DEF R
  <2> QED
    BY <1>1, <1>2, ClassesSeparated
<1>4. /\ {getMergedProvinces(r) : r \in Roots(parent_id)} = Classes(R)
      /\ {getMergedProvinces(r) : r \in Roots(parent_id)}' = Classes(R2)
  BY GroupsChange
<1> QED
  BY <1>3, <1>4 DEF Groups!Separate, Roots

LEMMA UnmergeRootRefines ==
  ASSUME TreeInv, TreeInv',
         NEW id \in Provinces, parent_id[id] = INVALID_PROVINCE,
         children[id] # {}, UnmergeRoot(id)
  PROVE  Groups!Separate
<1> DEFINE new == Front(children[id])
           R == [p \in Provinces |-> Root(p)]
           R2 == [p \in Provinces |-> IF p = id THEN id ELSE IF R[p] = id THEN new ELSE R[p]]
<1>1. /\ parent_id' = [p \in Provinces |->
                         IF p = new THEN INVALID_PROVINCE
                         ELSE IF p \in children[id] \ {new} THEN new
                         ELSE parent_id[p]]
      /\ saved' = saved
  BY DEF UnmergeRoot
<1>2. Labels(R, parent_id) /\ parent_id \in [Provinces -> ProvinceIDs]
  BY RootsLabel DEF TreeInv, TypeOK
<1>3. new \in children[id] /\ children[id] = {c \in Provinces : parent_id[c] = id}
  BY FrontIsIn DEF TreeInv, TypeOK, ParentChildAgree, ChildrenOf
<1>4. new \in Provinces /\ parent_id[new] = id /\ new # id
  BY <1>3, ProvincesAssumption
<1>5. \A p \in Provinces : R[p] = Root(p)
  OBVIOUS
<1> HIDE DEF R, new
<1>6. \A p \in Provinces :
        parent_id'[p] = IF p = new THEN INVALID_PROVINCE
                        ELSE IF parent_id[p] = id THEN new ELSE parent_id[p]
  BY <1>1, <1>3
<1>7. R \in [Provinces -> Provinces] /\ R[id] = id /\ R[new] = id /\ R2 \in [Provinces -> Provinces]
  BY <1>2, <1>4, ProvincesAssumption DEF Labels
<1>8. Labels(R2, parent_id')
  <2>1. ASSUME NEW p \in Provinces
        PROVE  IF parent_id'[p] = INVALID_PROVINCE THEN R2[p] = p ELSE R2[p] = R2[parent_id'[p]]
    <3>1. CASE p = new
      BY <1>4, <1>6, <1>7, <3>1
    <3>2. CASE p # new /\ parent_id[p] = id
      <4>1. R[p] = id /\ p # id /\ parent_id'[p] = new
        BY <1>2, <1>6, <1>7, <3>2, ProvincesAssumption DEF Labels
      <4> QED
        BY <1>4, <1>7, <4>1, ProvincesAssumption
    <3>3. CASE p # new /\ parent_id[p] = INVALID_PROVINCE
      BY <1>2, <1>6, <3>3, ProvincesAssumption DEF Labels
    <3>4. CASE p # new /\ parent_id[p] # id /\ parent_id[p] # INVALID_PROVINCE
      <4>1. R[p] = R[parent_id[p]] /\ parent_id[p] \in Provinces /\ parent_id'[p] = parent_id[p]
        BY <1>2, <1>6, <3>4 DEF Labels, ProvinceIDs
      <4> QED
        BY <3>4, <4>1
    <3> QED
      BY <3>1, <3>2, <3>3, <3>4
  <2>2. \A p \in Provinces : parent_id'[R2[p]] = INVALID_PROVINCE
    <3>1. \A p \in Provinces : parent_id[R[p]] = INVALID_PROVINCE
      BY <1>2 DEF Labels
    <3> QED
      BY <1>4, <1>6, <1>7, <3>1, ProvincesAssumption
  <2> QED
    BY <1>7, <2>1, <2>2 DEF Labels
<1>9. \A p \in Provinces \ {id} : R[p] # new
  BY <1>2, <1>4, ProvincesAssumption DEF Labels
<1>10. \A p, q \in Provinces \ {id} : R2[p] = R2[q] <=> R[p] = R[q]
  BY <1>9
<1>11. \A p \in Provinces \ {id} : R2[p] # R2[id]
  BY <1>4
<1> HIDE DEF R2
<1> QED
  BY <1>1, <1>5, <1>8, <1>10, <1>11, UnmergeRefines

LEMMA UnmergeMemberRefines ==
  ASSUME TreeInv, TreeInv',
         NEW id \in Provinces, parent_id[id] \in Provinces,
         parent_id[parent_id[id]] = INVALID_PROVINCE, UnmergeMember(id)
  PROVE  Groups!Separate
<1> DEFINE root == parent_id[id]
           R == [p \in Provinces |-> Root(p)]
           R2 == [p \in Provinces |-> IF p = id THEN id ELSE R[p]]
<1>1. /\ parent_id' = [p \in Provinces |->
                         IF p = id THEN INVALID_PROVINCE
                         ELSE IF p \in children[id] THEN root
                         ELSE parent_id[p]]
      /\ saved' = saved
  BY DEF UnmergeMember
<1>2. Labels(R, parent_id) /\ parent_id \in [Provinces -> ProvinceIDs]
  BY RootsLabel DEF TreeInv, TypeOK
<1>3. children[id] = {c \in Provinces : parent_id[c] = id}
  BY DEF TreeInv, TypeOK, ParentChildAgree, ChildrenOf
<1>4. root \in Provinces /\ root # id
  BY ProvincesAssumption
<1>5. \A p \in Provinces : R[p] = Root(p)
  OBVIOUS
<1> HIDE DEF R
<1>6. \A p \in Provinces :
        parent_id'[p] = IF p = id THEN INVALID_PROVINCE
                        ELSE IF parent_id[p] = id THEN root ELSE parent_id[p]
  BY <1>1, <1>3
<1>7. R \in [Provinces -> Provinces] /\ R[id] = root /\ R[root] = root /\ R2 \in [Provinces -> Provinces]
  BY <1>2, <1>4, ProvincesAssumption DEF Labels
<1>8. Labels(R2, parent_id')
  <2>1. ASSUME NEW p \in Provinces
        PROVE  IF parent_id'[p] = INVALID_PROVINCE THEN R2[p] = p ELSE R2[p] = R2[parent_id'[p]]
    <3>1. CASE p = id
      BY <1>6, <3>1
    <3>2. CASE p # id /\ parent_id[p] = id
      <4>1. R[p] = root /\ parent_id'[p] = root
        BY <1>2, <1>6, <1>7, <3>2, ProvincesAssumption DEF Labels
      <4> QED
        BY <1>4, <1>7, <3>2, <4>1, ProvincesAssumption
    <3>3. CASE p # id /\ parent_id[p] = INVALID_PROVINCE
      BY <1>2, <1>6, <3>3, ProvincesAssumption DEF Labels
    <3>4. CASE p # id /\ parent_id[p] # id /\ parent_id[p] # INVALID_PROVINCE
      <4>1. R[p] = R[parent_id[p]] /\ parent_id[p] \in Provinces /\ parent_id'[p] = parent_id[p]
        BY <1>2, <1>6, <3>4 DEF Labels, ProvinceIDs
      <4> QED
        BY <3>4, <4>1
    <3> QED
      BY <3>1, <3>2, <3>3, <3>4
  <2>2. \A p \in Provinces : R[p] # id /\ parent_id[R[p]] = INVALID_PROVINCE
    BY <1>2, <1>4, ProvincesAssumption DEF Labels
  <2>3. \A p \in Provinces : parent_id'[R2[p]] = INVALID_PROVINCE
    BY <1>6, <1>7, <2>2, ProvincesAssumption
  <2> QED
    BY <1>7, <2>1, <2>3 DEF Labels
<1>9. \A p \in Provinces \ {id} : R2[p] # R2[id]
  BY <1>2, <1>4, ProvincesAssumption DEF Labels
<1>10. \A p, q \in Provinces \ {id} : R2[p] = R2[q] <=> R[p] = R[q]
  OBVIOUS
<1> HIDE DEF R2
<1> QED
  BY <1>1, <1>5, <1>8, <1>9, <1>10, UnmergeRefines

LEMMA GroupsInit == Init => Groups!Init
<1> SUFFICES ASSUME Init PROVE Groups!Init
  OBVIOUS
<1> DEFINE R == [p \in Provinces |-> p]
<1>1. TreeInv
  BY TreeInvInit
<1>2. Labels(R, parent_id)
  BY DEF Init, Labels
<1>3. Trees(parent_id) = Classes(R)
  BY <1>1, <1>2, TreesAreClasses DEF TreeInv, TypeOK, AlwaysAcyclic
<1>4. Classes(R) = {{p} : p \in Provinces}
  BY DEF Classes
<1>5. {getMergedProvinces(r) : r \in Roots(parent_id)} = Trees(parent_id)
  BY <1>1, GroupsAreTrees
<1>6. {Search(r, saved, ChildrenOf(saved)) : r \in Roots(saved)} = Trees(parent_id)
  BY DEF Init, Trees
<1> QED
  BY <1>3, <1>4, <1>5, <1>6 DEF Groups!Init

\* A call that returns an error leaves the groups.
LEMMA RejectsStutters ==
  ASSUME UNCHANGED <<parent_id, children, saved>>
  PROVE  UNCHANGED Groups!groupVars
BY DEF Groups!groupVars, getMergedProvinces, Roots

LEMMA GroupsNext ==
  ASSUME TreeInv, TreeInv', [ShallowNext]_vars
  PROVE  [Groups!Next]_(Groups!groupVars)
<1>1. \A id \in Provinces : HasRoot(id)
  BY AcyclicHasRoot DEF TreeInv, AlwaysAcyclic
<1>2. \A id \in Provinces : ~RootFails(id)
  BY <1>1 DEF RootFails
<1>3. ASSUME NEW code, Rejects(code) PROVE UNCHANGED Groups!groupVars
  BY <1>3, RejectsStutters DEF Rejects
<1>4. ASSUME NEW id1 \in ProvinceIDs, NEW id2 \in ProvinceIDs, mergeProvinces(id1, id2)
      PROVE  Groups!Join \/ UNCHANGED Groups!groupVars
  <2>1. CASE \E code : Rejects(code)
    BY <1>3, <2>1
  <2>2. CASE ~\E code : Rejects(code)
    <3>1. /\ id1 \in Provinces /\ id2 \in Provinces
          /\ Root(id1) # Root(id2)
          /\ Link(Root(id1), Root(id2))
      BY <1>2, <1>4, <2>2 DEF mergeProvinces, SameTree
    <3>2. /\ Root(id1) \in Provinces /\ parent_id[Root(id1)] = INVALID_PROVINCE
          /\ Root(id2) \in Provinces /\ parent_id[Root(id2)] = INVALID_PROVINCE
      BY <1>1, <3>1, RootIsRoot
    <3> QED
      BY <3>1, <3>2, LinkRefines
  <2> QED
    BY <2>1, <2>2
<1>5. ASSUME NEW id \in ProvinceIDs, Shallow(id), unmergeProvince(id)
      PROVE  Groups!Separate \/ UNCHANGED Groups!groupVars
  <2>1. CASE \E code : Rejects(code)
    BY <1>3, <2>1
  <2>2. CASE ~\E code : Rejects(code)
    <3>1. CASE /\ id \in Provinces /\ parent_id[id] = INVALID_PROVINCE
               /\ children[id] # {} /\ UnmergeRoot(id)
      BY <3>1, UnmergeRootRefines
    <3>2. CASE /\ id \in Provinces /\ parent_id[id] # INVALID_PROVINCE
               /\ UnmergeMember(id)
      <4>1. parent_id[id] \in Provinces
        BY <3>2 DEF TreeInv, TypeOK, ProvinceIDs
      <4>2. parent_id[parent_id[id]] = INVALID_PROVINCE
        BY <1>5, <3>2, <4>1 DEF Shallow
      <4> QED
        BY <3>2, <4>1, <4>2, UnmergeMemberRefines
    <3>3. id \in Provinces /\ parent_id[id] # INVALID_PROVINCE => ~RootFails(parent_id[id])
      BY <1>2 DEF TreeInv, TypeOK, ProvinceIDs
    <3> QED
      BY <1>5, <2>2, <3>1, <3>2, <3>3 DEF unmergeProvince
  <2> QED
    BY <2>1, <2>2
<1>6. CASE Save
  <2>1. {getMergedProvinces(r) : r \in Roots(parent_id)} = Trees(parent_id)
    BY GroupsAreTrees
  <2>2. {Search(r, saved, ChildrenOf(saved)) : r \in Roots(saved)}' = Trees(parent_id)
    BY <1>6 DEF Save, Trees, ChildrenOf, Roots
  <2>3. UNCHANGED {getMergedProvinces(r) : r \in Roots(parent_id)}
    BY <1>6 DEF Save, getMergedProvinces, Roots
  <2> QED
    BY <2>1, <2>2, <2>3 DEF Groups!Save, Groups!Next
<1>7. CASE Load
  <2>1. {Search(r, saved, ChildrenOf(saved)) : r \in Roots(saved)} = Trees(saved)
    BY DEF Trees
  <2>2. {getMergedProvinces(r) : r \in Roots(parent_id)}' = Trees(saved)
    BY <1>7 DEF Load, getMergedProvinces, Roots, Trees
  <2>3. {Search(r, saved, ChildrenOf(saved)) : r \in Roots(saved)}' = Trees(saved)
    BY <1>7 DEF Load, Trees, Roots
  <2> QED
    BY <2>1, <2>2, <2>3 DEF Groups!Restore, Groups!Next
<1>8. CASE UNCHANGED vars
  BY <1>8, RejectsStutters DEF vars
<1> QED
  BY <1>4, <1>5, <1>6, <1>7, <1>8 DEF ShallowNext, Groups!Next

\* The trees implement groups that are joined and separated: whatever calls the unit
\* tests make, in any order, saving and loading included, a merge joins two groups as
\* wholes and an unmerge takes out one province and leaves the others together.
THEOREM TreesImplementGroups == ShallowSpec => GroupsSpec
<1>1. TreeInv /\ TreeInv' /\ [ShallowNext]_vars => [Groups!Next]_(Groups!groupVars)
  BY GroupsNext
<1> QED
  BY <1>1, GroupsInit, TreeInvAlways, PTL DEF ShallowSpec, GroupsSpec, Groups!Spec
=============================================================================
