---------------------------- MODULE MergeGroups ----------------------------
(***************************************************************************)
(* What merging promises its callers, without trees: the provinces of the  *)
(* map are partitioned into groups.  Merging joins two groups, unmerging   *)
(* takes one province out of its group and leaves the others together, and *)
(* opening the saved project brings back the groups that were saved.       *)
(***************************************************************************)
CONSTANT Provinces

VARIABLES
  groups,        \* the groups: sets of provinces that are merged with one another
  savedGroups    \* the groups of the saved project

groupVars == <<groups, savedGroups>>

\* The partitions one merge, or one unmerge, away from a partition.
Joined(parts) ==
  {(parts \ {G, H}) \union {G \union H} : G, H \in parts}

Separated(parts) ==
  {{G \ {a} : G \in parts \ {{a}}} \union {{a}} : a \in Provinces}

Join == groups' \in Joined(groups) /\ UNCHANGED savedGroups

Separate == groups' \in Separated(groups) /\ UNCHANGED savedGroups

Save == savedGroups' = groups /\ UNCHANGED groups

Restore == groups' = savedGroups /\ UNCHANGED savedGroups

Init ==
  /\ groups = {{p} : p \in Provinces}
  /\ savedGroups = groups

Next == Join \/ Separate \/ Save \/ Restore

Spec == Init /\ [][Next]_groupVars
=============================================================================
