-------------------------- MODULE MCProvinceMerge --------------------------
(* Small maps for the runs about merged provinces.                         *)
EXTENDS ProvinceMerge

ThreeProvinces == 1..3    \* the least map on which a tree has three levels
FourProvinces  == 1..4    \* a tree of three levels and a province beside it
=============================================================================
