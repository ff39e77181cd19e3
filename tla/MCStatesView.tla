---------------------------- MODULE MCStatesView ----------------------------
(* A small map for the run about states and the states view.  Its provinces *)
(* differ in nothing but their names.                                      *)
EXTENDS StatesView, TLC

CONSTANTS p, q, r

ThreeProvinces == {p, q, r}
Renamings      == Permutations(ThreeProvinces)
=============================================================================
