------------------------------ MODULE MCStates ------------------------------
(* Small maps for the runs about states.                                   *)
EXTENDS States

TwoProvinces == {"p", "q"}
=============================================================================
