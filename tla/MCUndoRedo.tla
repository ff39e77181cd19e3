---------------------------- MODULE MCUndoRedo ----------------------------
(* Two provinces with a common border and one name for continents.        *)
EXTENDS UndoRedo

TwoProvinces == {"p1", "p2"}
Border       == {<<"p1", "p2">>, <<"p2", "p1">>}
OneName      == {"Europe"}
=============================================================================
