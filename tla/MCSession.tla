----------------------------- MODULE MCSession -----------------------------
(* Small instances of Session for TLC.                                     *)
EXTENDS Session

ThreeProvinces == 1 .. 3
OneProvince == {4}

\* Which states are selected is read by no guard, no other assignment and no property.
\* Two sessions that differ only in it need not both be followed.
ButSelectedStates ==
  <<[session EXCEPT !.selected_states = {}], loads, enabled, shown_map, tidy>>
=============================================================================
