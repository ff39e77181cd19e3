------------------------------ MODULE Timeline ------------------------------
(***************************************************************************)
(* What undo and redo promise, without actions: the versions of a project  *)
(* lie on a line on which the user goes back and forth, one step at a      *)
(* time.  An edit drops the versions ahead and adds new ones.              *)
(***************************************************************************)
EXTENDS Naturals, Sequences

VARIABLES
  versions,    \* the versions that can be reached
  now          \* the place of the present one

timelineVars == <<versions, now>>

Edit ==
  /\ now' \in {now + 1, now + 2}
  /\ Len(versions') = now'
  /\ \A n \in 1 .. now : versions'[n] = versions[n]

Undo == now > 1 /\ now' = now - 1 /\ UNCHANGED versions

Redo == now < Len(versions) /\ now' = now + 1 /\ UNCHANGED versions

Init == now = 1 /\ Len(versions) = 1

Next == Edit \/ Undo \/ Redo

Spec == Init /\ [][Next]_timelineVars
=============================================================================
