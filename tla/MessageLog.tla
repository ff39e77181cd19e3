----------------------------- MODULE MessageLog -----------------------------
(***************************************************************************)
(* What the logger promises: every message that is logged is eventually    *)
(* output to every sink, once, in the order in which they were logged.     *)
(***************************************************************************)
EXTENDS Naturals, Sequences

CONSTANTS Sinks, Messages

VARIABLES
  logged,   \* the messages, in the order they were logged
  output    \* what every sink has been given

logVars == <<logged, output>>

Log(m) == logged' = Append(logged, m) /\ UNCHANGED output

Output(s) ==
  /\ Len(output[s]) < Len(logged)
  /\ output' = [output EXCEPT ![s] = Append(@, logged[Len(@) + 1])]
  /\ UNCHANGED logged

Init == logged = <<>> /\ output = [s \in Sinks |-> <<>>]

Next == \/ \E m \in Messages : Log(m)
        \/ \E s \in Sinks : Output(s)

Spec == Init /\ [][Next]_logVars /\ \A s \in Sinks : WF_logVars(Output(s))
=============================================================================
