----------------------------- MODULE RunProtocol -----------------------------
(***************************************************************************)
(* What a reader of the event log may rely on: a run announces the events  *)
(* of its kind one by one and in order, ends once, and ends well only when *)
(* all of them have been announced.                                        *)
(***************************************************************************)
EXTENDS Naturals, Sequences

CONSTANTS
  Runs,    \* the runs
  Events   \* what can be announced

VARIABLES
  expected,  \* for each run the topics it announces when nothing fails
  trace,     \* for each run the topics announced so far
  outcome    \* for each run "open", "ok" or "failed"

Init ==
  /\ expected \in [Runs -> Seq(Events)]
  /\ trace = [r \in Runs |-> <<>>]
  /\ outcome = [r \in Runs |-> "open"]

Announce(r) ==
  /\ outcome[r] = "open"
  /\ Len(trace[r]) < Len(expected[r])
  /\ trace' = [trace EXCEPT ![r] = Append(@, expected[r][Len(@) + 1])]
  /\ UNCHANGED <<expected, outcome>>

End(r, how) ==
  /\ outcome[r] = "open"
  /\ how = "ok" => trace[r] = expected[r]
  /\ outcome' = [outcome EXCEPT ![r] = how]
  /\ UNCHANGED <<expected, trace>>

Next == \E r \in Runs : Announce(r) \/ \E how \in {"ok", "failed"} : End(r, how)

Spec == Init /\ [][Next]_<<expected, trace, outcome>>

=============================================================================
