------------------------------- MODULE VaultMap -------------------------------
(***************************************************************************)
(* What the users of the vault rely on: a map from names to values that is *)
(* changed one name at a time and read as it is, and lost as a whole or    *)
(* not at all.                                                             *)
(***************************************************************************)
EXTENDS Naturals

CONSTANTS Threads, Names, Values, NoValue

VARIABLES
  map,    \* name -> value, or NoValue
  answer, \* thread -> what its last get returned
  losses  \* how often everything was lost

Init ==
  /\ map = [n \in Names |-> NoValue]
  /\ answer = [t \in Threads |-> NoValue]
  /\ losses = 0

Set(n, v) == map' = [map EXCEPT ![n] = v] /\ UNCHANGED <<answer, losses>>

Get(t, n) == answer' = [answer EXCEPT ![t] = map[n]] /\ UNCHANGED <<map, losses>>

Lose == map' = [n \in Names |-> NoValue] /\ losses' = losses + 1 /\ UNCHANGED answer

Next ==
  \/ Lose
  \/ \E n \in Names, v \in Values \cup {NoValue} : Set(n, v)
  \/ \E t \in Threads, n \in Names : Get(t, n)

Spec == Init /\ [][Next]_<<map, answer, losses>>

=============================================================================
