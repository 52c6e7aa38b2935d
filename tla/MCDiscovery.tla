---------------------------- MODULE MCDiscovery ----------------------------
(* Two machines; in the second instance the address of a third, switched off,*)
(* is in the bootstrap lists.                                                *)
EXTENDS Discovery

CONSTANTS a, b, off, t1, t2

Pair       == {a, b}
WithAbsent == {a, b, off}
OnlyA      == {a}
Nobody     == {}
OneTask    == [n \in Nodes |-> {t1}]
TwoTasksOfB == [n \in Nodes |-> IF n = b THEN {t1, t2} ELSE {t1}]
ListOfA    == [n \in Nodes |-> IF n = a THEN <<b>> ELSE <<>>]
ListsOff   == [n \in Nodes |-> CASE n = a -> <<b, off>>
                                 [] n = b -> <<a, off>>
                                 [] n = off -> <<>>]
BudgetOf(stops, losses, flaps) ==
  [k \in External |-> CASE k = "stop" -> stops
                        [] k = "loss" -> losses
                        [] k = "flap" -> flaps]
Troubles  == {BudgetOf(1, 0, 0), BudgetOf(0, 1, 1)}
NoTrouble == {BudgetOf(0, 0, 0)}
=============================================================================
