-------------------------- MODULE MCClipboardSync --------------------------
(* Small instances of ClipboardSync: one machine with a hotkey and one under *)
(* Wayland; two texts, where the second is the first with a blank at its end, *)
(* or one text; one file and its downloaded copy.                            *)
EXTENDS ClipboardSync

CONSTANTS hot, way, t1, t2, f, g

MixedNodes   == {hot, way}
OneWayland   == {way}
BothWayland  == {hot, way}
TwoTexts     == {t1, t2}
OneText      == {t1}
NoPaths      == {}
FileAndCopy  == {f, g}
SameCopy     == [p \in Paths |-> IF Cardinality(Paths) = 2 THEN g ELSE p]
(* The Wayland machine strips the second text, which becomes the first. *)
StripsAtWay  == [n \in Nodes |-> [c \in Clips |->
                   IF n = way /\ c.value = t2 THEN [c EXCEPT !.value = t1] ELSE c]]
(* Every machine reads a text as it was written. *)
ReadsAll     == [n \in Nodes |-> [c \in Clips |-> c]]
NothingLong  == [n \in Nodes |-> {}]
LongAtHot    == [n \in Nodes |-> IF n = hot THEN {[type |-> "text", value |-> t1]} ELSE {}]

BudgetOf(copies, hotkeys, churns, restarts, faults) ==
  [k \in External |-> CASE k = "copy" -> copies
                        [] k = "hotkey" -> hotkeys
                        [] k = "churn" -> churns
                        [] k = "restart" -> restarts
                        [] k = "fault" -> faults]
EachOther    == [n \in Nodes |-> Nodes \ {n}]
Faulty  == {BudgetOf(1, 0, 1, 1, 1)}
TwoCopies == {BudgetOf(2, 0, 1, 0, 0)}
Traffic == TwoCopies \cup {BudgetOf(1, 2, 0, 0, 0)}
=============================================================================
