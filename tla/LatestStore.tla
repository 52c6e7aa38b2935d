---------------------------- MODULE LatestStore ----------------------------
(***************************************************************************)
(* What the synchronisation promises about the stores, without threads,    *)
(* messages or peers: every node keeps at most one item per author, an     *)
(* item the author really published, and while the node runs an author's   *)
(* slot never goes back to an older item.  A node may forget everything    *)
(* (its process restarts) and is never obliged to adopt anything.          *)
(***************************************************************************)
EXTENDS Integers

CONSTANTS
  Nodes,    \* the machines, each an author and a keeper
  Payloads, \* what can be published
  Stamps,   \* the readings of the authors' clocks
  None      \* an empty slot

Items == [clip : Payloads, timestamp : Stamps]

VARIABLES
  authored, \* the items each author has published so far
  latest    \* latest[n][a]: what n keeps of author a

vars == <<authored, latest>>

Init == /\ authored = [a \in Nodes |-> {}]
        /\ latest = [n \in Nodes |-> [a \in Nodes |-> None]]

Author(a, i) == /\ authored' = [authored EXCEPT ![a] = @ \cup {i}]
                /\ UNCHANGED latest

(* A tie is adopted: the later arrival wins. *)
NotOlder(n, a, i) == latest[n][a] = None \/ i.timestamp >= latest[n][a].timestamp

Adopt(n, a, i) == /\ i \in authored[a]
                  /\ NotOlder(n, a, i)
                  /\ latest' = [latest EXCEPT ![n][a] = i]
                  /\ UNCHANGED authored

Forget(n) == /\ latest' = [latest EXCEPT ![n] = [a \in Nodes |-> None]]
             /\ UNCHANGED authored

Next == \E n \in Nodes : \/ \E i \in Items : Author(n, i)
                         \/ \E a \in Nodes, i \in Items : Adopt(n, a, i)
                         \/ Forget(n)

Spec == Init /\ [][Next]_vars
=============================================================================
