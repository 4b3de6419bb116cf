----------------------------- MODULE MCMctsTree -----------------------------
(***************************************************************************)
(* A root with two actions: the constraints refuse the second (node 3),    *)
(* and the first leads to node 2, below which are two implementations: the *)
(* evaluation of node 4 cuts node 5, and the evaluation of node 5 fails.   *)
(***************************************************************************)
EXTENDS MctsTree, TLC

MCNode == 1 .. 5
MCKids == [n \in MCNode |-> CASE n = 1 -> {2, 3} [] n = 2 -> {4, 5} [] OTHER -> {}]
MCParent == [n \in MCNode \ {1} |-> IF n \in {2, 3} THEN 1 ELSE 2]
MCBound == [n \in MCNode |-> CASE n \in {1, 2} -> 0 [] n = 4 -> 1 [] OTHER -> 2]
MCTime == [n \in {4, 5} |-> IF n = 4 THEN 2 ELSE 4]

(***************************************************************************)
(* Two implementations below the root, whose bounds are exact: the best    *)
(* evaluation cuts the root itself.                                        *)
(***************************************************************************)
TightNode == 1 .. 3
TightKids == [n \in TightNode |-> IF n = 1 THEN {2, 3} ELSE {}]
TightParent == [n \in {2, 3} |-> 1]
TightBound == [n \in TightNode |-> IF n = 3 THEN 3 ELSE 2]
TightTime == [n \in {2, 3} |-> n]

ThreadSymmetry == Permutations(Thread)
=============================================================================
