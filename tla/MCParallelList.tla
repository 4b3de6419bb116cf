---------------------- MODULE MCParallelList ----------------------
(***************************************************************************)
(* A small search tree: candidate 4 is a dead end (apply_choice     *)
(* obtains nothing), 1 and 2 are inserted at the start, and the bound of 5 *)
(* is below its parent's, which apply_decision logs and accepts.           *)
(***************************************************************************)
EXTENDS ParallelListRefinement

MCCand == 1 .. 7
MCRoot == {1, 2}
MCLeaf == {2, 5, 6, 7}
MCChoices ==
    [c \in MCCand |-> CASE c = 1 -> {3, 4}
                        [] c = 3 -> {5, 6, 7}
                        [] OTHER -> {}]
MCBound == [c \in MCCand |-> CASE c \in {1, 5} -> 0
                               [] c \in {2, 3} -> 1
                               [] OTHER -> 2]
MCUnder ==
    [c \in MCCand |-> CASE c \in MCLeaf -> {c}
                        [] c \in {1, 3} -> {5, 6, 7}
                        [] OTHER -> {}]
MCReach == [l \in MCLeaf |-> IF l \in {2, 5} THEN 1 ELSE 2]
=============================================================================
