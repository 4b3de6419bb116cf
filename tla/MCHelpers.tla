------------------------------ MODULE MCHelpers ------------------------------
(***************************************************************************)
(* A behaviour uses one helper, or is the life of one VecSet.  Arrays of   *)
(* up to three dimensions, up to four values to permute, all sequences of  *)
(* up to three subsets of three elements to order, and a tree with three   *)
(* levels below the root of a rollout.                                     *)
(***************************************************************************)
EXTENDS VecSet, Helpers

MCItem == 0 .. 3
MCVectors == {New(d) : d \in UNION {[1 .. n -> MCItem] : n \in 0 .. 4}}

MCShapes == UNION {[1 .. n -> 0 .. 3] : n \in 0 .. 2} \cup {<<2, 3, 2>>, <<3, 1, 2>>}
MCSelections == (0 .. 4) \X (0 .. 5)
MCOrders == UNION {[1 .. n -> SUBSET (1 .. 3)] : n \in 0 .. 3}
MCChild == <<{2, 3}, {4, 5}, {6}, {}, {}, {}>>
MCBounds == 1 .. 3
MCCut == 3

MCVars == <<vars, hvars>>
NoHelper == [kind |-> "none"]

MCInit ==
    /\ Init
    /\ \/ use = NoHelper /\ st = << >> /\ made = << >>
       \/ InitHelpers

MCNext ==
    \/ use = NoHelper /\ Next /\ UNCHANGED hvars
    \/ NextHelpers /\ UNCHANGED vars

MCSpec == MCInit /\ [][MCNext]_MCVars
=============================================================================
