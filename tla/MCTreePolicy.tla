---------------------------- MODULE MCTreePolicy ----------------------------
(***************************************************************************)
(* Two threads at a node with two edges and all three policies.            *)
(***************************************************************************)
EXTENDS TreePolicy

ThreadSymmetry == Permutations(Thread)
=============================================================================
