----------------------- MODULE ParallelListRefinement -----------------------
(***************************************************************************)
(* ParallelCandidateList is a candidate store: the open leaves are those   *)
(* below the candidates that are queued or held by a worker.               *)
(***************************************************************************)
EXTENDS ParallelList

CONSTANTS
    Under,        \* Under[c]: the leaves of the subtree of c
    Reach         \* Reach[l]: the highest bound on the path to leaf l

ASSUME UnderAssumption ==
    /\ Under \in [Cand -> SUBSET Leaf]
    /\ \A l \in Leaf : Under[l] = {l} /\ Choices[l] = {}
    /\ \A c \in Cand \ Leaf : Under[c] = UNION {Under[d] : d \in Choices[c]}
    /\ \A c \in Cand : \A d, e \in Choices[c] : d # e => Under[d] \cap Under[e] = {}
    /\ \A d, e \in Root : d # e => Under[d] \cap Under[e] = {}
    /\ Leaf = UNION {Under[d] : d \in Root}

ASSUME ReachAssumption ==
    /\ Reach \in [Leaf -> 0 .. Inf - 1]
    /\ \A c \in Cand : \A l \in Under[c] : Bound[c] <= Reach[l]

Frontier == queue \cup Held

OpenLeaves == UNION {Under[c] : c \in Frontier}

Left == {w \in Worker : pc[w] = "done"}

Store == INSTANCE SearchStore
    WITH open <- OpenLeaves, given <- returned, gone <- Left

(***************************************************************************)
(* The subtrees still to be explored do not overlap, and none holds a leaf *)
(* that was already returned.                                              *)
(***************************************************************************)
FrontierDisjoint ==
    /\ \A c, d \in Frontier : c # d => Under[c] \cap Under[d] = {}
    /\ \A c \in Frontier : Under[c] \cap returned = {}

(***************************************************************************)
(* The concurrent list implements the contract of the Store trait.         *)
(***************************************************************************)
ImplementsStore == Store!StoreSpec

(***************************************************************************)
(* explore never returns None while a leaf below the cut is unexplored.    *)
(***************************************************************************)
ExhaustiveList == Store!Exhaustive
=============================================================================
