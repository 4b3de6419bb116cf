--------------------------- MODULE MCExploreSpace ---------------------------
(***************************************************************************)
(* Four leaves.  The fastest one fails its check, leaf 3 is pruned when    *)
(* the monitor lowers the cut to the best time of leaf 2 before the leaf   *)
(* is handed out, and uses up the limit of evaluations otherwise, and      *)
(* evaluating leaf 4 fails.                                                *)
(***************************************************************************)
EXTENDS ExploreSpace

MCLeaf == 1 .. 4
MCTime == <<4, 8, 12, 16>>
MCBound == <<0, 4, 2, 8>>
MCReach == <<3, 6, 7, 12>>
MCValid == {2, 3, 4}
=============================================================================
