----------------------------- MODULE SearchStore -----------------------------
(***************************************************************************)
(* What the explorer expects of a candidate store: the contract of the     *)
(* Store trait (src/explorer/store.rs).  A store hands the fully specified *)
(* candidates (the leaves of the search tree) out to the workers; it may   *)
(* keep a leaf back only when some candidate on the path to it has a bound *)
(* at or above the cut, and it may answer None to a worker only when it    *)
(* has nothing left to hand out.                                           *)
(***************************************************************************)
EXTENDS Naturals

CONSTANTS
    Worker,       \* the threads that call explore
    Leaf,         \* the fully specified candidates
    Reach,        \* Reach[l]: the highest bound on the path to leaf l
    Inf           \* f64::INFINITY

VARIABLES
    open,         \* leaves neither handed out nor pruned
    given,        \* leaves explore has returned
    cut,          \* the value last passed to update_cut
    gone          \* workers explore has answered None to

storeVars == <<open, given, cut, gone>>

StoreInit ==
    /\ open = Leaf
    /\ given = {}
    /\ cut = Inf
    /\ gone = {}

\* explore returns Some(leaf).
Give(l) ==
    /\ l \in open
    /\ open' = open \ {l}
    /\ given' = given \cup {l}
    /\ UNCHANGED <<cut, gone>>

\* explore returns None to w.
Refuse(w) ==
    /\ open = {}
    /\ gone' = gone \cup {w}
    /\ UNCHANGED <<open, given, cut>>

\* update_cut, or the store looking at a candidate the cut excludes.
Prune(new, S) ==
    /\ new <= cut
    /\ cut' = new
    /\ \A l \in S : Reach[l] >= new
    /\ open' = open \ S
    /\ UNCHANGED <<given, gone>>

StoreNext ==
    \/ \E l \in open : Give(l)
    \/ \E w \in Worker : Refuse(w)
    \/ \E new \in 0 .. Inf, S \in SUBSET open : Prune(new, S)

StoreSpec == StoreInit /\ [][StoreNext]_storeVars

-----------------------------------------------------------------------------
(***************************************************************************)
(* The variables have the types of the trait's arguments and results.      *)
(***************************************************************************)
StoreTypeOK ==
    /\ open \subseteq Leaf /\ given \subseteq Leaf /\ gone \subseteq Worker
    /\ cut \in 0 .. Inf

(***************************************************************************)
(* A leaf leaves the open set only to be handed out or because of the cut. *)
(***************************************************************************)
Accounted == \A l \in Leaf : l \in open \cup given \/ Reach[l] >= cut

(***************************************************************************)
(* Branch and bound is exhaustive: when explore has returned None, every   *)
(* leaf was handed out, or its path crosses a bound at or above the cut.   *)
(***************************************************************************)
Exhaustive ==
    gone # {} => \A l \in Leaf \ given : Reach[l] >= cut
=============================================================================
