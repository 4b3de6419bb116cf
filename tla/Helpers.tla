------------------------------- MODULE Helpers -------------------------------
(***************************************************************************)
(* The iterators and graphs of telamon_utils (N-dimensional ranges, arrays *)
(* and views, partial permutations, minimal graphs of orders) and the      *)
(* rollouts of explorer::local_selection that descend to one               *)
(* implementation.  A behaviour is one use of one of them: `use' says      *)
(* which, and what it was given, `st' is the state that the code keeps and *)
(* `made' what it has produced.  An Option is a set of at most one element *)
(* and sequences count from 1.                                             *)
(***************************************************************************)
EXTENDS Integers, Sequences, SequencesExt, FiniteSetsExt, Functions

CONSTANTS
    Shapes,      \* the dims of the arrays
    Selections,  \* pairs <<n, k>>: partial permutations of k of n values
    Orders,      \* sequences of sets, which a graph orders by inclusion
    Child,       \* the tree of a rollout: the children of each node, in order
    Bounds, Cut  \* the bounds that its nodes may have, and the cut

ASSUME HelpersAssumption ==
    /\ \A dims \in Shapes : \A d \in DOMAIN dims : dims[d] \in Nat
    /\ \A s \in Selections : s[1] \in Nat /\ s[2] \in Nat
    /\ Bounds \subseteq Int /\ Cut \in Int

VARIABLES use, st, made
hvars == <<use, st, made>>

Some(x) == {x}
None == {}
The(option) == CHOOSE x \in option : TRUE

(***************************************************************************)
(* The elements of S from the least to the greatest.                       *)
(***************************************************************************)
InOrder(S, less(_, _)) ==
    [p \in 1 .. Cardinality(S) |->
        CHOOSE x \in S : Cardinality({y \in S : less(y, x)}) = p - 1]

-----------------------------------------------------------------------------
(***************************************************************************)
(* NDRange: the carry stops at the last index that does not reach its      *)
(* bound, or at the first index; the range ends when that one does.        *)
(***************************************************************************)
NDRange(max) ==
    [max |-> max,
     current |-> IF \E d \in DOMAIN max : max[d] = 0
                   THEN None ELSE Some([d \in DOMAIN max |-> 0])]

Carry(max, idx) == Max({d \in DOMAIN idx : idx[d] + 1 # max[d] \/ d = 1})

NDRangeNext(range) ==
    LET max == range.max
        idx == The(range.current)
        i == Carry(max, idx)
        next == [d \in DOMAIN idx |-> CASE d < i -> idx[d]
                                        [] d = i -> idx[d] + 1
                                        [] OTHER -> 0]
    IN  [range EXCEPT !.current =
            IF idx = << >> THEN None ELSE IF next[1] = max[1] THEN None ELSE Some(next)]

(***************************************************************************)
(* NDArray::nd_to_1d and ViewMut::flat_index: the fixed dimensions and the *)
(* given indexes are consumed side by side.  A view is fixed at pairs of a *)
(* dimension of the array and the index there.                             *)
(***************************************************************************)
FlatIndex(dims, fixed, indexes) ==
    LET step(acc, size) ==
          LET isFixed == /\ acc.fixed <= Len(fixed)
                         /\ fixed[acc.fixed][1] = acc.dim
              idx == IF isFixed THEN fixed[acc.fixed][2] ELSE indexes[acc.index]
          IN  [dim |-> acc.dim + 1,
               fixed |-> acc.fixed + (IF isFixed THEN 1 ELSE 0),
               index |-> acc.index + (IF isFixed THEN 0 ELSE 1),
               flat |-> acc.flat * size + idx]
    IN  FoldLeft(step, [dim |-> 1, fixed |-> 1, index |-> 1, flat |-> 0], dims).flat

(***************************************************************************)
(* ViewMut::split fixes the dimension that is at `logical' among the free  *)
(* ones: pos is where it comes among the fixed ones.                       *)
(***************************************************************************)
Split(view, logical, idx) ==
    LET fixed == view.fixed
        after == {p \in DOMAIN fixed : p - 1 + logical < fixed[p][1]}
        pos == IF after = {} THEN Len(fixed) + 1 ELSE Min(after)
        raw == pos - 1 + logical
    IN  [view EXCEPT !.fixed = InsertAt(fixed, pos, <<raw, idx>>),
                     !.bounds = RemoveAt(view.bounds, logical)]

(***************************************************************************)
(* pinned is not part of the code: for every dimension of the array, the   *)
(* index that the splits have chosen.                                      *)
(***************************************************************************)
NthFree(pinned, n) ==
    CHOOSE d \in DOMAIN pinned :
       /\ pinned[d] = None
       /\ Cardinality({e \in DOMAIN pinned : e <= d /\ pinned[e] = None}) = n

InitView ==
    \E dims \in Shapes :
      /\ use = [kind |-> "view", dims |-> dims, pinned |-> [d \in DOMAIN dims |-> None]]
      /\ st = [bounds |-> dims, fixed |-> << >>, range |-> None]

SplitView ==
    /\ use.kind = "view" /\ st.range = None
    /\ \E l \in DOMAIN st.bounds : \E idx \in 0 .. st.bounds[l] - 1 :
          /\ st' = Split(st, l, idx)
          /\ use' = [use EXCEPT !.pinned[NthFree(use.pinned, l)] = Some(idx)]
    /\ made' = made

IterateView ==
    /\ use.kind = "view" /\ st.range = None
    /\ st' = [st EXCEPT !.range = Some(NDRange(st.bounds))]
    /\ UNCHANGED <<use, made>>

NextOfView ==
    /\ use.kind = "view" /\ st.range # None
    /\ The(st.range).current # None
    /\ made' = Append(made, FlatIndex(use.dims, st.fixed, The(The(st.range).current)))
    /\ st' = [st EXCEPT !.range = Some(NDRangeNext(The(st.range)))]
    /\ use' = use

-----------------------------------------------------------------------------
(***************************************************************************)
(* PartialPermutations: perm holds the k values of the permutation, then   *)
(* the others in decreasing order.                                         *)
(***************************************************************************)
InitPermutations ==
    \E sel \in Selections :
       LET n == sel[1] k == sel[2] IN
       /\ use = [kind |-> "permutations", n |-> n, k |-> k]
       /\ st = [perm |-> [p \in 1 .. n |-> IF p <= k THEN p ELSE n + k + 1 - p],
                finished |-> k > n]

(***************************************************************************)
(* The position to increase is the last one that is below its successor;   *)
(* it gets the last larger value.  The unsafe copies then put the end of   *)
(* the array, reversed, behind it, and what was there among the unused     *)
(* values.                                                                 *)
(***************************************************************************)
Increase(perm, k) ==
    Max({0} \cup {i \in 1 .. Min({k, Len(perm) - 1}) : perm[i] <= perm[i + 1]})

NextPermutation ==
    /\ use.kind = "permutations" /\ ~st.finished
    /\ LET perm == st.perm  n == Len(perm)  k == use.k
           i == IF n = 0 THEN 0 ELSE Increase(perm, k)
       IN  /\ made' = Append(made, SubSeq(perm, 1, k))
           /\ IF i = 0
                THEN st' = [st EXCEPT !.finished = TRUE]
                ELSE LET swap == Max({p \in 1 .. n : perm[p] > perm[i]})
                         swapped == [perm EXCEPT ![i] = perm[swap], ![swap] = perm[i]]
                     IN  st' = [st EXCEPT !.perm =
                                  [p \in 1 .. n |->
                                     CASE p <= i -> swapped[p]
                                       [] p > i /\ p <= k -> swapped[n + i + 1 - p]
                                       [] p > k -> swapped[p - k + i]]]
    /\ use' = use

-----------------------------------------------------------------------------
(***************************************************************************)
(* Dag::from_order, with the inclusion of sets (VecSet::partial_cmp) for   *)
(* the order, as the levels of the performance model use it.               *)
(***************************************************************************)
FromOrder(nodes) ==
    LET lesser == [i \in DOMAIN nodes |->
                     {j \in DOMAIN nodes : nodes[j] \subseteq nodes[i] /\ nodes[j] # nodes[i]}]
        duplicate == {i \in DOMAIN nodes : \E j \in 1 .. i - 1 : nodes[i] = nodes[j]}
        fewer(i, j) == \/ Cardinality(lesser[i]) < Cardinality(lesser[j])
                       \/ Cardinality(lesser[i]) = Cardinality(lesser[j]) /\ i < j
        permutation == InOrder(DOMAIN nodes \ duplicate, fewer)
        position(i) == CHOOSE p \in DOMAIN permutation : permutation[p] = i
        before == [p \in DOMAIN permutation |->
                     {position(i) : i \in {j \in lesser[permutation[p]] \ duplicate :
                        \A other \in lesser[permutation[p]] : j \notin lesser[other]}}]
    IN  [nodes |-> [p \in DOMAIN permutation |-> nodes[permutation[p]]],
         before |-> before,
         after |-> [p \in DOMAIN permutation |-> {q \in DOMAIN permutation : p \in before[q]}]]

Minima(dag) == {p \in DOMAIN dag.nodes : dag.before[p] = {}}

InitDag ==
    \E nodes \in Orders :
      /\ use = [kind |-> "dag", nodes |-> nodes, dag |-> FromOrder(nodes)]
      /\ \E id \in DOMAIN FromOrder(nodes).nodes :
            st = [id |-> id, stack |-> <<id>>, panicked |-> FALSE]

(***************************************************************************)
(* Dag::predecessors: a search from id.  made are the nodes visited, for   *)
(* which there are id - 1 marks: looking up another node panics.           *)
(***************************************************************************)
Predecessors ==
    /\ use.kind = "dag" /\ st.stack # << >> /\ ~st.panicked
    /\ LET found == use.dag.before[Last(st.stack)]
           new == SetToSeq(found \ ToSet(made))
       IN  IF \E p \in found : p >= st.id
             THEN st' = [st EXCEPT !.panicked = TRUE] /\ made' = made
             ELSE /\ made' = made \o new
                  /\ st' = [st EXCEPT !.stack = Front(st.stack) \o new]
    /\ use' = use

\* Mutant of PickIndex: candidates exactly at the cut are kept.
PickIndexAtCut(order, kids, bound) ==
    LET live == {i \in kids : bound[i] <= Cut} IN
    {i \in live : \A j \in live : bound[i] <= bound[j]}

-----------------------------------------------------------------------------
(***************************************************************************)
(* NewNodeOrder::pick_index, of the children with a bound below the cut:   *)
(* the first, the first of the best, or any (all weights are positive).    *)
(***************************************************************************)
PickIndex(order, kids, bound) ==
    LET live == {i \in kids : bound[i] < Cut}
        best == {i \in live : \A j \in live : bound[i] <= bound[j]}
        first(S) == {i \in S : \A j \in S : i <= j}
    IN  CASE order = "Api" -> first(live)
          [] order = "Bound" -> first(best)
          [] OTHER -> live

(***************************************************************************)
(* A rollout.  The bounds below a node are those of its children that      *)
(* apply_decision accepts.  Nodes are numbered so that siblings are in the *)
(* order of the choice.                                                    *)
(***************************************************************************)
InitRollout ==
    \E bound \in [DOMAIN Child -> Bounds], backtrack \in BOOLEAN,
       order \in {"Api", "WeightedRandom", "Bound", "Random"} :
      /\ use = [kind |-> "rollout", bound |-> bound, backtrack |-> backtrack, order |-> order]
      /\ st = <<[node |-> 1, left |-> Child[1]]>>

RunningRollout == use.kind = "rollout" /\ st # << >> /\ made = << >>

Here == Last(st)
Pickable == PickIndex(use.order, Here.left, use.bound)

Descend ==
    /\ RunningRollout
    /\ \E child \in Pickable :
          st' = Append(Front(st) \o <<[Here EXCEPT !.left = @ \ {child}]>>,
                       [node |-> child, left |-> Child[child]])
    /\ UNCHANGED <<use, made>>

(***************************************************************************)
(* A node without choices left is an implementation.                       *)
(***************************************************************************)
FindImplementation ==
    /\ RunningRollout
    /\ Child[Here.node] = {}
    /\ made' = <<Here.node>>
    /\ UNCHANGED <<use, st>>

(***************************************************************************)
(* No child is left: descend_backtrack returns to the parent, which takes  *)
(* this node out of its list; descend gives up.                            *)
(***************************************************************************)
DeadEnd ==
    /\ RunningRollout
    /\ Child[Here.node] # {} /\ Pickable = {}
    /\ st' = IF use.backtrack THEN Front(st) ELSE << >>
    /\ UNCHANGED <<use, made>>

-----------------------------------------------------------------------------
InitHelpers ==
    /\ InitView \/ InitPermutations \/ InitDag \/ InitRollout
    /\ made = << >>

NextHelpers ==
    \/ SplitView \/ IterateView \/ NextOfView
    \/ NextPermutation
    \/ Predecessors
    \/ Descend \/ FindImplementation \/ DeadEnd

-----------------------------------------------------------------------------
(***************************************************************************)
(* What each of them is for, said without its algorithm.                   *)
(***************************************************************************)

Lexicographic(s, t) ==
    \E p \in DOMAIN s : s[p] < t[p] /\ \A q \in 1 .. p - 1 : s[q] = t[q]

Cells(dims) ==
    LET size == Max({0} \cup Range(dims)) IN
    {idx \in [DOMAIN dims -> 0 .. size - 1] : \A d \in DOMAIN dims : idx[d] < dims[d]}

(***************************************************************************)
(* Whatever dimensions were split in whatever order, a view enumerates     *)
(* exactly the cells of its part of the array, each once and in the order  *)
(* of the memory: views of different parts never meet.                     *)
(***************************************************************************)
ViewCovers ==
    LET all == InOrder(Cells(use.dims), Lexicographic)
        mine(idx) == \A d \in DOMAIN idx : use.pinned[d] \in {None, Some(idx[d])}
        expected == InOrder({p - 1 : p \in {q \in DOMAIN all : mine(all[q])}}, <)
    IN  /\ IsPrefix(made, expected)
        /\ st.range # None /\ The(st.range).current = None => made = expected

(***************************************************************************)
(* "Permutations are returned in lexicographical order", all of them.      *)
(***************************************************************************)
PermutationsCover ==
    LET expected == InOrder({s \in [1 .. use.k -> 1 .. use.n] : IsInjective(s)},
                            Lexicographic)
    IN  IsPrefix(made, expected) /\ (st.finished => made = expected)

(***************************************************************************)
(* The graph has one node per class of the order, in an order compatible   *)
(* with it, its edges are the covering pairs in both directions, and the   *)
(* predecessors of a node are all the smaller ones.                        *)
(***************************************************************************)
DagCovers ==
    LET dag == use.dag
        ids == DOMAIN dag.nodes
        below(p, q) == dag.nodes[p] \subseteq dag.nodes[q] /\ p # q
    IN  /\ Range(dag.nodes) = Range(use.nodes) /\ IsInjective(dag.nodes)
        /\ \A q \in ids : dag.before[q] =
              {p \in ids : below(p, q) /\ ~\E m \in ids : below(p, m) /\ below(m, q)}
        /\ \A p, q \in ids : p \in dag.before[q] <=> q \in dag.after[p]
        /\ Minima(dag) = {q \in ids : ~\E p \in ids : below(p, q)}
        /\ ~st.panicked
        /\ st.stack = << >> => ToSet(made) = {p \in ids : below(p, st.id)}

(***************************************************************************)
(* A rollout returns an implementation that no bound excludes; with        *)
(* backtracking it fails only when there is none.                          *)
(***************************************************************************)
RolloutFinds ==
    LET parent(n) == {p \in DOMAIN Child : n \in Child[p]}
        RECURSIVE open(_)
        open(n) == n = 1 \/ (use.bound[n] < Cut /\ \E p \in parent(n) : open(p))
        implementations == {n \in DOMAIN Child : Child[n] = {} /\ open(n)}
    IN  /\ ToSet(made) \subseteq implementations
        /\ use.backtrack /\ st = << >> => implementations = {}

(***************************************************************************)
(* The iterators, graphs and rollouts do what they are for.                *)
(***************************************************************************)
MatchesReference ==
    /\ use.kind = "view" => ViewCovers
    /\ use.kind = "permutations" => PermutationsCover
    /\ use.kind = "dag" => DagCovers
    /\ use.kind = "rollout" => RolloutFinds
=============================================================================
