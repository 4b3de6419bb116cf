------------------------------- MODULE VecSet -------------------------------
(***************************************************************************)
(* telamon_utils::VecSet, a set kept as a sorted vector without            *)
(* duplicates.  The intermediate representation, the performance model and *)
(* the local information of the dimensions are made of such sets, and the  *)
(* other modules of this project model each of them by a set: this module  *)
(* is where that is earned.                                                *)
(*                                                                         *)
(* A behaviour is the life of one VecSet, lhs, on which operations are     *)
(* called one after the other with other VecSets, rhs, as argument.  The   *)
(* loops of the operations take one step per comparison.  Cursors count    *)
(* from 1, so lhs_cursor = k here is lhs_cursor = k - 1 in the code.       *)
(***************************************************************************)
EXTENDS Integers, Sequences, SequencesExt

CONSTANTS
    Item,     \* the elements that are inserted, and tested by predicates
    Vectors   \* the VecSets that an operation gets as argument

(***************************************************************************)
(* What the derived order of the elements makes of a vector: strictly      *)
(* increasing.                                                             *)
(***************************************************************************)
Increasing(s) == \A a, b \in DOMAIN s : a < b => s[a] < s[b]

(***************************************************************************)
(* VecSet::new, also behind From<Vec> and FromIterator: sort and dedup.    *)
(***************************************************************************)
New(data) == SetToSortSeq({data[k] : k \in DOMAIN data}, <)

(***************************************************************************)
(* Elements are compared by a total order, here the one of the integers,   *)
(* and the arguments were built by the operations of VecSet themselves.    *)
(***************************************************************************)
ASSUME VecSetAssumption ==
    /\ Item \subseteq Int
    /\ \A s \in Vectors : s \in Seq(Int) /\ Increasing(s)

VARIABLES
    op,           \* the operation that runs or ran last
    pc,           \* "run", "done", or "unwound" when a comparison panicked
    lhs, rhs,     \* self and other when the operation was called
    keep,         \* what the predicate of filter and retain holds of
    lhs_cursor, rhs_cursor,
    out,          \* the vector that the operation builds
    prev_ord,     \* partial_cmp: the order of the elements seen so far
    lhs_data, rhs_data,  \* relative_difference: the buffers of self and other
    lhs_len, rhs_len,    \* ... their set_len
    lhs_del, rhs_del,    \* ... how many of their elements were dropped
    dropped              \* ... the elements that drop_in_place released

call == <<op, lhs, rhs, keep>>
cursors == <<lhs_cursor, rhs_cursor>>
buffers == <<lhs_data, rhs_data, lhs_len, rhs_len, lhs_del, rhs_del, dropped>>
vars == <<call, pc, cursors, out, prev_ord, buffers>>

Operation == {"difference", "intersection", "intersect", "union", "partial_cmp",
              "relative_difference"}

Elements(s) == {s[k] : k \in DOMAIN s}
Prefix(s, n) == [k \in 1 .. n |-> s[k]]

LhsLeft == lhs_cursor <= Len(lhs)
RhsLeft == rhs_cursor <= Len(rhs)

(***************************************************************************)
(* The state of the buffers while no in-place operation runs: the two      *)
(* vectors, of which every element may be read and will be dropped.        *)
(***************************************************************************)
WholeBuffers(l, r) ==
    /\ lhs_data' = l /\ lhs_len' = Len(l) /\ lhs_del' = 0
    /\ rhs_data' = r /\ rhs_len' = Len(r) /\ rhs_del' = 0
    /\ dropped' = {}

(***************************************************************************)
(* The VecSet after the operation: what it returned or left behind.        *)
(***************************************************************************)
Result ==
    CASE op = "partial_cmp" -> lhs
      [] op = "relative_difference" -> Prefix(lhs_data, lhs_len)
      [] OTHER -> out

Init ==
    /\ op = "filter" /\ pc = "done"
    /\ lhs = << >> /\ rhs = << >> /\ out = << >> /\ keep = {}
    /\ lhs_cursor = 1 /\ rhs_cursor = 1
    /\ prev_ord = "Equal"
    /\ lhs_data = << >> /\ rhs_data = << >>
    /\ lhs_len = 0 /\ rhs_len = 0 /\ lhs_del = 0 /\ rhs_del = 0
    /\ dropped = {}

\* Mutant of SetLenZero: the lengths stay while the elements are moved.
KeepLengths ==
    /\ lhs_data' = Result /\ lhs_len' = Len(Result) /\ lhs_del' = 0
    /\ rhs_data' = rhs' /\ rhs_len' = Len(rhs') /\ rhs_del' = 0
    /\ dropped' = {}

(***************************************************************************)
(* The next operation is called on the VecSet.  relative_difference sets   *)
(* both lengths to 0 before anything else.                                 *)
(***************************************************************************)
SetLenZero ==
    /\ lhs_data' = Result /\ lhs_len' = 0 /\ lhs_del' = 0
    /\ rhs_data' = rhs' /\ rhs_len' = 0 /\ rhs_del' = 0
    /\ dropped' = {}

Begin ==
    /\ pc = "done" /\ pc' = "run"
    /\ lhs' = Result
    /\ lhs_cursor' = 1 /\ rhs_cursor' = 1
    /\ out' = << >> /\ prev_ord' = "Equal"

Call ==
    /\ Begin
    /\ op' \in Operation
    /\ rhs' \in Vectors
    /\ keep' = {}
    /\ IF op' = "relative_difference" THEN SetLenZero ELSE WholeBuffers(lhs', rhs')

CallFilter ==
    /\ Begin
    /\ op' = "filter"
    /\ rhs' = << >>
    /\ keep' \in SUBSET Item
    /\ WholeBuffers(lhs', rhs')

Running(o) == pc = "run" /\ op = o

Push(x) == out' = Append(out, x)
NextLhs == lhs_cursor' = lhs_cursor + 1
NextRhs == rhs_cursor' = rhs_cursor + 1
SameLhs == lhs_cursor' = lhs_cursor
SameRhs == rhs_cursor' = rhs_cursor
SameOut == out' = out

Return == pc' = "done" /\ UNCHANGED <<cursors, out, prev_ord, buffers>>

(***************************************************************************)
(* Difference::next: advance in rhs up to the element of lhs, which is     *)
(* skipped when it is found there and yielded otherwise.                   *)
(***************************************************************************)
Difference ==
    /\ Running("difference")
    /\ \/ /\ ~LhsLeft /\ Return
       \/ /\ LhsLeft /\ pc' = pc
          /\ \/ /\ RhsLeft /\ rhs[rhs_cursor] < lhs[lhs_cursor]
                /\ NextRhs /\ SameLhs /\ SameOut
             \/ /\ RhsLeft /\ rhs[rhs_cursor] = lhs[lhs_cursor]
                /\ NextLhs /\ SameRhs /\ SameOut
             \/ /\ RhsLeft => rhs[rhs_cursor] > lhs[lhs_cursor]
                /\ NextLhs /\ SameRhs /\ Push(lhs[lhs_cursor])
          /\ UNCHANGED <<prev_ord, buffers>>
    /\ UNCHANGED call

(***************************************************************************)
(* Intersection::next: the smaller of the two elements is skipped, an      *)
(* element present in both is yielded.                                     *)
(***************************************************************************)
Intersection ==
    /\ Running("intersection")
    /\ \/ /\ ~LhsLeft \/ ~RhsLeft
          /\ Return
       \/ /\ LhsLeft /\ RhsLeft /\ pc' = pc
          /\ \/ /\ lhs[lhs_cursor] < rhs[rhs_cursor]
                /\ NextLhs /\ SameRhs /\ SameOut
             \/ /\ lhs[lhs_cursor] = rhs[rhs_cursor]
                /\ NextLhs /\ NextRhs /\ Push(lhs[lhs_cursor])
             \/ /\ lhs[lhs_cursor] > rhs[rhs_cursor]
                /\ NextRhs /\ SameLhs /\ SameOut
          /\ UNCHANGED <<prev_ord, buffers>>
    /\ UNCHANGED call

(***************************************************************************)
(* intersect: Vec::retain with a predicate that keeps its own cursor in    *)
(* the other vector, and leaves it there when it finds the element.        *)
(***************************************************************************)
Intersect ==
    /\ Running("intersect")
    /\ \/ /\ ~LhsLeft /\ Return
       \/ /\ LhsLeft /\ pc' = pc
          /\ \/ /\ RhsLeft => lhs[lhs_cursor] < rhs[rhs_cursor]
                /\ NextLhs /\ SameRhs /\ SameOut
             \/ /\ RhsLeft /\ lhs[lhs_cursor] = rhs[rhs_cursor]
                /\ NextLhs /\ SameRhs /\ Push(lhs[lhs_cursor])
             \/ /\ RhsLeft /\ lhs[lhs_cursor] > rhs[rhs_cursor]
                /\ NextRhs /\ SameLhs /\ SameOut
          /\ UNCHANGED <<prev_ord, buffers>>
    /\ UNCHANGED call

(***************************************************************************)
(* union: the merge of the two vectors, then what is left of either, one   *)
(* element at a time.                                                      *)
(***************************************************************************)
Union ==
    /\ Running("union")
    /\ \/ /\ ~LhsLeft /\ ~RhsLeft /\ Return
       \/ /\ pc' = pc
          /\ \/ /\ LhsLeft /\ RhsLeft /\ lhs[lhs_cursor] = rhs[rhs_cursor]
                /\ NextLhs /\ NextRhs /\ Push(lhs[lhs_cursor])
             \/ /\ LhsLeft /\ (RhsLeft => lhs[lhs_cursor] < rhs[rhs_cursor])
                /\ NextLhs /\ SameRhs /\ Push(lhs[lhs_cursor])
             \/ /\ RhsLeft /\ (LhsLeft => lhs[lhs_cursor] > rhs[rhs_cursor])
                /\ NextRhs /\ SameLhs /\ Push(rhs[rhs_cursor])
          /\ UNCHANGED <<prev_ord, buffers>>
    /\ UNCHANGED call

(***************************************************************************)
(* filter and retain: the elements that the predicate holds of.            *)
(***************************************************************************)
Filter ==
    /\ Running("filter")
    /\ \/ /\ ~LhsLeft /\ Return
       \/ /\ LhsLeft /\ pc' = pc
          /\ NextLhs /\ SameRhs
          /\ IF lhs[lhs_cursor] \in keep THEN Push(lhs[lhs_cursor]) ELSE SameOut
          /\ UNCHANGED <<prev_ord, buffers>>
    /\ UNCHANGED call

(***************************************************************************)
(* insert: std's binary_search finds the element, and nothing changes, or  *)
(* the position p where the elements below it end, where it is inserted.   *)
(***************************************************************************)
Insert ==
    /\ pc = "done"
    /\ \E x \in Item :
          /\ x \notin Elements(Result)
          /\ \E p \in 1 .. Len(Result) + 1 :
                /\ \A k \in 1 .. Len(Result) : (k < p) <=> (Result[k] < x)
                /\ out' = [k \in 1 .. Len(Result) + 1 |->
                              CASE k < p -> Result[k]
                                [] k = p -> x
                                [] OTHER -> Result[k - 1]]
          /\ keep' = {x}
    /\ op' = "insert" /\ lhs' = Result /\ rhs' = << >>
    /\ WholeBuffers(lhs', rhs')
    /\ UNCHANGED <<pc, cursors, prev_ord>>

(***************************************************************************)
(* partial_cmp: compares as sets.  prev_ord tells which of the vectors has *)
(* had elements of its own so far; as soon as both have, they are not      *)
(* ordered.                                                                *)
(***************************************************************************)
Ordered(ord) == pc' = "done" /\ prev_ord' = ord /\ UNCHANGED cursors

Compare ==
    /\ Running("partial_cmp")
    /\ \/ /\ ~LhsLeft /\ ~RhsLeft /\ Ordered(prev_ord)
       \/ /\ ~LhsLeft /\ RhsLeft
          /\ Ordered(IF prev_ord = "Greater" THEN "None" ELSE "Less")
       \/ /\ LhsLeft /\ ~RhsLeft
          /\ Ordered(IF prev_ord = "Less" THEN "None" ELSE "Greater")
       \/ /\ LhsLeft /\ RhsLeft
          /\ \/ /\ lhs[lhs_cursor] < rhs[rhs_cursor]
                /\ IF prev_ord = "Less"
                     THEN Ordered("None")
                     ELSE prev_ord' = "Greater" /\ NextLhs /\ SameRhs /\ pc' = pc
             \/ /\ lhs[lhs_cursor] > rhs[rhs_cursor]
                /\ IF prev_ord = "Greater"
                     THEN Ordered("None")
                     ELSE prev_ord' = "Less" /\ NextRhs /\ SameLhs /\ pc' = pc
             \/ /\ lhs[lhs_cursor] = rhs[rhs_cursor]
                /\ NextLhs /\ NextRhs /\ UNCHANGED <<prev_ord, pc>>
    /\ UNCHANGED <<call, out, buffers>>

\* Mutant of Move: off by one.
MoveFromTwo(data, idx, del) ==
    IF del > 1 THEN [data EXCEPT ![idx - del] = data[idx]] ELSE data

(***************************************************************************)
(* relative_difference: the elements that both vectors hold are dropped in *)
(* place, the others moved down over the holes: Move copies one element,   *)
(* MoveTail the rest of the vector.                                        *)
(***************************************************************************)
Move(data, idx, del) ==
    IF del > 0 THEN [data EXCEPT ![idx - del] = data[idx]] ELSE data

MoveTail(data, idx, del) ==
    IF del > 0
      THEN [k \in 1 .. Len(data) |->
               IF k \in idx - del .. Len(data) - del THEN data[k + del] ELSE data[k]]
      ELSE data

Unfinished ==
    /\ Running("relative_difference")
    /\ LhsLeft /\ RhsLeft

KeepLhs ==
    /\ Unfinished
    /\ lhs_data[lhs_cursor] < rhs_data[rhs_cursor]
    /\ lhs_data' = Move(lhs_data, lhs_cursor, lhs_del)
    /\ NextLhs /\ SameRhs
    /\ UNCHANGED <<call, pc, out, prev_ord, rhs_data, lhs_len, rhs_len, lhs_del, rhs_del,
                   dropped>>

KeepRhs ==
    /\ Unfinished
    /\ lhs_data[lhs_cursor] > rhs_data[rhs_cursor]
    /\ rhs_data' = Move(rhs_data, rhs_cursor, rhs_del)
    /\ NextRhs /\ SameLhs
    /\ UNCHANGED <<call, pc, out, prev_ord, lhs_data, lhs_len, rhs_len, lhs_del, rhs_del,
                   dropped>>

DropBoth ==
    /\ Unfinished
    /\ lhs_data[lhs_cursor] = rhs_data[rhs_cursor]
    /\ dropped' = dropped \cup {lhs_data[lhs_cursor]}
    /\ NextLhs /\ NextRhs
    /\ lhs_del' = lhs_del + 1 /\ rhs_del' = rhs_del + 1
    /\ UNCHANGED <<call, pc, out, prev_ord, lhs_data, rhs_data, lhs_len, rhs_len>>

(***************************************************************************)
(* The comparison of two elements may be code of a user, and panic: the    *)
(* vectors are then dropped as they are.                                   *)
(***************************************************************************)
ComparisonPanics ==
    /\ Unfinished
    /\ pc' = "unwound"
    /\ UNCHANGED <<call, cursors, out, prev_ord, buffers>>

(***************************************************************************)
(* The rest of the longer vector is moved down, and the lengths restored.  *)
(***************************************************************************)
RestoreLengths ==
    /\ lhs_len' = Len(lhs) - lhs_del
    /\ rhs_len' = Len(rhs) - rhs_del

Complete ==
    /\ Running("relative_difference")
    /\ ~LhsLeft \/ ~RhsLeft
    /\ pc' = "done"
    /\ lhs_data' = IF LhsLeft THEN MoveTail(lhs_data, lhs_cursor, lhs_del) ELSE lhs_data
    /\ rhs_data' = IF RhsLeft THEN MoveTail(rhs_data, rhs_cursor, rhs_del) ELSE rhs_data
    /\ RestoreLengths
    /\ UNCHANGED <<call, cursors, out, prev_ord, lhs_del, rhs_del, dropped>>

RelativeDifference == KeepLhs \/ KeepRhs \/ DropBoth \/ ComparisonPanics \/ Complete

Next ==
    \/ Call \/ CallFilter \/ Insert
    \/ Difference \/ Intersection \/ Intersect \/ Union \/ Filter
    \/ Compare \/ RelativeDifference

Spec == Init /\ [][Next]_vars

(***************************************************************************)
(* Properties.                                                             *)
(***************************************************************************)

(***************************************************************************)
(* The vector s is the VecSet of the set S.                                *)
(***************************************************************************)
Represents(s, S) == Increasing(s) /\ Elements(s) = S

SetOrder(L, R) ==
    CASE L = R -> "Equal"
      [] L # R /\ L \subseteq R -> "Less"
      [] L # R /\ R \subseteq L -> "Greater"
      [] OTHER -> "None"

(***************************************************************************)
(* Whatever sequence of operations made its operands, an operation returns *)
(* the VecSet of the corresponding operation on sets: sorted, without      *)
(* duplicates, and with exactly the right elements; partial_cmp returns    *)
(* the inclusion order.                                                    *)
(***************************************************************************)
ResultIsSetOp ==
    LET L == Elements(lhs) R == Elements(rhs) IN
    pc = "done" =>
      /\ op = "difference" => Represents(out, L \ R)
      /\ op \in {"intersection", "intersect"} => Represents(out, L \cap R)
      /\ op = "union" => Represents(out, L \cup R)
      /\ op = "filter" => Represents(out, L \cap keep)
      /\ op = "insert" => Represents(out, L \cup keep)
      /\ op = "partial_cmp" => prev_ord = SetOrder(L, R)
      /\ op = "relative_difference" =>
            /\ Represents(Prefix(lhs_data, lhs_len), L \ R)
            /\ Represents(Prefix(rhs_data, rhs_len), R \ L)

(***************************************************************************)
(* The comment in relative_difference: a panic in the middle drops no      *)
(* element twice.  At every moment, the elements that the destructors of   *)
(* the two vectors would drop are there once, and were not dropped yet.    *)
(***************************************************************************)
DropsOnce(data, len) ==
    /\ \A a, b \in 1 .. len : a # b => data[a] # data[b]
    /\ \A a \in 1 .. len : data[a] \notin dropped

SafeToUnwind == DropsOnce(lhs_data, lhs_len) /\ DropsOnce(rhs_data, rhs_len)
=============================================================================
