---- MODULE NumDomains ----
(***************************************************************************)
(* The integer domains of the generated search space (telamon-gen runtime):*)
(* ranges, half ranges, bit sets over a sorted universe, and the constants *)
(* and slices that user code compares them with.  Filters compare domains  *)
(* (is_lt ...) and build the domain of the values that may satisfy a       *)
(* comparison (new_lt ...).                                                *)
(***************************************************************************)
EXTENDS Integers, Sequences, SequencesExt, FiniteSetsExt, Functions

CONSTANTS U32Max,        \* u32::MAX
          MaxLen         \* the bits of a NumericSet

ASSUME NumDomainsAssumption == U32Max \in Nat /\ U32Max >= 4 /\ MaxLen \in Nat /\ MaxLen >= 4

U32 == 0 .. U32Max

\* A NumericSet holds the (one-based) positions of its values in a sorted universe.
NumericSet(universe, bits) == [kind |-> "set", uni |-> universe, bits |-> bits]
NumRange(min, max) == [kind |-> "range", min |-> min, max |-> max]
HalfRange(min) == [kind |-> "half", min |-> min]
Constant(n) == [kind |-> "const", val |-> n]
Slice(s) == [kind |-> "slice", vals |-> s]

\* The integers a domain stands for.
Gamma(d) ==
  CASE d.kind = "set" -> {d.uni[k] : k \in d.bits \cap DOMAIN d.uni}
    [] d.kind = "range" -> d.min .. d.max
    [] d.kind = "half" -> d.min .. U32Max
    [] d.kind = "const" -> {d.val}
    [] d.kind = "slice" -> Range(d.vals)

\* Domain::is_failed; a HalfRange never fails.
IsFailed(d) ==
  CASE d.kind = "set" -> d.bits = {}
    [] d.kind = "range" -> d.min > d.max
    [] OTHER -> FALSE

MinValue(d) ==
  CASE d.kind = "set" -> IF d.bits = {} THEN 0 ELSE d.uni[Min(d.bits)]
    [] d.kind \in {"range", "half"} -> d.min
    [] d.kind = "const" -> d.val
    [] d.kind = "slice" -> IF d.vals = <<>> THEN 1 ELSE Head(d.vals)
MaxValue(d) ==
  CASE d.kind = "set" -> IF d.bits = {} THEN U32Max ELSE d.uni[Max(d.bits)]
    [] d.kind = "range" -> d.max
    [] d.kind = "half" -> U32Max
    [] d.kind = "const" -> d.val
    [] d.kind = "slice" -> IF d.vals = <<>> THEN 0 ELSE Last(d.vals)

\* Domain::restrict and insert, on two domains of one type.
DomainRestrict(a, b) ==
  CASE a.kind = "set" -> [a EXCEPT !.bits = @ \cap b.bits]
    [] a.kind = "range" -> NumRange(Max({a.min, b.min}), Min({a.max, b.max}))
    [] a.kind = "half" -> HalfRange(Max({a.min, b.min}))
DomainInsert(a, b) ==
  CASE a.kind = "set" -> [a EXCEPT !.bits = @ \cup b.bits]
    [] a.kind = "range" -> NumRange(Min({a.min, b.min}), Max({a.max, b.max}))
    [] a.kind = "half" -> HalfRange(Min({a.min, b.min}))

\* ((1 << len) - 1) << start on MaxLen bits: an optimised build shifts modulo the width.
Ones(start, len) == {start + k : k \in 1 .. len % MaxLen} \cap 1 .. MaxLen

AllValues(u) == NumericSet(u, Ones(0, Len(u)))

\* slice::binary_search, zero-based: the position of x, or where it would be inserted.
\* Mutant: an exact match is not told from an insertion point.
FoundNever(u, x) == FALSE
Found(u, x) == \E k \in DOMAIN u : u[k] = x
BinarySearch(u, x) == Cardinality({k \in DOMAIN u : u[k] < x})

\* The default NumSet::into_num_set works on the bounds of the domain; NumericSet and
\* slices walk both sorted sequences: `at[k]' is where the walk stands after value k.
IntoNumSetBounds(d, u) ==
  LET start == BinarySearch(u, MinValue(d))
      len == BinarySearch(u, MaxValue(d)) - start + 1
  IN  NumericSet(u, Ones(start, len))
IntoNumSetWalk(seq, enabled, u) ==
  LET next(from, v) ==
        LET ok == {j \in DOMAIN seq : j >= from /\ j \in enabled /\ seq[j] >= v}
        IN  IF ok = {} THEN Len(seq) + 1 ELSE Min(ok)
      at[k \in 0 .. Len(u)] == IF k = 0 THEN 1 ELSE next(at[k - 1], u[k])
  IN  NumericSet(u, {k \in DOMAIN u : at[k] <= Len(seq) /\ seq[at[k]] = u[k]})
IntoNumSet(d, u) ==
  CASE d.kind = "set" -> IntoNumSetWalk(d.uni, d.bits, u)
    [] d.kind = "slice" -> IntoNumSetWalk(d.vals, DOMAIN d.vals, u)
    [] OTHER -> IntoNumSetBounds(d, u)

\* NumSet::{is_lt, is_gt, is_leq, is_geq, is_eq, is_neq}.
IsOp(op, a, b) ==
  CASE op = "Lt" -> MaxValue(a) < MinValue(b)
    [] op = "Gt" -> MinValue(a) > MaxValue(b)
    [] op = "Leq" -> MaxValue(a) <= MinValue(b)
    [] op = "Geq" -> MinValue(a) >= MaxValue(b)
    [] op = "Eq" -> MinValue(a) = MaxValue(b) /\ MaxValue(a) = MinValue(b)
    [] op = "Neq" -> \/ MinValue(a) > MaxValue(b) \/ MaxValue(a) < MinValue(b)
                     \/ a.kind = "set" /\ IsFailed(IntoNumSet(b, a.uni))

\* NumDomain::{new_gt, new_lt, new_geq, new_leq, new_eq} of a NumericSet, ...
NewNumericSet(op, u, b) ==
  LET after(x, skip) == BinarySearch(u, x) + (IF skip /\ Found(u, x) THEN 1 ELSE 0)
      from(start) == NumericSet(u, Ones(start, Len(u) - start))
  IN  CASE op = "Gt" -> from(after(MinValue(b), TRUE))
        [] op = "Geq" -> from(after(MinValue(b), FALSE))
        [] op = "Lt" -> NumericSet(u, Ones(0, after(MaxValue(b), FALSE)))
        [] op = "Leq" -> NumericSet(u, Ones(0, after(MaxValue(b), TRUE)))
        [] op = "Eq" -> IntoNumSet(b, u)

\* ... of a Range, whose bounds saturate, ...
NewRange(op, b) ==
  CASE op = "Gt" -> NumRange(Min({MinValue(b) + 1, U32Max}), U32Max)
    [] op = "Geq" -> NumRange(MinValue(b), U32Max)
    [] op = "Lt" -> NumRange(0, Max({MaxValue(b) - 1, 0}))
    [] op = "Leq" -> NumRange(0, MaxValue(b))
    [] op = "Eq" -> NumRange(MinValue(b), MaxValue(b))

\* ... and of a HalfRange, which ignores upper bounds.
NewHalfRange(op, b) ==
  CASE op = "Gt" -> HalfRange(Min({MinValue(b) + 1, U32Max}))
    [] op \in {"Geq", "Eq"} -> HalfRange(MinValue(b))
    [] OTHER -> HalfRange(0)

\* The constructor for the type of the domain `a'.
NewLike(a, op, b) ==
  CASE a.kind = "set" -> NewNumericSet(op, a.uni, b)
    [] a.kind = "range" -> NewRange(op, b)
    [] a.kind = "half" -> NewHalfRange(op, b)

\* What the operators mean on integers.
Holds(op, x, y) ==
  CASE op = "Lt" -> x < y [] op = "Gt" -> x > y [] op = "Leq" -> x <= y
    [] op = "Geq" -> x >= y [] op = "Eq" -> x = y [] op = "Neq" -> x # y
------------------------------------------------------------------------------
\* A comparison of two domains that have values is true exactly when it holds between
\* all their values (is_neq may also miss one), and a constructor keeps every value
\* that compares with some value of its argument.
DomainOpsSound(D) ==
  \A a, b \in D :
    /\ \A op \in {"Lt", "Gt", "Leq", "Geq", "Eq", "Neq"} :
         LET always == \A x \in Gamma(a), y \in Gamma(b) : Holds(op, x, y)
         IN  (IsOp(op, a, b) => always) /\ (always /\ op # "Neq" => IsOp(op, a, b))
    /\ a.kind \in {"set", "range", "half"} =>
         \A op \in {"Lt", "Gt", "Leq", "Geq", "Eq"} :
           \A x \in IF a.kind = "set" THEN Range(a.uni) ELSE U32 :
             (\E y \in Gamma(b) : Holds(op, x, y)) => x \in Gamma(NewLike(a, op, b))
    /\ a.kind = b.kind /\ a.kind \in {"set", "range", "half"} /\ (a.kind = "set" => a.uni = b.uni) =>
         /\ Gamma(DomainRestrict(a, b)) = Gamma(a) \cap Gamma(b)
         /\ Gamma(a) \cup Gamma(b) \subseteq Gamma(DomainInsert(a, b))
         /\ IsFailed(DomainRestrict(a, b)) = (Gamma(a) \cap Gamma(b) = {})

\* The domains with a value over some universes and bounds.
SomeDomains(universes, n) ==
  (UNION {{NumericSet(u, bits) : bits \in (SUBSET DOMAIN u) \ {{}}} : u \in universes})
  \cup {NumRange(r[1], r[2]) : r \in {q \in (0 .. n) \X (0 .. n) : q[1] <= q[2]}}
  \cup {HalfRange(x) : x \in 0 .. n} \cup {Constant(x) : x \in 0 .. n}
  \cup {Slice(u) : u \in universes}
====
