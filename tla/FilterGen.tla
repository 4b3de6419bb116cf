---- MODULE FilterGen ----
(***************************************************************************)
(* How telamon-gen turns the constraints of the search space into filters: *)
(* a constraint is a disjunction of conditions on choices; for each choice *)
(* it mentions, a rule is derived ("if the other conditions are all false, *)
(* the choice is restricted to the values that satisfy its own"), rules on *)
(* the same inputs are merged and compiled into a decision tree through a  *)
(* truth table, and the generated code evaluates the tree on the domains   *)
(* of the inputs.                                                          *)
(*                                                                         *)
(* Choices are instantiated on objects of one set.  Variables are numbers: *)
(* Arg(i) is the i-th argument of the filtered choice, Forall(i) the i-th  *)
(* quantified variable.                                                    *)
(*                                                                         *)
(* Left out: fragile values, which a filter lets through unless its        *)
(* constraint asks to restrict them (restrict_fragile), and set            *)
(* constraints, which apply a filter only to the objects of some sets.     *)
(***************************************************************************)
EXTENDS NumDomains, FiniteSets

CONSTANTS EnumSeq,       \* the values of the enum the choices take, in order
          Opposite,       \* the antisymmetric counterpart of each value
          Symmetric,     \* choices stored on the lower triangle only
          Antisymmetric, \* the symmetric choices whose mirror is inverted
          Numeric,       \* choices that take numbers instead of enum values
          NumUniverse,   \* the universe of the numeric choices
          Arity          \* number of arguments of each choice

EnumValues == Range(EnumSeq)

ASSUME FilterGenAssumption ==
  /\ EnumSeq \in Seq(EnumValues) /\ EnumValues # {}
  /\ Opposite \in [EnumValues -> EnumValues]
  /\ \A v \in EnumValues : Opposite[Opposite[v]] = v
  /\ Antisymmetric \subseteq Symmetric
  /\ Symmetric \subseteq {c \in DOMAIN Arity : Arity[c] = 2}
  /\ Numeric \subseteq DOMAIN Arity \ Symmetric

\* The sizes of a dimension are a VecSet that is not empty.  That the masks have room for
\* them, and for one position past the last, is taken for granted by the code.
ASSUME UniverseAssumption ==
  /\ NumUniverse \in Seq(U32) /\ Len(NumUniverse) \in 1 .. MaxLen - 2
  /\ \A i, j \in 1 .. Len(NumUniverse) : i < j => NumUniverse[i] < NumUniverse[j]

Arg(i) == i
Forall(i) == 10 + i

InverseSet(S) == {Opposite[v] : v \in S}
------------------------------------------------------------------------------
(* Conditions and sets of values, ir/filter.rs.                            *)

\* ir::Condition::{Enum, CmpInput, CmpCode, Code}.
IsEnum(input, values, negate) ==
  [kind |-> "enum", in |-> input, vals |-> values, neg |-> negate, inv |-> FALSE]
CmpInput(lhs, op, rhs) ==
  [kind |-> "cmp", lhs |-> lhs, rhs |-> rhs, op |-> op, inv |-> FALSE]
CmpCode(lhs, op, value) == [kind |-> "cmpcode", lhs |-> lhs, rhs |-> value, op |-> op]
Code(value, negate) == [kind |-> "code", val |-> value, neg |-> negate]

NegateOp == [Lt |-> "Geq", Gt |-> "Leq", Leq |-> "Gt", Geq |-> "Lt",
             Eq |-> "Neq", Neq |-> "Eq"]
InverseOp == [Lt |-> "Gt", Gt |-> "Lt", Leq |-> "Geq", Geq |-> "Leq",
              Eq |-> "Eq", Neq |-> "Neq"]
AllowsEq(op) == op \in {"Leq", "Geq", "Eq"}

\* Condition::negate
Negate(c) == IF c.kind \in {"enum", "code"} THEN [c EXCEPT !.neg = ~@]
             ELSE [c EXCEPT !.op = NegateOp[@]]

\* normalize_values: the enum values a condition lists, un-inverted and un-negated.
NormalizeValues(values, negate, inverse) ==
  LET vals == IF inverse THEN InverseSet(values) ELSE values
  IN  IF negate THEN EnumValues \ vals ELSE vals

\* ValueSet::Enum and ValueSet::Integer.  An input of an enum set is a triple
\* <<input, negated, inverted>>, a bound of an integer set <<op, "in" or "code", which>>.
EnumSet(values) == [t |-> "enum", vals |-> values, ins |-> {}]
IntSet(isFull, bounds) == [t |-> "int", full |-> isFull, cmps |-> bounds]
EmptySet(isNum) == IF isNum THEN IntSet(FALSE, {}) ELSE EnumSet({})

IsEmptySet(s) == IF s.t = "enum" THEN s.vals = {} /\ s.ins = {}
                 ELSE ~s.full /\ s.cmps = {}
IsFullSet(s) == IF s.t = "enum" THEN s.vals = EnumValues ELSE s.full

\* ValueSet::from_properties and ValueSet::from_input
FromProperties(isNum, isEq, isInv) ==
  IF isNum THEN IntSet(isEq, {})
  ELSE IF isInv
       THEN EnumSet(NormalizeValues({v \in EnumValues : Opposite[v] = v}, ~isEq, FALSE))
       ELSE EnumSet(NormalizeValues({}, isEq, FALSE))
FromInput(isNum, input, op, inverse) ==
  IF isNum THEN IntSet(FALSE, {<<op, "in", input>>})
  ELSE [EnumSet({}) EXCEPT !.ins = {<<input, op = "Neq", inverse>>}]

\* ValueSet::extend
Extend(s, o) ==
  IF s.t = "enum" THEN [s EXCEPT !.vals = @ \cup o.vals, !.ins = @ \cup o.ins]
  ELSE IF s.full \/ o.full THEN [s EXCEPT !.full = TRUE]
  ELSE [s EXCEPT !.cmps = @ \cup o.cmps]

\* ValueSet::intersect: whether the intersection is one set, and that set.
CanIntersect(s, o) ==
  IF s.t = "enum" THEN s.ins = {} /\ o.ins = {}
  ELSE s.full \/ o.full \/ o.cmps \subseteq s.cmps \/ s.cmps \subseteq o.cmps
Intersect(s, o) ==
  IF s.t = "enum" THEN [s EXCEPT !.vals = @ \cap o.vals]
  ELSE IF s.full \/ (~o.full /\ o.cmps \subseteq s.cmps) THEN o ELSE s

\* ValueSet::inverse, of the values of an antisymmetric choice.
InverseValueSet(s) ==
  [s EXCEPT !.vals = InverseSet(@), !.ins = {<<i[1], i[2], ~i[3]>> : i \in @}]

\* Condition::alternatives_of: the values of input `id' that satisfy the condition
\* on their own; {} when the condition is not about that input.
AlternativesOf(c, id, isNum) ==
  CASE c.kind = "enum" /\ c.in = id ->
         {EnumSet(NormalizeValues(c.vals, c.neg, c.inv))}
    [] c.kind = "cmpcode" /\ c.lhs = id -> {IntSet(FALSE, {<<c.op, "code", c.rhs>>})}
    [] c.kind = "cmp" /\ c.lhs = id /\ c.rhs = id ->
         {FromProperties(isNum, AllowsEq(c.op), c.inv)}
    [] c.kind = "cmp" /\ c.lhs = id /\ c.rhs # id ->
         {FromInput(isNum, c.rhs, c.op, c.inv)}
    [] c.kind = "cmp" /\ c.rhs = id /\ c.lhs # id ->
         {FromInput(isNum, c.lhs, InverseOp[c.op], c.inv)}
    [] OTHER -> {}
------------------------------------------------------------------------------
(* Adaptators, ir/adaptator.rs: renamings of variables and inputs, which   *)
(* also record the inputs read through their mirror.                       *)

Vars == {Arg(1), Arg(2)} \cup {Forall(i) : i \in 1 .. 3}
MaxInputs == 3
IdAdaptator == [var |-> [v \in Vars |-> v], in |-> [i \in 1 .. MaxInputs |-> <<i, FALSE>>]]
SetInput(a, old, new) == [a EXCEPT !.in[old][1] = new]

AdaptInstance(a, inst) == [inst EXCEPT !.vars = [k \in DOMAIN @ |-> a.var[@[k]]]]
AdaptCondition(a, c) ==
  CASE c.kind = "enum" -> [c EXCEPT !.in = a.in[c.in][1], !.inv = @ # a.in[c.in][2]]
    [] c.kind = "cmp" -> [c EXCEPT !.lhs = a.in[c.lhs][1], !.rhs = a.in[c.rhs][1],
                                   !.inv = (@ # a.in[c.lhs][2]) # a.in[c.rhs][2]]
    [] c.kind = "cmpcode" -> [c EXCEPT !.lhs = a.in[c.lhs][1]]
    [] OTHER -> c
AdaptSet(a, s) ==
  IF s.t = "enum"
  THEN [s EXCEPT !.ins = {<<a.in[i[1]][1], i[2], i[3] # a.in[i[1]][2]>> : i \in @}]
  ELSE [s EXCEPT !.cmps = {IF b[2] = "in" THEN [b EXCEPT ![3] = a.in[@][1]] ELSE b : b \in @}]
AdaptRule(a, r) == [conds |-> {AdaptCondition(a, c) : c \in r.conds},
                    alts |-> AdaptSet(a, r.alts)]

\* ChoiceInstance::normalize: the arguments of a symmetric choice are sorted.
Swapped(inst) == inst.choice \in Symmetric /\ inst.vars[1] > inst.vars[2]
Normalize(inst) == IF Swapped(inst) THEN [inst EXCEPT !.vars = <<@[2], @[1]>>] ELSE inst
\* Mutant: swapped arguments are not remembered.
NeverInverts(inst) == FALSE
NormalizeInverts(inst) == Swapped(inst) /\ inst.choice \in Antisymmetric

\* The adaptator that records the inputs which normalisation inverts.
NormalizingAdaptator(inputs) ==
  [IdAdaptator EXCEPT !.in = [i \in 1 .. MaxInputs |->
     <<i, i \in DOMAIN inputs /\ NormalizeInverts(inputs[i])>>]]

\* dedup_inputs
DedupInputs(con) ==
  LET norm == [i \in DOMAIN con.inputs |-> Normalize(con.inputs[i])]
      first(i) == CHOOSE j \in DOMAIN norm :
                    norm[j] = norm[i] /\ \A k \in 1 .. j - 1 : norm[k] # norm[i]
      firsts == {i \in DOMAIN norm : first(i) = i}
      newPos(i) == Cardinality({j \in firsts : j <= first(i)})
      adapt == [NormalizingAdaptator(con.inputs) EXCEPT
                  !.in = [i \in 1 .. MaxInputs |->
                            <<IF i \in DOMAIN norm THEN newPos(i) ELSE i, @[i][2]>>]]
  IN  [con EXCEPT !.inputs = [p \in 1 .. Cardinality(firsts) |->
                                norm[CHOOSE i \in firsts : newPos(i) = p]],
                  !.conds = [k \in DOMAIN @ |-> AdaptCondition(adapt, @[k])]]
------------------------------------------------------------------------------
(* From a constraint to flat filters, constraint.rs and flat_filter.rs.    *)

\* FlatFilter::new
FlatFilter(choice, nvars, inputs, rules) ==
  LET a == NormalizingAdaptator(inputs)
  IN  [choice |-> choice, nvars |-> nvars,
       inputs |-> [i \in DOMAIN inputs |-> Normalize(inputs[i])],
       rules |-> [r \in DOMAIN rules |-> AdaptRule(a, rules[r])]]

\* IrDesc::adapt_env: the variables of a constraint seen from one of its inputs.
AdaptEnv(nvars, target) ==
  LET rest == {Forall(i) : i \in 1 .. nvars} \ Range(target.vars)
      rank(v) == Cardinality({w \in rest : w <= v})
  IN  [IdAdaptator EXCEPT !.var = [v \in Vars |->
         IF v \in Range(target.vars)
         THEN Arg(CHOOSE k \in DOMAIN target.vars : target.vars[k] = v)
         ELSE IF v \in rest THEN Forall(rank(v)) ELSE v]]

\* ChoiceCondition::new and gen_flat_filter: {} when the choice is not restricted.
GenFlatFilter(con, id) ==
  LET target == con.inputs[id]
      isNum == target.choice \in Numeric
      last == Len(con.inputs)
      adapt == SetInput(AdaptEnv(con.nvars, target), last, id)
      inputs == [i \in 1 .. last - 1 |->
                   AdaptInstance(adapt, con.inputs[IF i = id THEN last ELSE i])]
      onSelf(c) == AlternativesOf(c, id, isNum)
      self == FoldSet(Extend, EmptySet(isNum),
                UNION {{AdaptSet(adapt, s) : s \in onSelf(c)} : c \in Range(con.conds)})
      others == {Negate(AdaptCondition(adapt, c)) :
                   c \in {d \in Range(con.conds) : onSelf(d) = {}}}
  IN  IF IsFullSet(self) THEN {}
      ELSE {FlatFilter(target.choice, con.nvars - Len(target.vars), inputs,
                       <<[conds |-> others, alts |-> self]>>)}

\* FlatFilter::inverse: the filter of the mirror of a symmetric choice.
InverseFilter(f) ==
  LET a == [IdAdaptator EXCEPT !.var[Arg(1)] = Arg(2), !.var[Arg(2)] = Arg(1)]
      mirror(r) == IF f.choice \in Antisymmetric
                   THEN [r EXCEPT !.alts = InverseValueSet(@)] ELSE r
  IN  FlatFilter(f.choice, f.nvars,
                 [i \in DOMAIN f.inputs |-> AdaptInstance(a, f.inputs[i])],
                 [r \in DOMAIN f.rules |-> mirror(AdaptRule(a, f.rules[r]))])

\* Constraint::gen_filters
GenFilters(con) ==
  LET ofInput(id) ==
        LET f == SetToSeq(GenFlatFilter(con, id))
        IN  IF f # <<>> /\ f[1].choice \in Symmetric THEN <<InverseFilter(f[1])>> \o f
            ELSE f
  IN  FlattenSeq([id \in DOMAIN con.inputs |-> ofInput(id)])

\* The injections of the quantified variables of one filter into those of another.
VarMaps(n, k) == {m \in [1 .. k -> 1 .. n] : \A i, j \in 1 .. k : m[i] = m[j] => i = j}

\* FlatFilter::try_merge for one mapping of the variables: the adaptator of the other
\* filter's rules, {} when one of its inputs is not an input of this one.
MergeAdaptator(f, g, m) ==
  LET renamed == [IdAdaptator EXCEPT !.var = [v \in Vars |->
                    IF \E i \in DOMAIN m : v = Forall(i)
                    THEN Forall(m[CHOOSE i \in DOMAIN m : v = Forall(i)]) ELSE v]]
      input(i) == AdaptInstance(renamed, g.inputs[i])
      position(i) == {p \in DOMAIN f.inputs : f.inputs[p] = Normalize(input(i))}
  IN  IF \E i \in DOMAIN g.inputs : position(i) = {} THEN {}
      ELSE {[renamed EXCEPT !.in = [i \in 1 .. MaxInputs |->
               IF i \in DOMAIN g.inputs
               THEN <<CHOOSE p \in position(i) : TRUE, NormalizeInverts(input(i))>>
               ELSE <<i, FALSE>>]]}

\* FlatFilter::try_merge: <<merged, the filter with the adapted rules>>.
TryMerge(f, g) ==
  LET maps == SetToSeq(UNION {MergeAdaptator(f, g, m) : m \in VarMaps(f.nvars, g.nvars)})
      used == IF f.inputs = <<>> /\ f.nvars = g.nvars /\ maps # <<>> THEN <<maps[1]>> ELSE maps
      rules == FlattenSeq([k \in DOMAIN used |->
                 [r \in DOMAIN g.rules |-> AdaptRule(used[k], g.rules[r])]])
  IN  IF (f.inputs = <<>>) # (g.inputs = <<>>) THEN <<FALSE, f>>
      ELSE <<f.nvars = g.nvars /\ maps # <<>>, [f EXCEPT !.rules = @ \o rules]>>

\* flat_filter::merge, on the filters of one choice.
Merge(filters) ==
  LET byInputs == SortSeq(filters, LAMBDA a, b : Len(a.inputs) < Len(b.inputs))
      add(g, merged) ==
        LET tried == [k \in DOMAIN merged |-> TryMerge(merged[k], g)]
            kept == [k \in DOMAIN merged |-> tried[k][2]]
        IN  IF \E k \in DOMAIN tried : tried[k][1] THEN kept ELSE Append(kept, g)
  IN  FoldRight(add, byInputs, <<>>)
------------------------------------------------------------------------------
(* Truth tables, truth_table.rs.  A table is indexed by the values of the  *)
(* enum inputs; a view of it fixes some of them.                           *)

TriAnd(a, b) == IF "F" \in {a, b} THEN "F" ELSE IF "M" \in {a, b} THEN "M" ELSE "T"
TriNot(a) == CASE a = "T" -> "F" [] a = "F" -> "T" [] OTHER -> "M"
ValueIs(a, b) == IF a \subseteq b THEN "T" ELSE IF a \cap b = {} THEN "F" ELSE "M"

\* Condition::evaluate when each input of DOMAIN m has the single value m[i].
Evaluate(c, m) ==
  CASE c.kind = "enum" ->
         IF c.in \in DOMAIN m THEN ValueIs({m[c.in]}, NormalizeValues(c.vals, c.neg, c.inv))
         ELSE "M"
    [] c.kind = "cmp" /\ {c.lhs, c.rhs} \subseteq DOMAIN m ->
         LET l == IF c.inv THEN {Opposite[m[c.lhs]]} ELSE {m[c.lhs]}
             same == TriAnd(ValueIs(l, {m[c.rhs]}), ValueIs({m[c.rhs]}, l))
         IN  IF c.op = "Eq" THEN same ELSE IF c.op = "Neq" THEN TriNot(same) ELSE "M"
    [] OTHER -> "M"

\* Condition::normalize
NormalizeCondition(c) ==
  CASE c.kind = "enum" -> [c EXCEPT !.vals = NormalizeValues(@, c.neg, c.inv),
                                    !.neg = FALSE, !.inv = FALSE]
    [] c.kind = "cmp" /\ c.lhs > c.rhs ->
         [c EXCEPT !.lhs = c.rhs, !.rhs = c.lhs, !.op = InverseOp[@]]
    [] OTHER -> c

\* ValueSet::instantiate
InstantiateSet(s, m) ==
  IF s.t = "int" THEN s
  ELSE LET known == {i \in s.ins : i[1] \in DOMAIN m}
           values(i) == NormalizeValues({m[i[1]]}, i[2], i[3])
       IN  [s EXCEPT !.vals = @ \cup UNION {values(i) : i \in known}, !.ins = @ \ known]

\* Rule::instantiate and Rule::normalize: {} when a condition is false.
InstantiateRule(r, m) ==
  IF \E c \in r.conds : Evaluate(c, m) = "F" THEN {}
  ELSE {[conds |-> {NormalizeCondition(c) : c \in {d \in r.conds : Evaluate(d, m) # "T"}},
         alts |-> InstantiateSet(r.alts, m)]}

\* Cell::build: per list of conditions, the sets of values that could not be intersected.
CellBuild(rules, m) ==
  LET put(sets, s) ==
        LET fits == {k \in DOMAIN sets : CanIntersect(sets[k], s)}
            first == CHOOSE k \in fits : \A j \in fits : k <= j
        IN  IF fits = {} THEN Append(sets, s)
            ELSE [sets EXCEPT ![first] = Intersect(@, s)]
      add(cell, r) ==
        LET old == IF r.conds \in DOMAIN cell THEN cell[r.conds] ELSE <<>>
        IN  [k \in DOMAIN cell \cup {r.conds} |->
               IF k = r.conds THEN put(old, r.alts) ELSE cell[k]]
      inst == FlattenSeq([k \in DOMAIN rules |-> SetToSeq(InstantiateRule(rules[k], m))])
  IN  FoldLeft(add, [k \in {} |-> <<>>], inst)

CellRules(cell) ==
  UNION {{[conds |-> k, alts |-> s] : s \in Range(cell[k])} : k \in DOMAIN cell}
CellIsEmpty(cell) == {} \in DOMAIN cell /\ \E s \in Range(cell[{}]) : IsEmptySet(s)

\* table_min_split on the view that fixes the inputs of m: for one open input, the
\* branches whose content differs, each with the values that lead to it.
Branches(cells, open, m, i) ==
  LET fix(v) == [j \in DOMAIN m \cup {i} |-> IF j = i THEN v ELSE m[j]]
      rest == open \ {i}
      content(v) == [a \in [rest -> EnumValues] |-> cells[a @@ fix(v)]]
      isEmpty(v) == \A a \in [rest -> EnumValues] : CellIsEmpty(content(v)[a])
      add(bs, v) ==
        LET same == {k \in DOMAIN bs : content(bs[k].first) = content(v)}
        IN  IF isEmpty(v) THEN bs
            ELSE IF same = {} THEN Append(bs, [first |-> v, vals |-> {v}])
            ELSE [bs EXCEPT ![CHOOSE k \in same : TRUE].vals = @ \cup {v}]
  IN  FoldLeft(add, <<>>, EnumSeq)
NoSplit(bs) == Len(bs) = 1 /\ bs[1].vals = EnumValues

\* truth_table_to_filter, flattened: the leaves of the decision tree, each with the
\* switches on the path to it and its rules.
TruthTableToFilter(cells, inputs) ==
  LET leaves[m \in UNION {[D -> EnumValues] : D \in SUBSET inputs}] ==
        LET open == inputs \ DOMAIN m
            bs == [i \in open |-> Branches(cells, open, m, i)]
            forward == {i \in open : NoSplit(bs[i])}
            best == CHOOSE i \in open : \A j \in open :
                      \/ Len(bs[i]) < Len(bs[j])
                      \/ Len(bs[i]) = Len(bs[j]) /\ i <= j
            fix(i, v) == [j \in DOMAIN m \cup {i} |-> IF j = i THEN v ELSE m[j]]
        IN  IF open = {} THEN {[path |-> {}, rules |-> CellRules(cells[m])]}
            ELSE IF forward # {}
            THEN leaves[fix(CHOOSE i \in forward : \A j \in forward : i <= j, Last(EnumSeq))]
            ELSE UNION {{[leaf EXCEPT !.path = @ \cup {<<best, bs[best][k].vals>>}] :
                           leaf \in leaves[fix(best, bs[best][k].first)]} :
                        k \in DOMAIN bs[best]}
  IN  leaves[[i \in {} |-> 0]]

\* opt_rules: a single rule is kept as it is.
OptRules(f) ==
  LET tabled == {i \in DOMAIN f.inputs : f.inputs[i].choice \notin Numeric}
      cells == [m \in [tabled -> EnumValues] |-> CellBuild(f.rules, m)]
  IN  IF Len(f.rules) = 1 THEN {[path |-> {}, rules |-> Range(f.rules)]}
      ELSE TruthTableToFilter(cells, tabled)
------------------------------------------------------------------------------
(* The generated filter functions, print/filter.rs and print/value_set.rs: *)
(* `d' gives the domain of each input.                                     *)

NumSetOf(S) == [kind |-> "set", uni |-> NumUniverse, bits |-> {k \in DOMAIN NumUniverse : NumUniverse[k] \in S}]
ConstOf(n) == [kind |-> "const", val |-> n]

\* filter.rs, condition and comparison
CondHolds(c, d) ==
  CASE c.kind = "enum" -> d[c.in] \cap NormalizeValues(c.vals, ~c.neg, c.inv) = {}
    [] c.kind = "code" -> c.val # c.neg
    [] c.kind = "cmpcode" -> IsOp(c.op, NumSetOf(d[c.lhs]), ConstOf(c.rhs))
    [] c.kind = "cmp" -> IsOp(c.op, NumSetOf(d[c.lhs]), NumSetOf(d[c.rhs]))

\* value_set.rs, print and enum_set
AllowedValues(s, d) ==
  IF s.t = "enum"
  THEN s.vals \cup UNION {NormalizeValues(d[i[1]], i[2], i[3]) : i \in s.ins}
  ELSE IF s.full THEN Range(NumUniverse)
  ELSE UNION {Gamma(NewNumericSet(b[1], NumUniverse,
                IF b[2] = "in" THEN NumSetOf(d[b[3]]) ELSE ConstOf(b[3]))) : b \in s.cmps}

\* PositiveFilter and its template: the union of the branches the inputs may take.
FilterValues(f, d) ==
  LET all == IF f.choice \in Numeric THEN Range(NumUniverse) ELSE EnumValues
      taken == {leaf \in f.body : \A g \in leaf.path : d[g[1]] \cap g[2] # {}}
      kept(leaf) == {v \in all : \A r \in leaf.rules :
                       (\A c \in r.conds : CondHolds(c, d)) => v \in AllowedValues(r.alts, d)}
  IN  UNION {kept(leaf) : leaf \in taken}

\* value::universe panics on an enum: comparisons of enum inputs must have been
\* resolved by the truth table.
Printable(f) ==
  \A leaf \in f.body : \A r \in leaf.rules : \A c \in r.conds :
    c.kind = "cmp" => f.inputs[c.lhs].choice \in Numeric
====
