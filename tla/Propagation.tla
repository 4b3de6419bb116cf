---- MODULE Propagation ----
(***************************************************************************)
(* The search space at run time: telamon-gen compiles the constraints into *)
(* filters (FilterGen), the domain store is allocated and initialised, and *)
(* every decision is propagated to a fixpoint.  A change of a domain is    *)
(* recorded in a diff with the value it had when it was last propagated;   *)
(* popping an entry runs the on_change handler of the choice, which        *)
(* updates the counters, runs the filters that read the choice and fires   *)
(* the triggers, whose lowering may create objects and extend the store.   *)
(*                                                                         *)
(* Choices: flag(o) and num(o) on objects, the symmetric rel(o, p), and    *)
(* one counter cnt over the objects whose flag is in an increment set.     *)
(***************************************************************************)
EXTENDS FilterGen

CONSTANTS Systems,       \* the descriptions of search spaces to explore
          MaxObj         \* bound on the objects a lowering may create

\* What the parser and the checker of the descriptions ensure: a counter counts objects
\* by their flag, and by their number if its amounts are chosen; what is multiplied is
\* not zero.
ASSUME SystemsAssumption ==
  /\ {"flag", "num", "rel"} \subseteq DOMAIN Arity
  /\ Arity["flag"] = 1 /\ Arity["num"] = 1 /\ Arity["rel"] = 2
  /\ Numeric = {"num"} /\ "rel" \in Symmetric
  /\ \A s \in Systems :
       /\ s.choices \subseteq {"flag", "num", "rel", "cnt"} /\ s.objs \in Nat
       /\ "cnt" \in s.choices =>
            /\ "flag" \in s.choices /\ s.cnt.chosen \in BOOLEAN /\ (s.cnt.chosen => "num" \in s.choices)
            /\ s.cnt.kind \in {"Add", "Mul"} /\ s.cnt.incr \subseteq EnumValues
            /\ s.cnt.base \in Nat /\ s.cnt.amount \in Nat /\ s.cnt.limit \in Nat
            /\ s.cnt.kind = "Mul" => /\ s.cnt.base > 0 /\ (s.cnt.chosen \/ s.cnt.amount > 0)
                                     /\ \A i \in DOMAIN NumUniverse : NumUniverse[i] > 0

VARIABLES sys,           \* the description: constraints, counter, trigger
          phase,         \* stage of the compilation, then of the propagation
          work,          \* what the compilation has produced so far
          filters,       \* the filters of the generated code, in registration order
          objs,          \* number of objects of the set
          store,         \* DomainStore
          diff,          \* DomainDiff: choice instance -> (old, new)
          cursor,        \* the choice type propagate_changes is at
          sols           \* the solutions that agree with the decisions taken

vars == <<sys, phase, work, filters, objs, store, diff, cursor, sols>>

ChoiceOrder == <<"flag", "num", "rel", "cnt">>
Cnt == <<"cnt", <<>>>>

\* The choice instances that involve the given objects; cnt is allocated once.
InstancesOf(s, O) ==
  LET has(c) == c \in s.choices
  IN  {<<"flag", <<o>>>> : o \in IF has("flag") THEN O ELSE {}}
      \cup {<<"num", <<o>>>> : o \in IF has("num") THEN O ELSE {}}
      \cup {<<"rel", q>> : q \in IF has("rel") THEN {p \in O \X O : p[1] < p[2]} ELSE {}}
EnumInstances == InstancesOf(sys, 1 .. objs)
HasCounter == "cnt" \in sys.choices
Full(c) == IF c \in Numeric THEN Range(NumUniverse) ELSE EnumValues
------------------------------------------------------------------------------
(* The store.  `s' is the state a handler threads through its steps: the   *)
(* domains, the diff, the number of objects, and whether it still succeeds.*)

Mirror(c, values) == IF c \in Antisymmetric THEN InverseSet(values) ELSE values
Key(c, args) == IF c \in Symmetric /\ args[1] > args[2] THEN <<c, <<args[2], args[1]>>>>
                ELSE <<c, args>>
Oriented(c, args, values) == IF Key(c, args) # <<c, args>> THEN Mirror(c, values) ELSE values

\* get_X and get_old_X: the current domain, and the last one that was propagated.
Get(s, c, args) == Oriented(c, args, s.dom[Key(c, args)])
OldDomain(s, k) == IF k \in DOMAIN s.diff THEN s.diff[k].old ELSE s.dom[k]

SetDomain(s, k, d) ==
  IF s.dom[k] = d THEN s
  ELSE [s EXCEPT !.dom[k] = d,
                 !.diff = [j \in DOMAIN @ \cup {k} |->
                             IF j = k THEN [old |-> OldDomain(s, k), new |-> d] ELSE @[j]]]

\* restrict_X of a choice that is not a counter.
RestrictChoice(s, c, args, values) ==
  LET k == Key(c, args)
      d == s.dom[k] \cap Oriented(c, args, values)
  IN  IF ~s.ok THEN s ELSE [SetDomain(s, k, d) EXCEPT !.ok = d # {}]

\* Domain::is
Is(d, values) == IF d \cap values = {} THEN "F" ELSE IF d \subseteq values THEN "T" ELSE "M"
------------------------------------------------------------------------------
(* Counters.                                                               *)

Op(a, b) == IF sys.cnt.kind = "Add" THEN a + b ELSE a * b
Inv(a, b) == IF sys.cnt.kind = "Add" THEN a - b ELSE a \div b
Zero == IF sys.cnt.kind = "Add" THEN 0 ELSE 1
IsHalf == sys.cnt.vis = "NoMax"
Diff(min, max) == [min |-> min, max |-> max]

\* The increment amount of an object: user code, or the domain of num(o).
AmountIn(nums) == IF sys.cnt.chosen THEN Diff(MinValue(NumSetOf(nums)), MaxValue(NumSetOf(nums)))
                  ELSE Diff(sys.cnt.amount, sys.cnt.amount)
Amount(s, o) == AmountIn(IF sys.cnt.chosen THEN s.dom[<<"num", <<o>>>>] ELSE {})
OldAmount(s, o) == AmountIn(IF sys.cnt.chosen THEN OldDomain(s, <<"num", <<o>>>>) ELSE {})

\* apply_diff_add and apply_diff_mul on the counter, then the failure test.
SetCounter(s, r) ==
  IF ~s.ok THEN s
  ELSE [SetDomain(s, Cnt, r) EXCEPT !.ok = IsHalf \/ r.min <= r.max]
ApplyDiff(s, d) ==
  LET r == s.dom[Cnt]
  IN  SetCounter(s, Diff(Op(r.min, d.min), IF IsHalf THEN r.max ELSE Inv(r.max, d.max)))

GetDiff(r, new) == Diff(Inv(new.min, r.min), IF IsHalf THEN Zero ELSE Inv(r.max, new.max))

\* compute_counter, on the propagated domains only.
ComputeCounter(s) ==
  LET flag(o) == OldDomain(s, <<"flag", <<o>>>>)
      add(o, r) ==
        Diff(IF Is(flag(o), sys.cnt.incr) = "T" THEN Op(r.min, OldAmount(s, o).min) ELSE r.min,
             IF ~IsHalf /\ Is(flag(o), sys.cnt.incr) # "F"
             THEN Op(r.max, OldAmount(s, o).max) ELSE r.max)
  IN  FoldSet(add, Diff(sys.cnt.base, IF IsHalf THEN U32Max ELSE sys.cnt.base), 1 .. s.objs)

\* Mutant: the amount is read from the store, not as it was last propagated.
IncrCounterCurrent(s, o, old, new) ==
  LET status == Is(new, sys.cnt.incr)
      amount == Amount(s, o)
  IN  IF Is(old, sys.cnt.incr) # "M" THEN s
      ELSE IF status = "T" THEN ApplyDiff(s, Diff(amount.min, Zero))
      ELSE IF status = "F" /\ ~IsHalf THEN ApplyDiff(s, Diff(Zero, amount.max))
      ELSE s

\* incr_counter: the flag of an object starts or ceases to be a possible increment.
IncrCounter(s, o, old, new) ==
  LET status == Is(new, sys.cnt.incr)
      amount == OldAmount(s, o)
  IN  IF Is(old, sys.cnt.incr) # "M" THEN s
      ELSE IF status = "T" THEN ApplyDiff(s, Diff(amount.min, Zero))
      ELSE IF status = "F" /\ ~IsHalf THEN ApplyDiff(s, Diff(Zero, amount.max))
      ELSE s

\* update_counter: the amount of an increment changes.
UpdateCounter(s, o, old, new) ==
  LET status == Is(OldDomain(s, <<"flag", <<o>>>>), sys.cnt.incr)
      part(d) == Diff(IF status # "T" THEN Zero ELSE AmountIn(d).min,
                      IF status = "F" THEN Zero ELSE AmountIn(d).max)
      a == part(old)
      b == part(new)
      r == s.dom[Cnt]
  IN  IF a.min = b.min /\ (IsHalf \/ a.max = b.max) THEN s
      ELSE SetCounter(s, Diff(Op(Inv(r.min, a.min), b.min),
                              IF IsHalf THEN r.max ELSE Op(Inv(r.max, a.max), b.max)))

\* The bounds a restriction of the counter imposes on the increment of object o: what
\* restrict_counter does to its flag, and restrict_incr_amount to its amount.
\* Mutant: an increment that just reaches the maximum is refused.
FlagBoundStrict(s, o, new) ==
  LET cur == s.dom[Cnt]
      amount == Amount(s, o)
  IN  {v \in EnumValues :
         /\ Op(cur.min, amount.min) >= new.max => v \notin sys.cnt.incr
         /\ ~IsHalf /\ cur.max < Op(new.min, amount.max) => v \in sys.cnt.incr}
FlagBound(s, o, new) ==
  LET cur == s.dom[Cnt]
      amount == Amount(s, o)
  IN  {v \in EnumValues :
         /\ Op(cur.min, amount.min) > new.max => v \notin sys.cnt.incr
         /\ ~IsHalf /\ cur.max < Op(new.min, amount.max) => v \in sys.cnt.incr}
AmountBound(s, o, new) ==
  Gamma(NewNumericSet("Leq", NumUniverse,
          ConstOf(Op(Inv(new.max, s.dom[Cnt].min), Amount(s, o).min))))

\* <<choice, args, values>> for each object, in order; `read' is the state whose
\* domains decide, which is also the state restricted unless the action is delayed.
CounterStep(s, read, o, new, apply(_, _, _, _)) ==
  LET status == Is(read.dom[<<"flag", <<o>>>>], sys.cnt.incr)
  IN  IF status = "M" THEN apply(s, "flag", <<o>>, FlagBound(read, o, new))
      ELSE IF status = "T" /\ sys.cnt.chosen
      THEN apply(s, "num", <<o>>, AmountBound(read, o, new))
      ELSE s

\* The counter's own filter: the limit its constraint sets.
CounterFilter == Diff(0, sys.cnt.limit)
ClampedCounter(s) ==
  LET r == s.dom[Cnt]
  IN  Diff(Max({r.min, CounterFilter.min}),
           IF IsHalf THEN CounterFilter.max ELSE Min({r.max, CounterFilter.max}))

\* cnt::restrict, called by FilterSelf.
RestrictCounter(s) ==
  LET new == ClampedCounter(s)
      step(t, o) == IF t.ok THEN CounterStep(t, t, o, new, RestrictChoice) ELSE t
  IN  IF ~s.ok THEN s
      ELSE IF new.min > new.max THEN [s EXCEPT !.ok = FALSE]
      ELSE FoldLeft(step, s, [o \in 1 .. s.objs |-> o])
------------------------------------------------------------------------------
(* Filters.                                                                *)

\* The bindings of the variables of a filter to distinct objects.
FilterVars(f) == {Arg(i) : i \in 1 .. Arity[f.choice]} \cup {Forall(i) : i \in 1 .. f.nvars}
Bindings(f, n) == {b \in [FilterVars(f) -> 1 .. n] :
                     \A x, y \in FilterVars(f) : b[x] = b[y] => x = y}
ArgsOf(c, b) == [i \in 1 .. Arity[c] |-> b[Arg(i)]]
InstArgs(inst, b) == [k \in DOMAIN inst.vars |-> b[inst.vars[k]]]

\* X::filter_<id>, on the current domains.
CallFilter(s, f, b) ==
  FilterValues(f, [i \in DOMAIN f.inputs |-> Get(s, f.inputs[i].choice, InstArgs(f.inputs[i], b))])

\* X::filter: every filter of the choice, for every value of its quantified variables.
FilterOf(s, c, args) ==
  LET calls == UNION {{CallFilter(s, filters[i], b) :
                         b \in {d \in Bindings(filters[i], s.objs) : ArgsOf(c, d) = args}} :
                      i \in {j \in DOMAIN filters : filters[j].choice = c}}
  IN  {v \in Full(c) : \A values \in calls : v \in values}

\* The on_change actions of the filters that read the changed instance: one call of
\* the filter per position of the instance among its inputs and, for a symmetric
\* choice, per orientation; a symmetric choice is filtered on its lower triangle.
\* Mutant: only the stored orientation of a symmetric choice wakes its readers.
FilterCallsOneWay(s, c, args) ==
  LET targets(f, i) ==
        {ArgsOf(f.choice, b) : b \in {d \in Bindings(f, s.objs) :
            InstArgs(f.inputs[i], d) = args /\ (f.choice \in Symmetric => d[Arg(1)] < d[Arg(2)])}}
      ofFilter(f) == FlattenSeq([i \in DOMAIN f.inputs |->
          IF f.inputs[i].choice # c THEN <<>>
          ELSE SetToSeq({<<f, i, args, t>> : t \in targets(f, i)})])
  IN  FlattenSeq([j \in DOMAIN filters |-> ofFilter(filters[j])])
FilterCallsOn(s, c, args) ==
  LET orientations == IF c \in Symmetric THEN <<<<args[2], args[1]>>, args>> ELSE <<args>>
      targets(f, i, a) ==
        {ArgsOf(f.choice, b) : b \in {d \in Bindings(f, s.objs) :
            InstArgs(f.inputs[i], d) = a /\ (f.choice \in Symmetric => d[Arg(1)] < d[Arg(2)])}}
      call(f, i, a) == SetToSeq({<<f, i, a, t>> : t \in targets(f, i, a)})
      ofFilter(f) == FlattenSeq([i \in DOMAIN f.inputs |->
          IF f.inputs[i].choice # c THEN <<>>
          ELSE FlattenSeq([k \in DOMAIN orientations |-> call(f, i, orientations[k])])])
  IN  FlattenSeq([j \in DOMAIN filters |-> ofFilter(filters[j])])
RunFilterCall(s, call) ==
  LET f == call[1]
      bs == {b \in Bindings(f, s.objs) :
               InstArgs(f.inputs[call[2]], b) = call[3] /\ ArgsOf(f.choice, b) = call[4]}
  IN  IF ~s.ok THEN s
      ELSE RestrictChoice(s, f.choice, call[4],
             {v \in Full(f.choice) : \A b \in bs : v \in CallFilter(s, f, b)})
------------------------------------------------------------------------------
(* Lowering: init_domain_partial on the choices of a new object.           *)

OrderedInstances(S) ==
  FlattenSeq([i \in DOMAIN ChoiceOrder |-> SetToSeq({k \in S : k[1] = ChoiceOrder[i]})])

\* disable_increment: a new object cannot increment a counter whose maximum is
\* exposed; otherwise it may, and the stored maximum grows with it.
DisableIncrement(s, o) ==
  LET grow(r) == [r EXCEPT !.max = Op(@, Amount(s, o).max)]
      entry == [s.diff[Cnt] EXCEPT !.new = grow(@)]
  IN  CASE ~HasCounter -> s
        [] HasCounter /\ sys.cnt.vis = "Full" ->
             [s EXCEPT !.dom[<<"flag", <<o>>>>] = @ \ sys.cnt.incr,
                       !.ok = (s.dom[<<"flag", <<o>>>>] \ sys.cnt.incr # {})]
        [] HasCounter /\ sys.cnt.vis = "HiddenMax" ->
             [s EXCEPT !.dom[Cnt] = grow(@),
                       !.diff = IF Cnt \notin DOMAIN @ THEN @
                                ELSE IF entry.old.max <= entry.new.max
                                THEN [k \in DOMAIN @ \ {Cnt} |-> @[k]]
                                ELSE [@ EXCEPT ![Cnt] = entry]]
        [] OTHER -> s

\* apply_action: a choice is restricted, a counter changed by a difference.
ChoiceAct(k, values) == [k |-> k, values |-> values]
ApplyAction(s, a) == IF ~s.ok THEN s
                     ELSE IF a.k = Cnt THEN ApplyDiff(s, a.values)
                     ELSE RestrictChoice(s, a.k[1], a.k[2], a.values)

\* account_new_incrs: the change of the counter that a new object causes.
AccountNewIncrs(s, o) ==
  LET status == Is(OldDomain(s, <<"flag", <<o>>>>), sys.cnt.incr)
      amount == OldAmount(s, o)
  IN  IF ~HasCounter \/ sys.cnt.vis = "Full" THEN <<>>
      ELSE IF status = "T" THEN <<ChoiceAct(Cnt, Diff(amount.min, Zero))>>
      ELSE IF status = "F" /\ ~IsHalf THEN <<ChoiceAct(Cnt, Diff(Zero, amount.max))>>
      ELSE <<>>

\* run_filters, which does not record the change.
Narrow(s, k, d) == [s EXCEPT !.dom[k] = d, !.ok = d # {}]
RunFilters(s, k) == IF s.ok THEN Narrow(s, k, s.dom[k] \cap FilterOf(s, k[1], k[2])) ELSE s

\* restrict_delayed on the state `init': an action, unless nothing changes.
Delayed(init, acts, c, args, values) ==
  LET a == ChoiceAct(<<c, args>>, values \cap init.dom[<<c, args>>])
  IN  IF a.values = init.dom[a.k] THEN acts ELSE Append(acts, a)
FilterActions(s, ks) ==
  FoldLeft(LAMBDA acts, k : Delayed(s, acts, k[1], k[2], FilterOf(s, k[1], k[2])), <<>>, ks)

\* partial_init_filters: the filters quantified over the new object, on every choice.
PartialInitFilters(s, o) ==
  LET news(f, k) == {b \in Bindings(f, s.objs) :
                       ArgsOf(f.choice, b) = k[2] /\ \E i \in 1 .. f.nvars : b[Forall(i)] = o}
      step(t, k) ==
        LET fs == {i \in DOMAIN filters : filters[i].choice = k[1]}
            values == {v \in Full(k[1]) : \A i \in fs : \A b \in news(filters[i], k) :
                         v \in CallFilter(t, filters[i], b)}
        IN  RestrictChoice(t, k[1], k[2], values)
  IN  FoldLeft(step, s, OrderedInstances(InstancesOf(sys, 1 .. s.objs)))

\* process_lowering: allocate the choices of a new object and run init_domain_partial.
\* The result is the state and the actions to apply once the handler has finished.
Allocate(s, new) ==
  [s EXCEPT !.objs = @ + 1,
            !.dom = [k \in DOMAIN @ \cup new |-> IF k \in new THEN Full(k[1]) ELSE @[k]]]
InitPartial(lowered, filtered, new) ==
  IF ~filtered.ok THEN [lowered EXCEPT !.s = filtered]
  ELSE [s |-> PartialInitFilters(filtered, filtered.objs),
        acts |-> lowered.acts \o FilterActions(filtered, new) \o AccountNewIncrs(filtered, filtered.objs)]
Lower(lowered) ==
  LET n == lowered.s.objs
      new == InstancesOf(sys, 1 .. n + 1) \ InstancesOf(sys, 1 .. n)
  IN  InitPartial(lowered,
                  FoldLeft(RunFilters, DisableIncrement(Allocate(lowered.s, new), n + 1), OrderedInstances(new)),
                  OrderedInstances(new))

\* trigger_call: the lowering code is external and creates one object; the trigger is
\* checked again on the new object.
CallTrigger(lowered) ==
  LET step(l, o) ==
        IF l.s.ok /\ l.s.objs = o - 1
           /\ (o - 1 > lowered.s.objs => Is(OldDomain(l.s, <<"flag", <<o - 1>>>>), sys.trigger) = "T")
        THEN Lower(l) ELSE l
  IN  FoldLeft(step, lowered, [i \in 1 .. MaxObj - lowered.s.objs |-> lowered.s.objs + i])

\* trigger_on_change
TriggerFires(old, new) == Is(old, sys.trigger) # "F" /\ Is(new, sys.trigger) = "T"
------------------------------------------------------------------------------
(* X::on_change and init_domain.                                           *)

CountChange(s, k, old, new) ==
  CASE k[1] = "flag" /\ HasCounter -> IncrCounter(s, k[2][1], old, new)
    [] k[1] = "num" /\ HasCounter /\ sys.cnt.chosen -> UpdateCounter(s, k[2][1], old, new)
    [] k[1] = "cnt" -> RestrictCounter(s)
    [] OTHER -> s
FilterReaders(s, k) ==
  IF s.ok /\ k[1] # "cnt" THEN FoldLeft(RunFilterCall, s, FilterCallsOn(s, k[1], k[2])) ELSE s
ApplyLowered(lowered) == FoldLeft(ApplyAction, lowered.s, lowered.acts)
FireTrigger(s, k, old, new) ==
  IF s.ok /\ k[1] = "flag" /\ TriggerFires(old, new)
  THEN ApplyLowered(CallTrigger([s |-> s, acts |-> <<>>]))
  ELSE s
OnChange(s, k, old, new) ==
  FireTrigger(FilterReaders(CountChange(s, k, old, new), k), k, old, new)

\* Every filter runs once without recording changes; the actions of a second round,
\* and those of the triggers that already hold, are applied as decisions are.  What the
\* lowerings record meanwhile goes to a diff that is dropped.
NoDiff == [k \in {} |-> 0]
Undo(s) == [s EXCEPT !.diff = NoDiff]
InitFilter ==
  FoldLeft(RunFilters,
           [dom |-> [k \in EnumInstances \cup (IF HasCounter THEN {Cnt} ELSE {}) |->
                       IF k = Cnt THEN Diff(0, U32Max) ELSE Full(k[1])],
            diff |-> NoDiff, objs |-> objs, ok |-> TRUE],
           OrderedInstances(EnumInstances))
InitCounter(s) ==
  IF ~HasCounter \/ ~s.ok THEN s
  ELSE Undo(RestrictCounter([s EXCEPT !.dom[Cnt] = ComputeCounter(s)]))

CounterActions(init) ==
  LET exact == ComputeCounter(init)
      delayed(acts, c, args, values) == Delayed(init, acts, c, args, values)
  IN  FoldLeft(LAMBDA acts, o : CounterStep(acts, init, o, ClampedCounter(init), delayed),
               IF exact = init.dom[Cnt] THEN <<>>
               ELSE <<ChoiceAct(Cnt, GetDiff(init.dom[Cnt], exact))>>,
               [o \in 1 .. objs |-> o])
InitActions(init) ==
  FilterActions(init, OrderedInstances(EnumInstances)) \o (IF HasCounter THEN CounterActions(init) ELSE <<>>)

InitTriggers(init, acts) ==
  LET fires(o) == "flag" \in sys.choices /\ Is(init.dom[<<"flag", <<o>>>>], sys.trigger) = "T"
  IN  FoldLeft(LAMBDA l, o : IF fires(o) THEN CallTrigger(l) ELSE l,
               [s |-> init, acts |-> acts], [o \in 1 .. objs |-> o])
CounterFails(s) == HasCounter /\ ClampedCounter(s).min > ClampedCounter(s).max
InitPropagate(init) ==
  IF ~init.ok THEN init
  ELSE IF CounterFails(init) THEN [init EXCEPT !.ok = FALSE]
  ELSE LET lowered == InitTriggers(init, InitActions(init))
       IN  ApplyLowered([lowered EXCEPT !.s = Undo(@)])
InitDomain == InitPropagate(InitCounter(InitFilter))
------------------------------------------------------------------------------
(* The solutions of a search space without lowering.                       *)

ConstraintHolds(con, value(_, _)) ==
  \A b \in {m \in [{Forall(i) : i \in 1 .. con.nvars} -> 1 .. objs] :
              \A x, y \in DOMAIN m : m[x] = m[y] => x = y} :
    LET val(i) == value(con.inputs[i].choice, InstArgs(con.inputs[i], b))
        holds(c) ==
          CASE c.kind = "enum" -> (val(c.in) \in c.vals) # c.neg
            [] c.kind = "code" -> c.val # c.neg
            [] c.kind = "cmpcode" -> Holds(c.op, val(c.lhs), c.rhs)
            [] c.kind = "cmp" ->
                 IF con.inputs[c.lhs].choice \in Numeric
                 THEN Holds(c.op, val(c.lhs), val(c.rhs))
                 ELSE (val(c.lhs) = val(c.rhs)) = (c.op = "Eq")
    IN  \E k \in DOMAIN con.conds : holds(con.conds[k])

\* The value of a choice under a total assignment, and of the counter.
ValueIn(m, c, args) == CHOOSE v \in Oriented(c, args, {m[Key(c, args)]}) : TRUE
CounterIn(m) ==
  FoldSet(LAMBDA o, n : IF m[<<"flag", <<o>>>>] \notin sys.cnt.incr THEN n
                        ELSE Op(n, IF sys.cnt.chosen THEN m[<<"num", <<o>>>>]
                                   ELSE sys.cnt.amount),
          sys.cnt.base, 1 .. objs)
ConstraintsHold(m) ==
  \A i \in DOMAIN sys.cons : ConstraintHolds(sys.cons[i], LAMBDA c, args : ValueIn(m, c, args))
IsSolution(m) == ConstraintsHold(m) /\ (HasCounter => CounterIn(m) <= sys.cnt.limit)

\* Every way to give each instance of ks a value of its domain.
Assignments(dom, ks) ==
  LET extend(k, ms) == {[j \in DOMAIN m \cup {k} |-> IF j = k THEN x ELSE m[j]] :
                          m \in ms, x \in dom[k]}
  IN  FoldSet(extend, {NoDiff}, ks)
AllAssignments == Assignments([k \in EnumInstances |-> Full(k[1])], EnumInstances)
------------------------------------------------------------------------------
(* lib.rs, process: from constraints to filters.                           *)

Init ==
  /\ sys \in Systems
  /\ phase = "parsed"
  /\ work = sys.cons
  /\ filters = <<>>
  /\ objs = sys.objs
  /\ store = [k \in {} |-> 0]
  /\ diff = [k \in {} |-> 0]
  /\ cursor = 1
  /\ sols = {}

RuntimeVars == <<sys, objs, store, diff, cursor, sols>>

DedupStep ==
  /\ phase = "parsed"
  /\ work' = [i \in DOMAIN work |-> DedupInputs(work[i])]
  /\ phase' = "dedup"
  /\ UNCHANGED <<RuntimeVars, filters>>

GenStep ==
  /\ phase = "dedup"
  /\ work' = FlattenSeq([i \in DOMAIN work |-> GenFilters(work[i])])
  /\ phase' = "flat"
  /\ UNCHANGED <<RuntimeVars, filters>>

MergeStep ==
  /\ phase = "flat"
  /\ work' = FlattenSeq([i \in DOMAIN ChoiceOrder |->
               Merge(SelectSeq(work, LAMBDA f : f.choice = ChoiceOrder[i]))])
  /\ phase' = "merged"
  /\ UNCHANGED <<RuntimeVars, filters>>

TableStep ==
  /\ phase = "merged"
  /\ filters' = [i \in DOMAIN work |->
       [choice |-> work[i].choice, nvars |-> work[i].nvars, inputs |-> work[i].inputs,
        body |-> OptRules(work[i])]]
  /\ phase' = IF \A i \in DOMAIN filters' : Printable(filters'[i]) THEN "compiled" ELSE "panic"
  /\ work' = <<>>
  /\ UNCHANGED RuntimeVars

Commit(s) ==
  /\ store' = s.dom
  /\ diff' = s.diff
  /\ objs' = s.objs
  /\ phase' = IF ~s.ok THEN "failed" ELSE IF DOMAIN s.diff = {} THEN "idle" ELSE "propagate"

\* SearchSpace::new
NewSpace ==
  /\ phase = "compiled"
  /\ Commit(InitDomain)
  /\ sols' = IF sys.trigger # {} THEN {}
             ELSE {m \in AllAssignments : IsSolution(m)}
  /\ UNCHANGED <<sys, work, filters, cursor>>

Current == [dom |-> store, diff |-> diff, objs |-> objs, ok |-> TRUE]

\* apply_decisions, on a list of one or two decisions that each restrict an undecided
\* choice to one of its values.
Decide(k1, v1, k2, v2) ==
  /\ phase = "idle"
  /\ \A p \in {<<k1, v1>>, <<k2, v2>>} : p[2] \in store[p[1]] /\ store[p[1]] # {p[2]}
  /\ k1 = k2 => v1 = v2
  /\ Commit(RestrictChoice(RestrictChoice(Current, k1[1], k1[2], {v1}), k2[1], k2[2], {v2}))
  /\ sols' = {m \in sols : m[k1] = v1 /\ m[k2] = v2}
  /\ cursor' = 1
  /\ UNCHANGED <<sys, work, filters>>

\* propagate_changes: pop any entry of the current choice type and handle it.
Pop(k) ==
  /\ phase = "propagate"
  /\ k \in DOMAIN diff
  /\ k[1] = ChoiceOrder[cursor]
  /\ Commit(OnChange([Current EXCEPT !.diff = [j \in DOMAIN @ \ {k} |-> @[j]]],
                     k, diff[k].old, diff[k].new))
  /\ UNCHANGED <<sys, work, filters, cursor, sols>>

\* Mutant: the last choice type is never reached.
AdvanceShort ==
  /\ phase = "propagate"
  /\ ~ \E k \in DOMAIN diff : k[1] = ChoiceOrder[cursor]
  /\ cursor' = IF cursor = Len(ChoiceOrder) - 1 THEN 1 ELSE cursor + 1
  /\ UNCHANGED <<sys, phase, work, filters, objs, store, diff, sols>>

\* The next choice type; apply_decisions starts over as long as the diff is not empty.
Advance ==
  /\ phase = "propagate"
  /\ ~ \E k \in DOMAIN diff : k[1] = ChoiceOrder[cursor]
  /\ cursor' = IF cursor = Len(ChoiceOrder) THEN 1 ELSE cursor + 1
  /\ UNCHANGED <<sys, phase, work, filters, objs, store, diff, sols>>

Next ==
  \/ DedupStep \/ GenStep \/ MergeStep \/ TableStep \/ NewSpace
  \/ \E k1, k2 \in EnumInstances : \E v1 \in Full(k1[1]), v2 \in Full(k2[1]) :
       Decide(k1, v1, k2, v2)
  \/ \E k \in DOMAIN diff : Pop(k)
  \/ Advance

Spec == Init /\ [][Next]_vars
------------------------------------------------------------------------------
(* Properties.                                                             *)

Running == phase \in {"idle", "propagate"}

\* Propagation never removes a value that some solution compatible with the decisions
\* still needs, and a failed propagation means that no solution is left.
SolutionsKept ==
  sys.trigger = {} =>
    /\ Running => \A m \in sols : \A k \in EnumInstances : m[k] \in store[k]
    /\ phase = "failed" => sols = {}

\* Between two handlers the counter is what compute_counter returns on the domains that
\* have been propagated: no increment is lost or counted twice, whatever the order in
\* which the pending changes of flags, amounts and new objects are handled.
CounterExact ==
  Running /\ HasCounter => store[Cnt] = ComputeCounter(Current)

\* When the diff is empty every filter has been taken into account; in particular a
\* space with every choice decided satisfies its constraints and its limit.
FixpointReached ==
  phase = "idle" =>
    /\ \A k \in EnumInstances : store[k] \subseteq FilterOf(Current, k[1], k[2])
    /\ (\A k \in EnumInstances : Cardinality(store[k]) = 1) =>
         IsSolution([k \in EnumInstances |-> CHOOSE v \in store[k] : TRUE])

\* Compiled filters mean what the constraints say: they restrict and read choices that
\* exist, on every combination of domains they keep the values of the solutions, and they
\* accept a fully decided combination exactly when it satisfies the constraints.
FiltersTyped ==
  /\ DOMAIN filters = 1 .. Len(filters)
  /\ \A i \in DOMAIN filters : /\ filters[i].choice \in sys.choices \cap {"flag", "num", "rel"}
                               /\ DOMAIN filters[i].inputs = 1 .. Len(filters[i].inputs)
InputTyped(f, inst) ==
  /\ inst.choice \in sys.choices \cap {"flag", "num", "rel"}
  /\ inst.vars \in [1 .. Arity[inst.choice] -> FilterVars(f)]
  /\ \A p, q \in 1 .. Arity[inst.choice] : inst.vars[p] = inst.vars[q] => p = q
InputsTyped ==
  \A i \in DOMAIN filters : \A j \in DOMAIN filters[i].inputs : InputTyped(filters[i], filters[i].inputs[j])
StateOf(d) == [dom |-> d, diff |-> NoDiff, objs |-> objs, ok |-> TRUE]
AllDomains == Assignments([k \in EnumInstances |-> (SUBSET Full(k[1])) \ {{}}], EnumInstances)
FiltersSound ==
  \A d \in AllDomains :
    LET kept == [k \in EnumInstances |-> FilterOf(StateOf(d), k[1], k[2])]
    IN  \A m \in AllAssignments :
          ConstraintsHold(m) /\ (\A k \in EnumInstances : m[k] \in d[k]) =>
            \A k \in EnumInstances : m[k] \in kept[k]
FiltersComplete ==
  LET accepts(d) == \A k \in EnumInstances : d[k] \subseteq FilterOf(StateOf(d), k[1], k[2])
  IN  \A m \in AllAssignments : accepts([k \in EnumInstances |-> {m[k]}]) = ConstraintsHold(m)
FiltersFaithful ==
  phase = "compiled" =>
    FiltersTyped /\ InputsTyped /\ (sys.exhaustive => FiltersSound /\ FiltersComplete)

\* The integer domains the filters are made of.
DomainsSound ==
  phase = "parsed" /\ sys.exhaustive => DomainOpsSound(SomeDomains({NumUniverse, <<1, 3>>}, 4) \cup {AllValues(NumUniverse)})

\* Propagation terminates: each handler creates objects, or tightens a domain, or just
\* empties the diff, and the walk over the choice types comes closer to a pending one.
Measure ==
  LET size(k) == IF k = Cnt THEN store[k].max - store[k].min ELSE Cardinality(store[k])
      distance == Min({(i - cursor) % Len(ChoiceOrder) : i \in
                         {j \in DOMAIN ChoiceOrder : \E k \in DOMAIN diff : k[1] = ChoiceOrder[j]}})
  IN  <<MaxObj - objs, MapThenSumSet(size, DOMAIN store), Cardinality(DOMAIN diff), distance>>
PropagationEnds ==
  [][phase = "propagate" /\ phase' = "propagate" =>
       \E i \in 1 .. 4 : /\ Measure'[i] < Measure[i]
                         /\ \A j \in 1 .. i - 1 : Measure'[j] = Measure[j]]_vars
====
