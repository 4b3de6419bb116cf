---------------------------- MODULE KernelSpace ----------------------------
(***************************************************************************)
(* Candidate implementations of a function (src/src/search_space): the     *)
(* function, and for every choice the set of the values it may still take. *)
(* An explorer fixes one choice after the other in the default order       *)
(* (explorer/choice.rs, explorer/config.rs); dimensions that are merged,   *)
(* or that can be mapped no more, change the function itself.              *)
(*                                                                         *)
(* How a decision is propagated is the subject of Propagation.tla; here a  *)
(* value is taken when no constraint of the .exh files refuses it together *)
(* with the domains of the other choices, and what is left to check when   *)
(* every choice is made is in `Implementable'.  The sizes are far below    *)
(* the limit of a block dimension inside another one, which is left out.   *)
(***************************************************************************)
EXTENDS Ir

Kinds == {"LOOP", "UNROLL", "INNER_VECTOR", "OUTER_VECTOR", "BLOCK", "THREAD"}
Vector == {"INNER_VECTOR", "OUTER_VECTOR"}
Orders == {"BEFORE", "AFTER", "INNER", "OUTER", "MERGED"}
Ordered == {"BEFORE", "AFTER"}
Nested == {"INNER", "OUTER"}
ThreadMappings == {"NOT_THREADS", "MAPPED", "MAPPED_OUT", "MAPPED_IN"}
DimMappings == {"NOT_MAPPED", "UNROLL_MAP", "THREAD_MAP"}
Flags == {"NO_CACHE", "CACHE_GLOBAL", "CACHE_SHARED", "CACHE_READ_ONLY"}

Opposite(o) ==
    CASE o = "BEFORE" -> "AFTER" [] o = "AFTER" -> "BEFORE" [] o = "INNER" -> "OUTER"
      [] o = "OUTER" -> "INNER" [] o = "MAPPED_OUT" -> "MAPPED_IN"
      [] o = "MAPPED_IN" -> "MAPPED_OUT" [] OTHER -> o
OppositeSet(S) == {Opposite(o) : o \in S}

Insts(fun) == {InstStmt(i) : i \in DOMAIN fun.insts}
Dims(fun) == {DimStmt(d) : d \in DOMAIN fun.dims}
Statements(fun) == Insts(fun) \cup Dims(fun)
IsDim(s) == s[1] = "D"
Static(fun, d) == fun.dims[d].poss # {}
StaticDims(fun) == {d \in DOMAIN fun.dims : Static(fun, d)}

-----------------------------------------------------------------------------
(* The domains of the choices about some statements, before any decision:  *)
(* an instruction is inner to a dimension or ordered with a statement, and *)
(* inner to its iteration dimensions, which represent different classes of *)
(* merged dimensions (the constraints of a quotient set).                  *)
SameIteration(fun, d, e) == \E i \in DOMAIN fun.insts : {d, e} \subseteq fun.insts[i].iter
InitialOrder(fun, a, b) ==
    CASE IsDim(a) /\ IsDim(b) -> IF SameIteration(fun, a[2], b[2]) THEN Orders \ {"MERGED"} ELSE Orders
      [] ~IsDim(a) /\ ~IsDim(b) -> Ordered
      [] ~IsDim(a) -> IF b[2] \in fun.insts[a[2]].iter THEN {"INNER"} ELSE {"INNER"} \cup Ordered
      [] OTHER -> IF a[2] \in fun.insts[b[2]].iter THEN {"OUTER"} ELSE {"OUTER"} \cup Ordered

InitialKinds(fun, d) ==
    {k \in Kinds :
       /\ k \in {"UNROLL", "THREAD"} \cup Vector => Static(fun, d)
       /\ k \in {"BLOCK", "THREAD"} \cup Vector => fun.dims[d].par}

(* Device::supported_mem_flags *)
SupportedFlags(fun, op) ==
    IF fun.device.gpu
    THEN IF op.k = "ld" /\ op.mem = 0 THEN Flags ELSE {"NO_CACHE", "CACHE_GLOBAL"}
    ELSE {"NO_CACHE", "CACHE_GLOBAL", "CACHE_SHARED"}

Distinct(S) == {p \in S \X S : p[1] # p[2]}

(* DomainStore::new and alloc, keeping the domains that exist already.     *)
DomainStore(fun, old) ==
    [fun |-> fun, dead |-> old.dead \/ fun.err,
     size |-> old.size @@ [d \in StaticDims(fun) |-> fun.dims[d].poss],
     kind |-> old.kind @@ [d \in DOMAIN fun.dims |-> InitialKinds(fun, d)],
     ord |-> old.ord @@ [p \in Distinct(Statements(fun)) |-> InitialOrder(fun, p[1], p[2])],
     tm |-> old.tm @@ [p \in Distinct(StaticDims(fun)) |-> ThreadMappings],
     dm |-> old.dm @@ [p \in Distinct(DOMAIN fun.dims) |-> DimMappings],
     mspace |-> old.mspace @@ [m \in DOMAIN fun.mems |-> {"GLOBAL", "SHARED"}],
     flag |-> old.flag @@ [i \in ToSet(fun.memInsts) |->
                             SupportedFlags(fun, fun.insts[i].op) \cup {"NO_CACHE"}]]

NoDomains ==
    LET none == [x \in {} |-> 0] IN
    [dead |-> FALSE, size |-> none, kind |-> none, ord |-> none, tm |-> none,
     dm |-> none, mspace |-> none, flag |-> none]

-----------------------------------------------------------------------------
(* Actions restrict a domain; an empty domain is a dead candidate.         *)
Restrict1(sp, field, x, S) ==
    LET r == [sp EXCEPT ![field][x] = @ \cap S] IN
    [r EXCEPT !.dead = @ \/ r[field][x] = {}]
Restrict2(sp, field, a, b, S) ==
    LET r == [sp EXCEPT ![field][<<a, b>>] = @ \cap S,
                        ![field][<<b, a>>] = @ \cap OppositeSet(S)] IN
    [r EXCEPT !.dead = @ \/ r[field][<<a, b>>] = {}]

Apply(sp, act) ==
    IF Len(act) = 3 THEN Restrict1(sp, act[1], act[2], act[3])
    ELSE Restrict2(sp, act[1], act[2], act[3], act[4])
ApplyAll(sp, acts) == FoldLeft(Apply, sp, acts)
OrderAct(a, b, S) == <<"ord", a, b, S>>

(* operand.rs: the orders an operand needs.                                *)
ReducedDims(op) == UNION {ToSet(x.rdims) : x \in {y \in ToSet(op.a) : y.k = "reduce"}}

order_reduce_dims(fun, i) ==
    LET deps == {x.i : x \in {y \in ToSet(fun.insts[i].op.a) : HasMap(y)}}
    IN [k \in 1..Cardinality(UNION {ReducedDims(fun.insts[j].op) : j \in deps}) |->
          OrderAct(DimStmt(Ascending(UNION {ReducedDims(fun.insts[j].op) : j \in deps})[k]),
                   InstStmt(i), {"BEFORE"})]

ScopeMappings(scope) ==
    CASE scope = "Local" -> {"UNROLL_MAP"}
      [] scope = "Thread" -> {"UNROLL_MAP", "THREAD_MAP"}
      [] scope = "Global" -> DimMappings

RECURSIVE invariants(_, _, _)
invariants(fun, x, user) ==
    CASE x.k = "inst" ->
           FlattenSeq([k \in DOMAIN x.map |->
             <<OrderAct(DimStmt(x.map[k][1]), DimStmt(x.map[k][2]),
                        IF Static(fun, x.map[k][1]) THEN {"BEFORE", "MERGED"} ELSE {"MERGED"}),
               <<"dm", x.map[k][1], x.map[k][2], ScopeMappings(x.scope)>> >>])
           \o order_reduce_dims(fun, x.i) \o <<OrderAct(InstStmt(x.i), user, {"BEFORE"})>>
      [] x.k = "reduce" ->
           FlattenSeq([k \in DOMAIN x.map |->
             <<OrderAct(DimStmt(x.map[k][1]), DimStmt(x.map[k][2]), {"BEFORE", "MERGED"}),
               <<"dm", x.map[k][1], x.map[k][2], {"UNROLL_MAP", "THREAD_MAP"}>> >>])
           \o <<OrderAct(InstStmt(x.i), user, {"BEFORE"})>>
           \o FlattenSeq([k \in DOMAIN x.rdims |->
                <<OrderAct(InstStmt(x.i), DimStmt(x.rdims[k]), {"BEFORE"}),
                  <<"kind", x.rdims[k], {"LOOP", "UNROLL"}>> >>])
           \o order_reduce_dims(fun, x.i)
      [] x.k = "index" -> <<OrderAct(DimStmt(x.d), user, {"OUTER"})>>
      [] x.k = "iv" ->
           LET v == fun.ivs[x.v] IN
           invariants(fun, v.base, user)
           \o FlattenSeq([k \in DOMAIN v.dims |->
                invariants(fun, v.base, DimStmt(v.dims[k][1]))
                \o <<OrderAct(DimStmt(v.dims[k][1]), user, {"OUTER"})>>])
      [] OTHER -> <<>>

inst_invariants(fun, i) ==
    FlattenSeq([k \in DOMAIN fun.insts[i].op.a |->
                  invariants(fun, fun.insts[i].op.a[k], InstStmt(i))])

-----------------------------------------------------------------------------
(* The constraints of the .exh files.  A literal "choice is in S" holds as *)
(* long as the domain of the choice meets S.                               *)
Ord(sp, a, b) == sp.ord[<<a, b>>]
May(dom, S) == dom \cap S # {}
Not(S, all) == all \ S

(* choices.exh, constraint triangles of orders. *)
Triangle(sp, l, m, r) ==
    LET lr == Ord(sp, l, r) lm == Ord(sp, l, m) mr == Ord(sp, m, r) IN
    /\ May(lr, {"BEFORE"}) \/ May(lm, Not({"BEFORE"}, Orders)) \/ May(mr, Not({"BEFORE"}, Orders))
    /\ May(lr, {"INNER"}) \/ May(lm, Not({"INNER"}, Orders)) \/ May(mr, Not({"INNER"}, Orders))
    /\ May(lr, lm) \/ May(lm, Not(Ordered, Orders)) \/ May(mr, Not({"OUTER"}, Orders))
    /\ \/ May(lm, Not({"OUTER"}, Orders)) \/ May(Ord(sp, r, m), Not({"OUTER"}, Orders))
       \/ May(lr, Nested \cup {"MERGED"})
    /\ May(lr, Not({"MERGED"}, Orders)) \/ May(Ord(sp, r, m), lm)

(* Device::can_vectorize: an access of consecutive elements, on a GPU. *)
is_consecutive(op, d, t) ==
    d \in DOMAIN op.strides /\ psize_as_int(op.strides[d]) = len_byte(t)
can_vectorize(fun, d, op) ==
    /\ fun.device.gpu
    /\ \/ op.k \in {"tmpld", "tmpst"}
       \/ op.k = "ld" /\ is_consecutive(op, d, op.t) /\ 3 \notin fun.dims[d].poss
       \/ op.k = "st" /\ is_consecutive(op, d, op.a[2].t) /\ 3 \notin fun.dims[d].poss

(* The dimension a logical dimension is tiled into, if its size varies. *)
Tiled(fun, d) == fun.dims[d].ldim # 0 /\ ~Static(fun, d)
SameTotalSize(fun, d, e) ==
    Tiled(fun, d) /\ Tiled(fun, e) =>
      LET l == fun.ldims[fun.dims[d].ldim] r == fun.ldims[fun.dims[e].ldim]
      IN l.f = r.f /\ l.params = r.params

(* The kind of a dimension against the order of the others. *)
KindPair(sp, d, s) ==
    LET k == sp.kind[d]
        o == Ord(sp, DimStmt(d), s)
        is(S) == k \subseteq S
    IN /\ is({"BLOCK"}) => May(o, Nested \cup {"MERGED"})
       /\ IsDim(s) =>
            LET other == sp.kind[s[2]] IN
            /\ is({"UNROLL"}) => May(o, Not({"OUTER"}, Orders)) \/ May(other, Vector \cup {"UNROLL"})
            /\ is({"INNER_VECTOR"}) => May(o, Not({"OUTER"}, Orders)) \/ May(other, {"INNER_VECTOR"})
            /\ is(Vector) => May(o, Not({"OUTER"}, Orders)) \/ May(other, Vector)
            /\ is({"BLOCK"}) => May(other, {"BLOCK"}) \/ May(o, {"OUTER"})
            /\ o = {"MERGED"} =>
                 /\ May(k, other)
                 /\ Static(sp.fun, d) = Static(sp.fun, s[2])
                 /\ Static(sp.fun, d) => May(sp.size[d], sp.size[s[2]])
                 /\ SameTotalSize(sp.fun, d, s[2])
       /\ ~IsDim(s) /\ is(Vector) =>
            \/ May(o, Not({"OUTER"}, Orders))
            \/ can_vectorize(sp.fun, d, sp.fun.insts[s[2]].op)

(* thread_dimensions.exh: how two thread dimensions are mapped. *)
MaxOuterThreads == 64
ThreadPair(sp, a, b) ==
    LET t == sp.tm[<<a, b>>]
        o == Ord(sp, DimStmt(a), DimStmt(b))
        threads == May(sp.kind[a], {"THREAD"}) /\ May(sp.kind[b], {"THREAD"})
    IN /\ t = {"NOT_THREADS"} => sp.kind[a] # {"THREAD"} \/ sp.kind[b] # {"THREAD"}
       /\ "NOT_THREADS" \notin t => threads
       /\ t = {"MAPPED"} => May(o, {"MERGED"} \cup Ordered) /\ May(sp.size[a], sp.size[b])
       /\ t = {"MAPPED_OUT"} => May(o, {"OUTER"} \cup Ordered) /\ May(sp.size[a], 1..MaxOuterThreads)
       /\ t = {"MAPPED_IN"} => May(o, {"INNER"} \cup Ordered)

ThreadTriangle(sp, l, r, o) ==
    /\ sp.tm[<<l, r>>] = {"MAPPED"} => May(sp.tm[<<l, o>>], sp.tm[<<r, o>>])
    /\ sp.tm[<<l, o>>] = {"MAPPED_OUT"} /\ sp.tm[<<o, r>>] = {"MAPPED_OUT"}
         => May(sp.tm[<<l, r>>], {"MAPPED_OUT"})

(* No constraint refuses the decision taken about the statements a and b.  *)
OrderAllowed(sp, a, b) ==
    /\ \A c \in Statements(sp.fun) \ {a, b} :
         /\ Triangle(sp, a, b, c) /\ Triangle(sp, b, a, c)
         /\ Triangle(sp, a, c, b) /\ Triangle(sp, b, c, a)
         /\ Triangle(sp, c, a, b) /\ Triangle(sp, c, b, a)
    /\ IsDim(a) => KindPair(sp, a[2], b)
    /\ IsDim(b) => KindPair(sp, b[2], a)
    /\ IsDim(a) /\ IsDim(b) /\ {a[2], b[2]} \subseteq StaticDims(sp.fun) =>
         ThreadPair(sp, a[2], b[2]) /\ ThreadPair(sp, b[2], a[2])

KindAllowed(sp, d) ==
    /\ \A s \in Statements(sp.fun) \ {DimStmt(d)} :
         KindPair(sp, d, s) /\ (IsDim(s) => KindPair(sp, s[2], DimStmt(d)))
    /\ Static(sp.fun, d) =>
         \A e \in StaticDims(sp.fun) \ {d} : ThreadPair(sp, d, e) /\ ThreadPair(sp, e, d)

ThreadsAllowed(sp, a, b) ==
    /\ ThreadPair(sp, a, b) /\ ThreadPair(sp, b, a)
    /\ \A c \in StaticDims(sp.fun) \ {a, b} :
         /\ ThreadTriangle(sp, a, b, c) /\ ThreadTriangle(sp, b, a, c)
         /\ ThreadTriangle(sp, a, c, b) /\ ThreadTriangle(sp, b, c, a)
         /\ ThreadTriangle(sp, c, a, b) /\ ThreadTriangle(sp, c, b, a)

-----------------------------------------------------------------------------
(* The triggers.                                                           *)

(* What is left of the domain of dim_mapping, which no explorer decides.   *)
MappingDomain(sp, a, b) ==
    {m \in sp.dm[<<a, b>>] :
       /\ m = "UNROLL_MAP" =>
            \/ May(Ord(sp, DimStmt(a), DimStmt(b)), {"MERGED"})
            \/ /\ May(sp.kind[a], Vector \cup {"UNROLL"}) /\ May(sp.kind[b], Vector \cup {"UNROLL"})
       /\ m = "THREAD_MAP" =>
            /\ May(sp.kind[a], {"THREAD"}) /\ May(sp.kind[b], {"THREAD"})
            /\ {a, b} \subseteq StaticDims(sp.fun) => May(sp.tm[<<a, b>>], {"MAPPED"})}

(* dim_map.rs: process_lowering, for the operand `slot' that now goes from *)
(* the store st to the load ld.                                            *)
LoweringActs(fun, slot, st, ld) ==
    LET mem == fun.insts[st].op.mem
        pairs == fun.mems[mem].maybe
    IN [k \in DOMAIN pairs |-> OrderAct(DimStmt(pairs[k][1]), DimStmt(pairs[k][2]), {"BEFORE", "MERGED"})]
       \o << <<"mspace", mem, {"SHARED"}>>, OrderAct(InstStmt(st), InstStmt(ld), {"BEFORE"}) >>
       \o invariants(fun, fun.insts[slot[1]].op.a[slot[2]], InstStmt(slot[1]))
       \o inst_invariants(fun, st) \o inst_invariants(fun, ld)
       \o << <<"flag", st, {"NO_CACHE"}>>, <<"flag", ld, {"NO_CACHE"}>> >>
process_lowering(sp, fun, slot) ==
    LET new == DOMAIN fun.insts \ DOMAIN sp.fun.insts
    IN ApplyAll(DomainStore(fun, sp), LoweringActs(fun, slot, Min(new), Max(new)))
LowerOperand(sp, slot) ==
    LET lowered == lower_dim_map(sp.fun, slot[1], slot[2])
    IN IF lowered = {} THEN [sp EXCEPT !.dead = TRUE]
       ELSE process_lowering(sp, CHOOSE f \in lowered : TRUE, slot)

(* dim_not_mapped: the dimension maps that hold the pair are lowered.      *)
dim_not_mapped(sp, a, b) ==
    FoldLeft(LowerOperand, sp,
             LET slots == dim_maps_to_lower(sp.fun, a, b)
                 of(i) == Ascending({x[2] : x \in {y \in slots : y[1] = i}})
                 insts == Ascending({x[1] : x \in slots})
             IN FlattenSeq([k \in DOMAIN insts |->
                  [j \in DOMAIN of(insts[k]) |-> <<insts[k], of(insts[k])[j]>>]]))

NotMapped(sp) ==
    {p \in {q \in Distinct(DOMAIN sp.fun.dims) : q[1] < q[2]} :
       /\ dim_maps_to_lower(sp.fun, p[1], p[2]) # {}
       /\ "UNROLL_MAP" \notin MappingDomain(sp, p[1], p[2])
       /\ "THREAD_MAP" \notin MappingDomain(sp, p[1], p[2])}

RECURSIVE LowerMaps(_)
LowerMaps(sp) ==
    IF sp.dead \/ NotMapped(sp) = {} THEN sp
    ELSE LET p == CHOOSE q \in NotMapped(sp) : TRUE IN
         IF MappingDomain(sp, p[1], p[2]) = {} THEN [sp EXCEPT !.dead = TRUE]
         ELSE LowerMaps(dim_not_mapped(sp, p[1], p[2]))

(* The unordered pairs of a sequence. *)
PairsBelow(seq) == FlattenSeq([k \in DOMAIN seq |-> [j \in 1..(k - 1) |-> <<seq[k], seq[j]>>]])

(* dim_not_merged and merge_dims, for every pair of dimensions whose order *)
(* settles it: both leave a function they have already changed as it is.   *)
SettlePairs(sp) ==
    LET step(fun, p) ==
            LET o == Ord(sp, DimStmt(p[2]), DimStmt(p[1])) IN
            IF "MERGED" \notin o THEN dim_not_merged(fun, p[2], p[1])
            ELSE IF o = {"MERGED"} THEN merge(fun, p[1], p[2]) ELSE fun
    IN [sp EXCEPT !.fun = FoldLeft(step, @, PairsBelow(Ascending(DOMAIN @.dims)))]

Settle(sp) == IF sp.dead THEN sp ELSE SettlePairs(LowerMaps(SettlePairs(sp)))

(* SearchSpace::new, from a function and the actions of its author.        *)
FirstDomains(frozen, actions) ==
    LET acts == actions \o FlattenSeq([i \in 1..Len(frozen.insts) |-> inst_invariants(frozen, i)])
        deps == UNION {
                  {OrderAct(d, u, {"BEFORE"}) : d \in frozen.vars[v].defpts, u \in frozen.vars[v].uses}
                  \cup {OrderAct(DimStmt(d), u, {"OUTER"}) :
                           d \in frozen.vars[v].dims, u \in frozen.vars[v].uses} : v \in DOMAIN frozen.vars}
        maps == FlattenSeq([m \in DOMAIN frozen.maps |->
                  <<OrderAct(DimStmt(frozen.maps[m].dims[1]), DimStmt(frozen.maps[m].dims[2]),
                             Ordered \cup {"MERGED"})>>])
    IN FoldSet(LAMBDA act, sp : Apply(sp, act), ApplyAll(DomainStore(frozen, NoDomains), acts \o maps), deps)
SearchSpace(fun, actions) == Settle(FirstDomains(freeze(fun), actions))

-----------------------------------------------------------------------------
(* explorer/choice.rs: the choices left, in the default order.             *)
Open(dom) == Cardinality(dom) > 1
SortedDims(sp) == Ascending(DOMAIN sp.fun.dims)

SizeChoices(sp) == SelectSeq(sp.fun.static, LAMBDA d : Open(sp.size[d]))
KindChoices(sp) == SelectSeq(SortedDims(sp), LAMBDA d : Open(sp.kind[d]))
ThreadChoices(sp) == SelectSeq(PairsBelow(sp.fun.static), LAMBDA p : Open(sp.tm[p]))
SpaceChoices(sp) == SelectSeq(Ascending(DOMAIN sp.fun.mems), LAMBDA m : Open(sp.mspace[m]))
FlagChoices(sp) == SelectSeq(sp.fun.memInsts, LAMBDA i : Open(sp.flag[i]))

OrderChoices(sp) ==
    LET dims == SortedDims(sp)
        insts == [k \in 1..Cardinality(DOMAIN sp.fun.insts) |-> InstStmt(Ascending(DOMAIN sp.fun.insts)[k])]
        of(k) == [j \in 1..(k - 1) |-> <<DimStmt(dims[k]), DimStmt(dims[j])>>]
                 \o [j \in DOMAIN insts |-> <<DimStmt(dims[k]), insts[j]>>]
    IN SelectSeq(FlattenSeq([k \in DOMAIN dims |-> of(k)]), LAMBDA p : Open(sp.ord[p]))

(* lower_layout_choice: the pairs are put one by one from the innermost    *)
(* dimension of the array outwards, until an access is wide enough.        *)
WideEnough == 32 * 8
RECURSIVE Layouts(_, _, _, _)
Layouts(sp, ordered, remaining, size) ==
    IF size >= WideEnough \/ remaining = <<>> THEN {remaining \o Reverse(ordered)}
    ELSE UNION {Layouts(sp, Append(ordered, remaining[i]),
                        RemoveAt(remaining, i), size * Min(sp.size[remaining[i][1]])) :
                  i \in DOMAIN remaining}

(* dim_map.rs, lower_layout: only the innermost dimension may be a vector. *)
LowerLayout(sp, mem, layout) ==
    LET outer == SubSeq(layout, 1, Len(layout) - 1)
        novec == FlattenSeq([k \in DOMAIN outer |->
                   << <<"kind", outer[k][1], Kinds \ Vector>>, <<"kind", outer[k][2], Kinds \ Vector>> >>])
        fun == lower_layout(sp.fun, mem, [k \in DOMAIN layout |-> layout[k][1]],
                            [k \in DOMAIN layout |-> layout[k][2]])
        uses == fun.mems[mem].uses
    IN ApplyAll(ApplyAll([sp EXCEPT !.fun = fun], novec),
                FlattenSeq([k \in DOMAIN uses |-> inst_invariants(fun, uses[k])]))

(* The candidates the first open choice leads to.  `check' keeps those     *)
(* whose decision no constraint refuses.                                   *)
Branches(sp) ==
    LET size == SizeChoices(sp) kind == KindChoices(sp) thread == ThreadChoices(sp)
        space == SpaceChoices(sp) order == OrderChoices(sp) flag == FlagChoices(sp)
    IN IF sp.fun.tolower # <<>> THEN
         LET m == sp.fun.tolower[1] IN
         {LowerLayout(sp, m, l) : l \in Layouts(sp, <<>>, sp.fun.mems[m].mapped, sp.fun.mems[m].base)}
       ELSE IF size # <<>> THEN
         {Restrict1(sp, "size", size[1], {v}) : v \in sp.size[size[1]]}
       ELSE IF kind # <<>> THEN
         {s \in {Restrict1(sp, "kind", kind[1], {v}) : v \in sp.kind[kind[1]]} : KindAllowed(s, kind[1])}
       ELSE IF thread # <<>> THEN
         {s \in {Restrict2(sp, "tm", thread[1][1], thread[1][2], {v}) : v \in sp.tm[thread[1]]} :
            ThreadsAllowed(s, thread[1][1], thread[1][2])}
       ELSE IF space # <<>> THEN
         {Restrict1(sp, "mspace", space[1], {v}) : v \in sp.mspace[space[1]]}
       ELSE IF order # <<>> THEN
         {s \in {Restrict2(sp, "ord", order[1][1], order[1][2], {v}) : v \in sp.ord[order[1]]} :
            OrderAllowed(s, order[1][1], order[1][2])}
       ELSE {Restrict1(sp, "flag", flag[1], {v}) : v \in sp.flag[flag[1]]}

(* The representatives known so far of the quotients IterationDims and     *)
(* ThreadDims: a dimension joins when it must be in one and may not be     *)
(* equivalent to a member.                                                 *)
Join(D, members, equivalent(_, _)) ==
    FoldLeft(LAMBDA S, d : IF \E e \in S : d = e \/ equivalent(d, e) THEN S ELSE S \cup {d},
             members, Ascending(D))
thread_dims(sp) ==
    Join({d \in StaticDims(sp.fun) : sp.kind[d] = {"THREAD"}}, {}, LAMBDA d, e : "MAPPED" \in sp.tm[<<d, e>>])

(* The counter of the thread dimensions never exceeds its bound.           *)
MaxThreadDims == 3
Children(sp) ==
    {s \in {Settle(b) : b \in Branches(sp)} : ~s.dead /\ Cardinality(thread_dims(s)) <= MaxThreadDims}

(* No choice is open any more. *)
Leaf(sp) ==
    /\ sp.fun.tolower = <<>> /\ SizeChoices(sp) = <<>> /\ KindChoices(sp) = <<>>
    /\ ThreadChoices(sp) = <<>> /\ SpaceChoices(sp) = <<>> /\ OrderChoices(sp) = <<>>
    /\ FlagChoices(sp) = <<>>

-----------------------------------------------------------------------------
(* What the explorer's decisions leave to propagation: the order of the    *)
(* instructions.  A pair no constraint settles stays in both orders.       *)
InstPairs(sp) == {p \in Distinct(Insts(sp.fun)) : p[1][2] < p[2][2]}
Filtered(sp, p) ==
    {v \in sp.ord[p] : OrderAllowed(Restrict2(sp, "ord", p[1], p[2], {v}), p[1], p[2])}

RECURSIVE OrderInsts(_)
OrderInsts(sp) ==
    LET todo == {p \in InstPairs(sp) : Filtered(sp, p) # sp.ord[p]} IN
    IF sp.dead \/ todo = {} THEN sp
    ELSE LET p == CHOOSE q \in todo : TRUE IN
         OrderInsts(Restrict2(sp, "ord", p[1], p[2], Filtered(sp, p)))

(* Reading a decided choice. *)
The(S) == CHOOSE x \in S : TRUE
KindOf(sp, d) == The(sp.kind[d])
SizeOf(sp, d) == The(sp.size[d])
IsOrder(sp, a, b, S) == a # b /\ Ord(sp, a, b) \subseteq S
MergedWith(sp, d, e) == d = e \/ IsOrder(sp, DimStmt(d), DimStmt(e), {"MERGED"})
Outer(sp, a, b) == IsOrder(sp, a, b, {"OUTER"})

(* The dimensions an instruction is nested in, one for each class of       *)
(* merged dimensions (the quotient IterationDims).                         *)
OuterDims(sp, i) == {d \in DOMAIN sp.fun.dims : Outer(sp, DimStmt(d), InstStmt(i))}
Representatives(sp, D) == {d \in D : ~\E e \in D : e < d /\ MergedWith(sp, d, e)}
IterationDims(sp, i) == Representatives(sp, OuterDims(sp, i))

(* The quotient ThreadDims: the classes of mapped thread dimensions.       *)
ThreadDims(sp) ==
    LET T == {d \in DOMAIN sp.fun.dims : KindOf(sp, d) = "THREAD"}
    IN {d \in T : ~\E e \in T : e < d /\ sp.tm[<<d, e>>] = {"MAPPED"}}

ProductOfSizes(sp, D) == MapThenFoldSet(LAMBDA x, y : x * y, 1, LAMBDA d : SizeOf(sp, d),
                                        LAMBDA S : CHOOSE x \in S : TRUE, D)
OfKind(sp, D, k) == {d \in D : KindOf(sp, d) = k}

(* The counters and their bounds, instruction by instruction. *)
FactorsFit(sp, i) ==
    LET D == IterationDims(sp, i) \cap StaticDims(sp.fun) IN
    /\ ProductOfSizes(sp, OfKind(sp, D, "UNROLL")) <= 512
    /\ ProductOfSizes(sp, OfKind(sp, D, "OUTER_VECTOR")) <= sp.fun.device.maxvec[1]
    /\ ProductOfSizes(sp, OfKind(sp, D, "INNER_VECTOR")) <= sp.fun.device.maxvec[2]
    /\ Cardinality(OfKind(sp, IterationDims(sp, i), "BLOCK")) <= sp.fun.device.blocks

ThreadsFit(sp) ==
    /\ ProductOfSizes(sp, ThreadDims(sp)) <= sp.fun.device.threads
    /\ Cardinality(ThreadDims(sp)) <= MaxThreadDims

(* Thread dimensions are nested directly in each other, and a statement    *)
(* nested with one of them is nested or merged with the others.            *)
ThreadsGrouped(sp) ==
    LET T == {d \in StaticDims(sp.fun) : KindOf(sp, d) = "THREAD"} IN
    \A a, b \in T :
      /\ \A m \in DOMAIN sp.fun.dims :
           Outer(sp, DimStmt(a), DimStmt(m)) /\ Outer(sp, DimStmt(m), DimStmt(b))
             => KindOf(sp, m) = "THREAD"
      /\ IsOrder(sp, DimStmt(a), DimStmt(b), Nested) =>
           \A s \in Statements(sp.fun) \ {DimStmt(a), DimStmt(b)} :
             IsOrder(sp, s, DimStmt(b), Nested) => ~IsOrder(sp, s, DimStmt(a), Ordered)

(* A store with side effects is nested in its own dimensions only. *)
SideEffectsOnce(sp) ==
    \A i \in DOMAIN sp.fun.insts : sp.fun.insts[i].op.side =>
      \A d \in OuterDims(sp, i) : \E e \in sp.fun.insts[i].iter : MergedWith(sp, d, e)

(* The dimensions a reduction does not reduce are those of its initial     *)
(* value.                                                                  *)
ReductionsNested(sp) ==
    \A i \in DOMAIN sp.fun.insts : \A x \in ToSet(sp.fun.insts[i].op.a) : x.k = "reduce" =>
      \A d \in OuterDims(sp, i) :
        \/ d \in ToSet(x.rdims) \/ \E p \in ToSet(x.map) : p[2] = d
        \/ Outer(sp, DimStmt(d), InstStmt(x.i))
        \/ \E e \in IterationDims(sp, i) : e # d /\ MergedWith(sp, d, e)

(* A vector dimension holds a single instruction. *)
VectorsAlone(sp) ==
    \A d \in StaticDims(sp.fun) : KindOf(sp, d) \in Vector =>
      Cardinality({i \in DOMAIN sp.fun.insts : d \in OuterDims(sp, i)}) <= 1

(* Mapped dimensions have equal sizes, and variables stay in registers. *)
MappingsFit(sp) ==
    \A m \in DOMAIN sp.fun.maps :
      LET a == sp.fun.maps[m].dims[1] b == sp.fun.maps[m].dims[2] IN
      /\ Static(sp.fun, a) /\ Static(sp.fun, b) => SizeOf(sp, a) = SizeOf(sp, b)
      /\ sp.fun.vars # <<>> =>
           \/ MergedWith(sp, a, b)
           \/ {KindOf(sp, a), KindOf(sp, b)} \subseteq Vector \cup {"UNROLL"}

mem_size(sp, m) ==
    sp.fun.mems[m].base * ProductOfSizes(sp, {p[1] : p \in ToSet(sp.fun.mems[m].mapped)})
SharedMemFits(sp) ==
    LET shared == {m \in DOMAIN sp.fun.mems : sp.mspace[m] = {"SHARED"}}
    IN MapThenSumSet(LAMBDA m : mem_size(sp, m), shared) <= sp.fun.device.shared

(* The sizes of the tiles of a logical dimension multiply to one of its    *)
(* tiling factors.                                                         *)
tiling_factor(sp, l) == ProductOfSizes(sp, ToSet(sp.fun.ldims[l].static))
TilingFits(sp, l) == tiling_factor(sp, l) \in sp.fun.ldims[l].tilings
TilingsFit(sp) == \A l \in DOMAIN sp.fun.ldims : TilingFits(sp, l)
MergedTilingsFit(sp) ==
    \A d, e \in {x \in DOMAIN sp.fun.dims : Tiled(sp.fun, x)} :
      MergedWith(sp, d, e) => tiling_factor(sp, sp.fun.dims[d].ldim) = tiling_factor(sp, sp.fun.dims[e].ldim)

(* Dimensions that are mapped to each other have the same size. *)
Mates(fun, D) ==
    D \cup UNION {ToSet(fun.maps[m].dims) : m \in {n \in DOMAIN fun.maps : ToSet(fun.maps[n].dims) \cap D # {}}}
RECURSIVE SameSize(_, _)
SameSize(fun, D) == LET E == Mates(fun, D) IN IF E = D THEN D ELSE SameSize(fun, E)

(* The sizes of a function alone, and the candidates one decision away.    *)
OnlySizes(fun) == [NoDomains EXCEPT !.size = [d \in StaticDims(fun) |-> fun.dims[d].poss]] @@ [fun |-> fun]
WithSize(sp, d, v) ==
    LET D == SameSize(sp.fun, {d})
    IN [sp EXCEPT !.size = [e \in DOMAIN @ |-> IF e \in D THEN @[e] \cap {v} ELSE @[e]]]
MayFit(sp) ==
    \A l \in DOMAIN sp.fun.ldims :
      (\A d \in ToSet(sp.fun.ldims[l].static) : ~Open(sp.size[d])) => TilingFits(sp, l)
SizeChildren(sp) ==
    IF SizeChoices(sp) = <<>> THEN {}
    ELSE {s \in {WithSize(sp, SizeChoices(sp)[1], v) : v \in sp.size[SizeChoices(sp)[1]]} :
            (\A d \in DOMAIN s.size : s.size[d] # {}) /\ MayFit(s)}

(* A fully specified candidate the constraints accept. *)
Implementable(sp) ==
    /\ ~sp.dead
    /\ \A a, b, c \in Statements(sp.fun) : Cardinality({a, b, c}) = 3 => Triangle(sp, a, b, c)
    /\ \A d \in DOMAIN sp.fun.dims : KindAllowed(sp, d)
    /\ \A a, b, c \in StaticDims(sp.fun) : Cardinality({a, b, c}) = 3 => ThreadTriangle(sp, a, b, c)
    /\ \A i \in DOMAIN sp.fun.insts : FactorsFit(sp, i)
    /\ ThreadsFit(sp) /\ ThreadsGrouped(sp) /\ SideEffectsOnce(sp) /\ ReductionsNested(sp)
    /\ VectorsAlone(sp) /\ MappingsFit(sp) /\ SharedMemFits(sp) /\ TilingsFit(sp)
    /\ MergedTilingsFit(sp)
=============================================================================
