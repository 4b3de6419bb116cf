------------------------------ MODULE Codegen ------------------------------
(***************************************************************************)
(* From a fully specified candidate to a function that is ready to print   *)
(* (src/src/codegen): merged dimensions are grouped, induction variables   *)
(* are split into levels, and the entries, the exits and the instructions  *)
(* are sorted into a control flow graph.                                   *)
(*                                                                         *)
(* A step of the code that may panic makes a graph that is not `ok'.       *)
(***************************************************************************)
EXTENDS KernelSpace

(* codegen::Size: (f * parameters) / d, in lowest terms.                   *)
GcdOf(a, b) == Max({k \in 1..b : a % k = 0 /\ b % k = 0})
CgSize(f, p, d) == [f |-> f \div GcdOf(f, d), p |-> p, d |-> d \div GcdOf(f, d)]

from_ir(sp, s) == CgSize(s.f * ProductOfSizes(sp, s.dims), s.p, ProductOfSizes(sp, s.div))
size_mul(s, r) == CgSize(s.f * r.f, s.p \o r.p, s.d * r.d)

(* as_int, for a size without parameters: the divisor is left out.         *)
as_int(s) == s.f
IsStatic(s) == s.p = <<>>

lower_type(sp, t) == IF t[1] = "P" THEN sp.fun.device.ptr[The(sp.mspace[t[2]])] ELSE t

(* The insertion sort of the standard library, for at most 20 elements.    *)
InsertHead(Less(_, _), x, s) ==
    LET n == Max({k \in 0..Len(s) : \A j \in 1..k : Less(s[j], x)})
    IN SubSeq(s, 1, n) \o <<x>> \o SubSeq(s, n + 1, Len(s))
InsertionSort(Less(_, _), s) ==
    FoldRight(LAMBDA x, acc : InsertHead(Less, x, acc), s, <<>>)

-----------------------------------------------------------------------------
(* Dimensions: the first of the merged dimensions represents the group.    *)
DimensionNew(sp, d) ==
    [ids |-> <<d>>, kind |-> KindOf(sp, d), size |-> from_ir(sp, sp.fun.dims[d].size),
     levels |-> <<>>]
DimId(dim) == dim.ids[1]

group_merged_dimensions(sp) ==
    LET add(groups, d) ==
            LET fused == {g \in DOMAIN groups : MergedWith(sp, DimId(groups[g]), d)}
            IN IF fused = {} THEN Append(groups, DimensionNew(sp, d))
               ELSE [groups EXCEPT ![Min(fused)].ids = Append(@, d)]
    IN FoldLeft(add, <<>>, SortedDims(sp))

(* try_add_fused_dim asserts that fused dimensions agree.                  *)
FusedAgree(sp, groups) ==
    \A g \in DOMAIN groups : \A d \in ToSet(groups[g].ids) :
        /\ KindOf(sp, d) = groups[g].kind
        /\ from_ir(sp, sp.fun.dims[d].size) = groups[g].size

merge_from(x, y) == [x EXCEPT !.ids = @ \o y.ids, !.levels = @ \o y.levels]

-----------------------------------------------------------------------------
(* Induction variables.  The value of a level is the sum of components: an *)
(* outer level of the variable and an operand.                             *)
LevelValue(v, d) == [k |-> "level", v |-> v, d |-> d]
OperandValue(x) == [k |-> "operand", x |-> x]
NoIncrement == 0
InductionLevel(v, dim, inc, base, t) ==
    [v |-> v, dim |-> dim, inc |-> inc, base |-> base, t |-> t]

(* get_ind_var_levels: the steps of the variable along the dimensions of   *)
(* some kinds, from the outermost to the innermost.                        *)
get_ind_var_levels(sp, v, kinds) ==
    LET steps == SelectSeq(sp.fun.ivs[v].dims, LAMBDA s : KindOf(sp, s[1]) \in kinds)
    IN InsertionSort(LAMBDA l, r : Outer(sp, DimStmt(l[1]), DimStmt(r[1])), steps)

(* Its sort panics on dimensions that are not nested or merged.            *)
IndVarsNested(sp) ==
    \A v \in DOMAIN sp.fun.ivs : \A kinds \in {{"BLOCK", "THREAD"}, {"LOOP", "UNROLL"}} :
        LET dims == {s[1] : s \in ToSet(get_ind_var_levels(sp, v, kinds))} IN
        \A d, e \in dims : d = e \/ Ord(sp, DimStmt(d), DimStmt(e)) \in {{"INNER"}, {"OUTER"}, {"MERGED"}}

(* register_induction_vars, for one variable: the levels that are computed *)
(* first, the levels of the loops and the value instructions use.          *)
IndVarLevels(sp, v) ==
    LET const == get_ind_var_levels(sp, v, {"BLOCK", "THREAD"})
        mut == get_ind_var_levels(sp, v, {"LOOP", "UNROLL"})
        operand == sp.fun.ivs[v].base
        t == lower_type(sp, operand.t)
        outer(steps, k) == IF k = 1 THEN <<>> ELSE <<LevelValue(v, steps[k - 1][1])>>
        last(steps) == outer(steps, Len(steps) + 1)
        level(step, base) == InductionLevel(v, step[1], from_ir(sp, step[2]), base, t)
        sum == last(const) \o <<OperandValue(operand)>>
    IN [init |-> [k \in DOMAIN const |-> level(const[k], outer(const, k))],
        loops |-> [k \in DOMAIN mut |->
                     <<mut[k][1], level(mut[k], IF k = 1 THEN sum ELSE outer(mut, k))>>]
                  \o IF mut = <<>> /\ const # <<>>
                     THEN << <<const[Len(const)][1], InductionLevel(v, 0, NoIncrement, sum, t)>> >>
                     ELSE <<>>,
        value |-> IF mut # <<>> THEN last(mut)
                  ELSE IF const # <<>> THEN <<>> ELSE sum]

IndVars(sp) == [v \in DOMAIN sp.fun.ivs |-> IndVarLevels(sp, v)]

register_induction_vars(sp, ivs, groups) ==
    LET levels == FlattenSeq([v \in DOMAIN ivs |-> ivs[v].loops])
        of(d) == LET s == SelectSeq(levels, LAMBDA l : l[1] = d) IN [k \in DOMAIN s |-> s[k][2]]
    IN [g \in DOMAIN groups |->
          [groups[g] EXCEPT !.levels = FlattenSeq([k \in DOMAIN groups[g].ids |-> of(groups[g].ids[k])])]]

-----------------------------------------------------------------------------
(* Events: the execution of an instruction, the entry of a dimension and   *)
(* its exit.                                                               *)
Exec(i) == [k |-> "exec", s |-> InstStmt(i)]
EnterSeq(dim) == [k |-> "enter", s |-> DimStmt(DimId(dim)), thread |-> FALSE, dim |-> dim]
ExitSeq(dim) == [k |-> "exit", s |-> DimStmt(DimId(dim)), thread |-> FALSE]
EnterThread(dim, pos) ==
    [k |-> "enter", s |-> DimStmt(DimId(dim)), thread |-> TRUE, pos |-> pos, levels |-> dim.levels]
ExitThread(dim) == [k |-> "exit", s |-> DimStmt(DimId(dim)), thread |-> TRUE]

Rank(e) == CASE e.k = "enter" -> 1 [] e.k = "exec" -> 2 [] e.k = "exit" -> 3
StmtBefore(a, b) == a[2] < b[2]
cmp_within_stmt(l, r) ==
    IF Rank(l) < Rank(r) THEN "Less" ELSE IF Rank(l) > Rank(r) THEN "Greater" ELSE "Equal"

cmp(sp, l, r) ==
    LET o == Ord(sp, l.s, r.s) IN
    IF l.s = r.s \/ o = {"MERGED"} THEN cmp_within_stmt(l, r)
    ELSE IF l.k = "exec" /\ r.k = "exec" /\ o = Ordered
         THEN IF StmtBefore(l.s, r.s) THEN "Less" ELSE "Greater"
    ELSE IF o = {"BEFORE"} \/ (l.k = "enter" /\ o = {"OUTER"}) \/ (r.k = "exit" /\ o = {"INNER"})
         THEN "Less"
    ELSE IF o = {"AFTER"} \/ (r.k = "enter" /\ o = {"INNER"}) \/ (l.k = "exit" /\ o = {"OUTER"})
         THEN "Greater"
    ELSE "Panic"

(* The thread dimensions that are mapped together, from outermost to       *)
(* innermost: the binary search of gen_events.                             *)
group_thread_dims(sp, dims) ==
    LET mapping(g, dim) == sp.tm[<<DimId(g[1]), DimId(dim)>>]
        add(groups, dim) ==
            LET same == {g \in DOMAIN groups : mapping(groups[g], dim) = {"MAPPED"}}
                out == {g \in DOMAIN groups : mapping(groups[g], dim) = {"MAPPED_OUT"}}
            IN IF same # {} THEN [groups EXCEPT ![Min(same)] = Append(@, dim)]
               ELSE InsertAt(groups, Cardinality(out) + 1, <<dim>>)
    IN FoldLeft(add, <<>>, dims)

(* merge_from asserts that mapped thread dimensions agree. *)
ThreadsAgree(groups) ==
    \A g \in DOMAIN groups : \A k \in DOMAIN groups[g] : groups[g][k].size = groups[g][1].size

(* The sorts panic on blocks that are not nested and threads not mapped.   *)
BlocksNested(sp, blocks) ==
    \A l, r \in ToSet(blocks) :
        l = r \/ Ord(sp, DimStmt(DimId(l)), DimStmt(DimId(r))) \in {{"OUTER"}, {"INNER"}}
ThreadsMapped(sp, threads) ==
    \A l, r \in ToSet(threads) :
        l = r \/ sp.tm[<<DimId(l), DimId(r)>>] \in {{"MAPPED_OUT"}, {"MAPPED_IN"}, {"MAPPED"}}

gen_events(sp, dims) ==
    LET of(K) == SelectSeq(dims, LAMBDA dim : dim.kind \in K)
        seq == of({"LOOP", "UNROLL"} \cup Vector)
        threads == group_thread_dims(sp, of({"THREAD"}))
        insts == Ascending(DOMAIN sp.fun.insts)
        drained(dim) == [dim EXCEPT !.levels = <<>>]
    IN [blocks |-> InsertionSort(LAMBDA l, r : Outer(sp, DimStmt(DimId(l)), DimStmt(DimId(r))), of({"BLOCK"})),
        threads |-> [g \in DOMAIN threads |->
                       FoldLeft(LAMBDA x, y : merge_from(x, drained(y)), drained(threads[g][1]), Tail(threads[g]))],
        ok |-> /\ BlocksNested(sp, of({"BLOCK"}))
               /\ ThreadsMapped(sp, of({"THREAD"}))
               /\ ThreadsAgree(threads),
        events |-> [k \in DOMAIN insts |-> Exec(insts[k])]
                   \o FlattenSeq([k \in DOMAIN dims |->
                        CASE dims[k].kind = "BLOCK" -> <<>>
                          [] dims[k].kind = "THREAD" -> <<ExitThread(dims[k])>>
                          [] OTHER -> <<ExitSeq(dims[k]), EnterSeq(dims[k])>>])
                   \o FlattenSeq([g \in DOMAIN threads |->
                        [k \in DOMAIN threads[g] |-> EnterThread(threads[g][k], g)]])]

-----------------------------------------------------------------------------
(* The control flow graph.                                                 *)
CfgLoop(dim, body) == [k |-> "loop", dim |-> dim, body |-> body]
CfgInst(vec, i) == [k |-> "inst", vec |-> vec, i |-> i]
CfgThreads(dims, levels, body) == [k |-> "threads", dims |-> dims, levels |-> levels, body |-> body]
Idle(n) == [p \in 1..n |-> 0]

IsEnterThread(e) == e.k = "enter" /\ e.thread
IsExitThread(e) == e.k = "exit" /\ e.thread
Prefix(ev, Test(_)) == Max({k \in 0..Len(ev) : \A j \in 1..k : Test(ev[j])})
Drop(ev, n) == SubSeq(ev, n + 1, Len(ev))
Broken == [body |-> <<>>, rest |-> <<>>, ok |-> FALSE]

(* vector_inst_from_events: the entries, the instruction and the exits.    *)
vector_inst_from_events(ev) ==
    LET n == Prefix(ev, LAMBDA e : e.k = "enter" /\ ~e.thread /\ e.dim.kind \in Vector)
        level(kind) == SelectSeq([j \in 1..n |-> ev[j].dim], LAMBDA dim : dim.kind = kind)
    IN IF /\ Len(ev) >= 2 * n + 1 /\ ev[n + 1].k = "exec"
          /\ \A j \in (n + 2)..(2 * n + 1) : ev[j].k = "exit" /\ ~ev[j].thread
       THEN [body |-> <<CfgInst(<<level("OUTER_VECTOR"), level("INNER_VECTOR")>>, ev[n + 1].s[2])>>,
             rest |-> Drop(ev, 2 * n + 1), ok |-> TRUE]
       ELSE Broken

RECURSIVE body_from_events(_, _, _)
body_from_events(ev, n, body) ==
    IF ev = <<>> THEN [body |-> body, rest |-> <<>>, ok |-> TRUE]
    ELSE LET e == Head(ev)
             then(r, node) == IF ~r.ok THEN Broken ELSE body_from_events(r.rest, n, body \o node)
         IN CASE e.k = "exec" -> body_from_events(Tail(ev), n, Append(body, CfgInst(<<<<>>, <<>>>>, e.s[2])))
              [] e.k = "enter" /\ ~e.thread ->
                   IF e.dim.kind \in Vector
                   THEN LET r == vector_inst_from_events(ev) IN then(r, r.body)
                   ELSE LET r == body_from_events(Tail(ev), n, <<>>)
                        IN then(r, <<CfgLoop(e.dim, r.body)>>)
              [] e.k = "exit" /\ ~e.thread -> [body |-> body, rest |-> Tail(ev), ok |-> TRUE]
              [] e.k = "enter" /\ e.thread ->
                   LET m == Prefix(ev, IsEnterThread)
                       at(p) == {j \in 1..m : ev[j].pos = p}
                       r == body_from_events(Drop(ev, m), 0, <<>>)
                       dims == [p \in 1..n |-> IF at(p) = {} THEN 0 ELSE ev[Min(at(p))].s[2]]
                   IN IF \E j \in 1..m : ev[j].pos > n \/ Cardinality(at(ev[j].pos)) > 1 THEN Broken
                      ELSE then(r, <<CfgThreads(dims, FlattenSeq([j \in 1..m |-> ev[j].levels]), r.body)>>)
              [] OTHER -> [body |-> body, rest |-> Drop(ev, Prefix(ev, IsExitThread)), ok |-> TRUE]

RECURSIVE handle_threads(_)
handle_threads(c) ==
    \/ c.k = "threads"
    \/ c.k = "loop" /\ \E j \in DOMAIN c.body : handle_threads(c.body[j])

(* Every instruction is in a region of threads: the ones that are not get  *)
(* a region where no thread dimension is active.                           *)
RECURSIVE add_empty_threads(_, _)
add_empty_threads(body, n) ==
    IF body = <<>> THEN <<>>
    ELSE IF ~handle_threads(body[1])
         THEN LET m == Prefix(body, LAMBDA c : ~handle_threads(c))
              IN <<CfgThreads(Idle(n), <<>>, SubSeq(body, 1, m))>> \o add_empty_threads(Drop(body, m), n)
         ELSE LET c == body[1]
                  inner == IF c.k = "loop" THEN [c EXCEPT !.body = add_empty_threads(@, n)] ELSE c
              IN <<inner>> \o add_empty_threads(Tail(body), n)

(* cfg::build *)
CfgBuild(sp, dims) ==
    LET g == gen_events(sp, dims)
        comparable == \A j, k \in DOMAIN g.events : j # k => cmp(sp, g.events[j], g.events[k]) # "Panic"
        sorted == InsertionSort(LAMBDA l, r : cmp(sp, l, r) = "Less", g.events)
        r == body_from_events(sorted, Len(g.threads), <<>>)
    IN IF g.ok /\ comparable /\ r.ok /\ r.rest = <<>>
       THEN [blocks |-> g.blocks, threads |-> g.threads, ok |-> TRUE,
             cfg |-> add_empty_threads(r.body, Len(g.threads))]
       ELSE [blocks |-> g.blocks, threads |-> g.threads, ok |-> FALSE, cfg |-> <<>>]

RECURSIVE CfgDims(_)
CfgDims(body) ==
    FlattenSeq([j \in DOMAIN body |->
      CASE body[j].k = "inst" -> body[j].vec[1] \o body[j].vec[2]
        [] body[j].k = "loop" -> <<body[j].dim>> \o CfgDims(body[j].body)
        [] OTHER -> CfgDims(body[j].body)])

RECURSIVE CfgInsts(_)
CfgInsts(body) ==
    FlattenSeq([j \in DOMAIN body |->
      IF body[j].k = "inst" THEN <<body[j].i>> ELSE CfgInsts(body[j].body)])

-----------------------------------------------------------------------------
(* Variables in registers: the dimensions along which a variable takes a   *)
(* register for each index.                                                *)
DimMapping(fun, def) ==
    IF def.k = "Last" THEN [d \in def.dims |-> 0]
    ELSE [d \in {fun.maps[m].dims[1] : m \in def.maps} |->
            fun.maps[CHOOSE m \in def.maps : fun.maps[m].dims[1] = d].dims[2]]
ReverseMapping(fun, def) ==
    IF def.k = "Last" THEN [d \in {} |-> 0]
    ELSE [d \in {fun.maps[m].dims[2] : m \in def.maps} |->
            fun.maps[CHOOSE m \in def.maps : fun.maps[m].dims[2] = d].dims[1]]

find_instantiation_dims(sp, def) ==
    LET map == DimMapping(sp.fun, def) IN
    {map[d] : d \in {e \in DOMAIN map : map[e] # 0 /\ ~MergedWith(sp, e, map[e])}}

(* The dimension is recorded in the variables the alias comes from.        *)
RECURSIVE InstantiateChain(_, _, _, _)
InstantiateChain(fun, inst, v, d) ==
    IF d \in inst[v] THEN inst
    ELSE LET def == fun.vars[v].def
             rev == ReverseMapping(fun, def)
             next == [inst EXCEPT ![v] = @ \cup {d}]
         IN IF def.k = "Inst" THEN next
            ELSE InstantiateChain(fun, next, def.v, IF d \in DOMAIN rev THEN rev[d] ELSE d)

(* wrap_variables.  A variable is created after the one it aliases with,   *)
(* so the order of sort_variables is the order of the identifiers.         *)
wrap_variables(sp) ==
    LET fun == sp.fun
        add(inst, v) ==
            LET def == fun.vars[v].def
                dims == IF def.k = "Inst" THEN {} ELSE find_instantiation_dims(sp, def)
                rev == ReverseMapping(fun, def)
                chained == FoldSet(LAMBDA d, acc : InstantiateChain(fun, acc, def.v, rev[d]), inst, dims)
            IN [chained EXCEPT ![v] = dims]
    IN FoldLeft(add, [v \in DOMAIN fun.vars |-> {}], [v \in 1..Len(fun.vars) |-> v])

-----------------------------------------------------------------------------
(* What the host passes to the kernel.                                     *)
External(p) == <<"external", p>>
SizeParam(s) == <<"size", s>>
GlobalMem(m) == <<"mem", m>>

ParamOfOperand(x) == IF x.k = "param" THEN {External(x.p)} ELSE {}
ParamOfSize(s) ==
    CASE s.p = <<>> -> {}
      [] Len(s.p) = 1 /\ s.f = 1 /\ s.d = 1 -> {External(s.p[1])}
      [] OTHER -> {SizeParam(s)}

LevelParams(l) ==
    (IF l.dim = 0 THEN {} ELSE ParamOfSize(l.inc))
    \cup UNION {ParamOfOperand(c.x) : c \in {b \in ToSet(l.base) : b.k = "operand"}}
\* Mutant of DimParams: the bound of a loop is not passed.
DimParamsLevelsOnly(dim) == UNION {LevelParams(l) : l \in ToSet(dim.levels)}

DimParams(dim) ==
    UNION {LevelParams(l) : l \in ToSet(dim.levels)}
    \cup (IF dim.kind = "LOOP" THEN ParamOfSize(dim.size) ELSE {})

(* Memory blocks; a block in global memory has a copy for each thread      *)
(* block.                                                                  *)
MemoryRegion(sp, m) ==
    LET block == sp.fun.mems[m]
        of(k) == from_ir(sp, sp.fun.dims[block.mapped[k][1]].size)
    IN [m |-> m, space |-> The(sp.mspace[m]), t |-> lower_type(sp, PtrTo(m)),
        size |-> FoldLeft(LAMBDA s, k : size_mul(s, of(k)), CgSize(block.base, <<>>, 1),
                          [k \in DOMAIN block.mapped |-> k])]
Privatised(region, blocks) == region.space = "GLOBAL" /\ blocks # <<>>
MemParams(region, blocks) ==
    IF region.space # "GLOBAL" THEN {}
    ELSE {GlobalMem(region.m)}
         \cup IF blocks = <<>> THEN {}
              ELSE ParamOfSize(region.size) \cup UNION {ParamOfSize(b.size) : b \in ToSet(Tail(blocks))}

(* The dimensions along which the result of an instruction takes several   *)
(* registers.  An instruction gains the dimensions it is nested in.        *)
iteration_dims(sp, i) ==
    sp.fun.insts[i].iter
    \cup {d \in IterationDims(sp, i) : ~\E e \in sp.fun.insts[i].iter : MergedWith(sp, d, e)}
instantiation_dims(sp, i) ==
    Ascending({d \in iteration_dims(sp, i) : KindOf(sp, d) \in Vector \cup {"UNROLL"}})

(* Function::build *)
FunctionOf(sp, ivs, dims, built) ==
    LET mems == [k \in 1..Cardinality(DOMAIN sp.fun.mems) |-> MemoryRegion(sp, Ascending(DOMAIN sp.fun.mems)[k])]
        init == FlattenSeq([v \in DOMAIN ivs |-> ivs[v].init])
        operands == UNION {ToSet(sp.fun.insts[i].op.a) : i \in DOMAIN sp.fun.insts}
        values == {c.x : c \in {b \in UNION {ToSet(ivs[v].value) : v \in DOMAIN ivs} : b.k = "operand"}}
    IN [sp |-> sp, cfg |-> built.cfg, blocks |-> built.blocks,
        ok |-> built.ok /\ FusedAgree(sp, dims) /\ IndVarsNested(sp),
        threads |-> built.threads, ivs |-> ivs, init |-> init, mems |-> mems,
        vars |-> wrap_variables(sp),
        dims |-> CfgDims(built.cfg) \o built.blocks \o built.threads,
        args |-> UNION {DimParams(dims[g]) : g \in DOMAIN dims}
                 \cup UNION {ParamOfOperand(x) : x \in operands \cup values}
                 \cup UNION {LevelParams(l) : l \in ToSet(init)}
                 \cup UNION {MemParams(mems[k], built.blocks) : k \in DOMAIN mems}]
WithCfg(sp, ivs, dims) == FunctionOf(sp, ivs, dims, CfgBuild(sp, dims))
WithDims(sp, ivs) == WithCfg(sp, ivs, register_induction_vars(sp, ivs, group_merged_dimensions(sp)))
FunctionBuild(sp) == WithDims(sp, IndVars(sp))

=============================================================================
