----------------------------- MODULE PerfModel -----------------------------
(***************************************************************************)
(* The throughput side of the performance model (src/src/model): from the  *)
(* domains of a candidate, which may leave most choices open, the pressure *)
(* on the units of a GPU that every implementation of the candidate has at *)
(* least, for a thread, for a block of threads and for the whole grid.     *)
(*                                                                         *)
(* A pressure is a number of operations on each unit.  The GPU is one with *)
(* wraps of a single thread, on which no memory access is replayed and the *)
(* ratio of waste_ratio is a whole number; its instructions use each of    *)
(* their units once.                                                       *)
(*                                                                         *)
(* bound() takes the throughput of the grid, or the longest path through a *)
(* graph whose edges are the figures of the levels below and latencies, if *)
(* that is more.  Each figure is modelled; the latencies, and the sums of  *)
(* figures along a path, are left out.                                     *)
(***************************************************************************)
EXTENDS KernelSpace

WrapSize == 1

-----------------------------------------------------------------------------
(* HwPressure                                                              *)
Units == {"issue", "alu", "mem", "sync"}
InstDesc(i, a, m, s) == [issue |-> i, alu |-> a, mem |-> m, sync |-> s]
ZeroPressure == InstDesc(0, 0, 0, 0)
repeat_and_add(p, factor, q) == [u \in Units |-> p[u] + factor * q[u]]
add_parallel(p, q) == repeat_and_add(p, 1, q)
Least(P) == IF P = {} THEN ZeroPressure ELSE [u \in Units |-> Min({p[u] : p \in P})]
Greatest(P) == [u \in Units |-> Max({p[u] : p \in P} \cup {0})]

-----------------------------------------------------------------------------
(* model/size.rs: what is known of a size.                                 *)
gcd(a, b) == Max({k \in 1..Min({a, b}) : a % k = 0 /\ b % k = 0})
lcm(a, b) == (a * b) \div gcd(a, b)
LcmOfSizes(S) == FoldSet(lcm, 1, S)
GcdOfSizes(S) == FoldSet(gcd, The(S), S)
Constant(s, args) == FoldLeft(LAMBDA n, p : n * args[p], s.f, s.p)
Times(S, f(_)) == MapThenFoldSet(LAMBDA x, y : x * y, 1, f, LAMBDA T : CHOOSE x \in T : TRUE, S)
DividedBy(S, f(_), n) == FoldSet(LAMBDA d, m : m \div f(d), n, S)

bounds(sp, args, s) ==
    LET least == Constant(s, args) * Times(s.dims, LAMBDA d : Min(sp.size[d]))
        most == Constant(s, args) * Times(s.dims, LAMBDA d : Max(sp.size[d]))
    IN [min |-> FoldSet(LAMBDA d, m : m \div gcd(Max(sp.size[d]), m), least, s.div),
        max |-> DividedBy(s.div, LAMBDA d : Min(sp.size[d]), most)]
factors_lcm(sp, args, s) ==
    DividedBy(s.div, LAMBDA d : GcdOfSizes(sp.size[d]),
              Constant(s, args) * Times(s.dims, LAMBDA d : LcmOfSizes(sp.size[d])))

Unit == PartialSize(1, <<>>)
SizeProduct(sp, D) == FoldSet(LAMBDA d, s : psize_mul(s, sp.fun.dims[d].size), Unit, D)

-----------------------------------------------------------------------------
(* backend/cuda/src/gpu.rs: the pressure of a single statement.            *)
SkippedPressure == InstDesc(1, 0, 0, 0)
SyncThread == InstDesc(1, 0, 0, 1)
LoopInit == InstDesc(1, 0, 0, 0)
LoopIter == InstDesc(3, 2, 0, 0)
Arith == InstDesc(1, 1, 0, 0)
Access == InstDesc(1, 0, 1, 0)

inst_pressure(op) ==
    CASE op.k \in {"binop", "mul", "mad"} -> Arith
      [] is_mem_access(op) -> Access
      [] OTHER -> IF op.f[1] = "Exp" THEN Arith ELSE ZeroPressure
dim_pressure(kind, size) ==
    CASE kind = {"LOOP"} -> repeat_and_add(LoopInit, size.min, LoopIter)
      [] kind = {"THREAD"} -> SyncThread
      [] OTHER -> ZeroPressure
loop_iter_pressure(kind) ==
    CASE kind = {"LOOP"} -> LoopIter [] kind = {"THREAD"} -> SyncThread [] OTHER -> ZeroPressure
additive_indvar_pressure == Arith
multiplicative_indvar_pressure == Arith

(* The threads the hardware adds to fill a wrap, and those a predicate     *)
(* makes skip the instruction.                                             *)
waste_ratio(threads) == (((threads + WrapSize - 1) \div WrapSize) * WrapSize) \div threads
add_block_overhead(active, threads, predication, p) ==
    LET ratio == waste_ratio(active)
        skipped == waste_ratio(threads) * predication - ratio
        wasted == [u \in Units |-> p[u] * ratio]
    IN IF skipped > 0 THEN repeat_and_add(wasted, skipped, SkippedPressure) ELSE wasted

-----------------------------------------------------------------------------
MayMerge(sp, d, e) == "MERGED" \in Ord(sp, DimStmt(d), DimStmt(e))
known_iteration_dims(sp, i) == Join(OuterDims(sp, i), sp.fun.insts[i].iter, LAMBDA d, e : MayMerge(sp, d, e))

(* Nesting::compute                                                        *)
Others(sp, s) == DOMAIN sp.fun.dims \ (IF IsDim(s) THEN {s[2]} ELSE {})
InnerDims(sp, s) == {d \in Others(sp, s) : Ord(sp, DimStmt(d), s) \subseteq {"INNER"}}
InnerStmts(sp, s) == {t \in Statements(sp.fun) \ {s} : Ord(sp, t, s) \subseteq {"INNER"}}
\* Mutant of BiggerMergedDims: loops that may still be merged are all counted.
BiggerMergedForSure(sp, s) ==
    IF IsDim(s) THEN {d \in Others(sp, s) : d > s[2] /\ Ord(sp, DimStmt(d), s) = {"MERGED"}} ELSE {}
BiggerMergedDims(sp, s) ==
    IF IsDim(s) THEN {d \in Others(sp, s) : d > s[2] /\ MayMerge(sp, d, s[2])} ELSE {}
HasInnerThreadDims(sp, s) ==
    \E d \in Others(sp, s) : "INNER" \in Ord(sp, DimStmt(d), s) /\ sp.kind[d] = {"THREAD"}

(* get_iteration_dims *)
NestingDims(sp, s) ==
    IF IsDim(s)
    THEN Join({d \in Others(sp, s) : Outer(sp, DimStmt(d), s)}, {}, LAMBDA d, e : MayMerge(sp, d, e))
    ELSE known_iteration_dims(sp, s[2])

UnmappedThreads(sp, outer) ==
    {t \in thread_dims(sp) :
       \A d \in outer : d # t /\ (Static(sp.fun, d) => "MAPPED" \notin sp.tm[<<t, d>>])}
MaybeThreads(sp, outer) == {d \in outer : "THREAD" \in sp.kind[d]}

-----------------------------------------------------------------------------
(* LocalInfo::compute                                                      *)

(* add_indvar_pressure, one for each dimension of an induction variable.   *)
IndVarSteps(sp) == {<<v, k>> : v \in DOMAIN sp.fun.ivs, k \in 1..Max({Len(sp.fun.ivs[w].dims) : w \in DOMAIN sp.fun.ivs} \cup {0})}
IndVarCount(sp, D) ==
    Cardinality({x \in IndVarSteps(sp) : /\ x[2] \in DOMAIN sp.fun.ivs[x[1]].dims
                                        /\ sp.fun.ivs[x[1]].dims[x[2]][1] \in D})
ParallelLevels(sp) ==
    {d \in DOMAIN sp.fun.dims : sp.kind[d] \cap Vector = {} /\ sp.kind[d] \cap {"THREAD", "BLOCK"} # {}}
MayLoop(sp, d) == sp.kind[d] \cap {"LOOP", "UNROLL"} # {}
ThreadOverhead(sp) ==
    LET added == {d \in ParallelLevels(sp) : MayLoop(sp, d)}
    IN repeat_and_add(
         repeat_and_add(ZeroPressure, IndVarCount(sp, added), additive_indvar_pressure),
         IndVarCount(sp, ParallelLevels(sp) \ added), multiplicative_indvar_pressure)
LevelOverhead(sp, d) ==
    IF d \in ParallelLevels(sp) \/ sp.kind[d] \cap Vector # {} THEN ZeroPressure
    ELSE repeat_and_add(ZeroPressure, IndVarCount(sp, {d}), additive_indvar_pressure)

(* Only the innermost thread dimensions count, once. *)
Ignored(sp, d) == sp.kind[d] = {"THREAD"} /\ HasInnerThreadDims(sp, DimStmt(d))
DimOverhead(sp, args, d) ==
    LET iter == IF Ignored(sp, d) THEN ZeroPressure ELSE loop_iter_pressure(sp.kind[d])
    IN IF bounds(sp, args, sp.fun.dims[d].size).min > 1 THEN add_parallel(iter, LevelOverhead(sp, d)) ELSE iter
StmtPressure(sp, args, s) ==
    IF ~IsDim(s) THEN inst_pressure(sp.fun.insts[s[2]].op)
    ELSE LET d == s[2]
             size == bounds(sp, args, sp.fun.dims[d].size)
             own == IF Ignored(sp, d) THEN ZeroPressure ELSE dim_pressure(sp.kind[d], size)
         IN repeat_and_add(own, size.min - 1, LevelOverhead(sp, d))

(* parallelism: the fewest blocks and threads, and a multiple of the       *)
(* number of blocks.                                                       *)
BlockDims(sp, i) == {d \in known_iteration_dims(sp, i) : sp.kind[d] = {"BLOCK"}}
MaybeBlockDims(sp, i) == {d \in known_iteration_dims(sp, i) : "BLOCK" \in sp.kind[d]}
MinThreadsPerBlock(sp, args) == bounds(sp, args, SizeProduct(sp, thread_dims(sp))).min
MinBlocks(sp, args) == Min({bounds(sp, args, SizeProduct(sp, BlockDims(sp, i))).min : i \in DOMAIN sp.fun.insts})
MinThreads(sp, args) ==
    Min({bounds(sp, args, psize_mul(SizeProduct(sp, BlockDims(sp, i)), SizeProduct(sp, thread_dims(sp)))).min :
           i \in DOMAIN sp.fun.insts})
LcmBlocks(sp, args) ==
    LcmOfSizes({factors_lcm(sp, args, SizeProduct(sp, MaybeBlockDims(sp, i))) : i \in DOMAIN sp.fun.insts})

-----------------------------------------------------------------------------
(* BottleneckLevel *)
AccountsForDim(level, kind) ==
    /\ kind \cap Vector = {}
    /\ level \in {"Block", "Thread"} => kind # {"BLOCK"}
    /\ level = "Thread" => "THREAD" \notin kind

(* sum_pressure, its part for a statement in the body of a nest: how often *)
(* it runs for each thread, the threads it is not mapped to and those it   *)
(* may be, and a single instance of it.                                    *)
times(sp, args, n, p) == repeat_and_add(ZeroPressure, bounds(sp, args, n).min, p)
SinglePressure(sp, args, level, s) ==
    IF IsDim(s) /\ ~AccountsForDim(level, sp.kind[s[2]])
    THEN DimOverhead(sp, args, s[2]) ELSE StmtPressure(sp, args, s)
is_predicated(sp, s) == ~IsDim(s) /\ sp.fun.insts[s[2]].op.side
InstancesPressure(sp, args, level, s, instances, unmapped, may, max, single) ==
    IF level = "Thread" THEN times(sp, args, instances, single)
    ELSE IF is_predicated(sp, s)
    THEN times(sp, args, instances,
               add_block_overhead(factors_lcm(sp, args, may), max, bounds(sp, args, unmapped).min, single))
    ELSE times(sp, args, psize_mul(instances, unmapped), add_block_overhead(max, max, 1, single))
BodyPressure(sp, args, level, inner, s, outer, repeat) ==
    LET summed == {d \in inner \cap outer : AccountsForDim(level, sp.kind[d])}
        unmapped == SizeProduct(sp, UnmappedThreads(sp, outer))
        may == SizeProduct(sp, MaybeThreads(sp, outer))
    IN InstancesPressure(sp, args, level, s, psize_mul(SizeProduct(sp, summed), repeat), unmapped, may,
                         factors_lcm(sp, args, psize_mul(may, unmapped)), SinglePressure(sp, args, level, s))

(* ... and the start of the threads.                                       *)
StartPressure(sp, args, level) ==
    LET n == CASE level = "Global" -> MinThreads(sp, args)
               [] level = "Block" -> MinThreadsPerBlock(sp, args)
               [] level = "Thread" -> 1
        init == ThreadOverhead(sp)
    IN repeat_and_add(ZeroPressure, n,
         IF level = "Thread" THEN init ELSE add_block_overhead(n, n, 1, init))

InnerOf(sp, nest) == {d \in DOMAIN sp.fun.dims : \A e \in nest : d # e /\ d \in InnerDims(sp, DimStmt(e))}
StmtsOf(sp, nest) == {s \in Statements(sp.fun) : \A e \in nest : s # DimStmt(e) /\ s \in InnerStmts(sp, DimStmt(e))}
NestStart(sp, args, level, nest) ==
    IF nest = {} THEN StartPressure(sp, args, level) ELSE Least({DimOverhead(sp, args, d) : d \in nest})
BodyOf(sp, args, level, inner, stmts, start, repeat) ==
    FoldSet(LAMBDA s, p : add_parallel(p, BodyPressure(sp, args, level, inner, s, NestingDims(sp, s), repeat)),
            start, {s \in stmts : inner \cap BiggerMergedDims(sp, s) = {}})
sum_pressure(sp, args, level, nest, repeat) ==
    BodyOf(sp, args, level, InnerOf(sp, nest), StmtsOf(sp, nest), NestStart(sp, args, level, nest), repeat)

-----------------------------------------------------------------------------
(* The blocks the device runs at once (blocks_per_smx, block_parallelism); *)
(* shared memory never limits them here.                                   *)
MaxBlockPerSmx == 4
ThreadPerSmx == 16
NumSmx == 1
block_parallelism(threads) == Min({MaxBlockPerSmx, ThreadPerSmx \div threads}) * NumSmx

(* Figures for a block and for a thread of it are scaled to the grid: the  *)
(* dimensions that may still become block ones counted as loops.  Times    *)
(* are in units of 1 / Fine, which every number of blocks divides.         *)
Fine == 16
DivCeil(a, b) == (a + b - 1) \div b
scale(p, hw_parallelism, iterations, max_par) ==
    [u \in Units |-> (p[u] * DivCeil(max_par, hw_parallelism) * iterations * Fine) \div max_par]

-----------------------------------------------------------------------------
(* model/level.rs: the levels of a candidate.  Each is a set of dimensions *)
(* whose bodies intersect; the empty one is the whole program.             *)
must_consider_dim(sp, d) == sp.kind[d] # {"BLOCK"} /\ sp.kind[d] \cap Vector = {}
Considered(sp, D) == {d \in D : must_consider_dim(sp, d)}

(* list_dim_maps: the dimensions on both sides of an operand's map.        *)
DimMaps(sp) == UNION {{x.map : x \in {y \in ToSet(sp.fun.insts[i].op.a) : HasMap(y)}} : i \in DOMAIN sp.fun.insts}
MapSides(sp, m) == <<Considered(sp, {p[1] : p \in ToSet(m)}), Considered(sp, {p[2] : p \in ToSet(m)})>>
list_dim_maps(sp) == {s[1] \cup s[2] : s \in {t \in {MapSides(sp, m) : m \in DimMaps(sp)} : {} \notin Range(t)}}

(* generate, first part: the nesting of each statement, of each dimension  *)
(* together with itself, and of each map.                                  *)
Nestings(sp) ==
    LET dims == Considered(sp, DOMAIN sp.fun.dims)
        around(s) == Considered(sp, NestingDims(sp, s))
    IN {around(InstStmt(i)) : i \in DOMAIN sp.fun.insts}
       \cup UNION {{around(DimStmt(d)), around(DimStmt(d)) \cup {d}} : d \in dims}
       \cup {{e \in DOMAIN sp.fun.dims : \A d \in m : e \in NestingDims(sp, DimStmt(d))} : m \in list_dim_maps(sp)}

(* ... second part: the edges of the minimal graph of the order between    *)
(* nestings, where what is added is inner to all there is.                 *)
Extends(sp, x, y) == x \subseteq y /\ x # y /\ \A d \in x : y \ x \subseteq InnerDims(sp, DimStmt(d))
NestingEdges(sp, N) ==
    {e \in N \X N : /\ Extends(sp, e[1], e[2])
                    /\ ~\E n \in N : Extends(sp, e[1], n) /\ Extends(sp, n, e[2])}

(* ... third part: the dimensions an edge adds; of several, those that are *)
(* loops, should they not become blocks.                                   *)
IsSequential(sp, d) == LET kind == sp.kind[d] \ {"BLOCK"} IN kind # {} /\ kind \subseteq {"LOOP", "UNROLL"}
SequentialDims(sp, D) == {d \in D : IsSequential(sp, d)}
LevelDims(sp, e) ==
    LET added == e[2] \ e[1] IN IF Cardinality(added) <= 1 THEN added ELSE SequentialDims(sp, added)
Levels(sp) == {{}} \cup {LevelDims(sp, e) : e \in NestingEdges(sp, Nestings(sp))}

-----------------------------------------------------------------------------
(* The figures of the levels (Level::new, RepeatLevel::new): the work of   *)
(* the threads of a block, for a level of thread dimensions only, and the  *)
(* iterations of its loops in a thread, for every level.                   *)
BlockBounds(sp, args) ==
    Greatest({sum_pressure(sp, args, "Block", nest, SizeProduct(sp, nest)) :
                nest \in {n \in Levels(sp) : \A d \in n : sp.kind[d] \subseteq {"THREAD"}}})
Iterations(sp, args, nest) == bounds(sp, args, SizeProduct(sp, SequentialDims(sp, nest))).min
ThreadBounds(sp, args) ==
    Greatest({repeat_and_add(ZeroPressure, Iterations(sp, args, nest), sum_pressure(sp, args, "Thread", nest, Unit)) :
                nest \in Levels(sp)})
ScaleToGrid(sp, args, p) ==
    scale(p, block_parallelism(MinThreadsPerBlock(sp, args)), MinBlocks(sp, args), LcmBlocks(sp, args))
throughput_bounds(sp, args) ==
    [Global |-> sum_pressure(sp, args, "Global", {}, Unit),
     Block |-> ScaleToGrid(sp, args, BlockBounds(sp, args)),
     Thread |-> ScaleToGrid(sp, args, ThreadBounds(sp, args))]
=============================================================================
