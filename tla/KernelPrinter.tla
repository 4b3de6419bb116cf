--------------------------- MODULE KernelPrinter ---------------------------
(***************************************************************************)
(* The code of a kernel (src/src/codegen/name_map.rs and printer.rs, and   *)
(* the printers of the backends): registers are named, and the control     *)
(* flow graph is walked to print one straight sequence of instructions,    *)
(* with labels, jumps and barriers.                                        *)
(*                                                                         *)
(* The names that the name generators make are all different: a register   *)
(* is named by what it holds.  The printer's state is the code, the        *)
(* current index of the unrolled dimensions, the guard of the side effects *)
(* and the number of temporary names.                                      *)
(***************************************************************************)
EXTENDS Codegen

Bool == I(1)
Int32 == I(32)

-----------------------------------------------------------------------------
(* NameMap *)

(* VariableNames: an array of names and, for each of its dimensions, the   *)
(* dimension that gives the index (0: always the last index).              *)
VariableNames(root, dims, sizes, t) == [root |-> root, idx |-> dims, sizes |-> sizes, t |-> t]

get_name(names, cur) ==
    Register(<<"value", names.root,
               [k \in DOMAIN names.idx |->
                  IF names.idx[k] \in DOMAIN cur THEN cur[names.idx[k]] ELSE names.sizes[k] - 1]>>,
             names.t)

create_alias(names, map) ==
    [names EXCEPT !.idx = [k \in DOMAIN @ |-> IF @[k] \in DOMAIN map THEN map[@[k]] ELSE @[k]]]

SizesOf(sp, dims) == [k \in DOMAIN dims |-> as_int(from_ir(sp, sp.fun.dims[dims[k]].size))]

(* The names of the variables, in the order of wrap_variables. *)
VarNames(fun) ==
    LET sp == fun.sp
        add(acc, v) ==
            LET def == sp.fun.vars[v].def
                dims == Ascending(fun.vars[v])
            IN Append(acc, IF def.k = "Inst"
                           THEN VariableNames(<<"var", v>>, dims, SizesOf(sp, dims),
                                              lower_type(sp, sp.fun.vars[v].t))
                           ELSE create_alias(acc[def.v], DimMapping(sp.fun, def)))
    IN FoldLeft(add, <<>>, [v \in 1..Len(sp.fun.vars) |-> v])

AsReduction(op) == {x \in ToSet(op.a) : x.k = "reduce"}

(* decl_alias: a reduction has the name of its initial value.              *)
decl_alias(sp, base, i, dim_map) ==
    LET map == [d \in ToSet(instantiation_dims(sp, i)) |-> d]
               @@ [d \in {p[1] : p \in ToSet(dim_map)} |-> (CHOOSE p \in ToSet(dim_map) : p[1] = d)[2]]
    IN [base EXCEPT !.idx = [k \in DOMAIN @ |-> IF @[k] \in DOMAIN map THEN map[@[k]] ELSE 0]]

(* The names of the results of the instructions, in the order of the cfg.  *)
InstNames(fun, vars) ==
    LET sp == fun.sp
        add(acc, i) ==
            LET inst == sp.fun.insts[i]
                dims == instantiation_dims(sp, i)
                red == AsReduction(inst.op)
            IN (i :> IF inst.var # 0 THEN vars[inst.var]
                     ELSE IF red # {} THEN decl_alias(sp, acc[The(red).i], i, The(red).map)
                     ELSE VariableNames(<<"inst", i>>, dims, SizesOf(sp, dims),
                                        lower_type(sp, Operator_t(inst.op)))) @@ acc
        named == SelectSeq(CfgInsts(fun.cfg), LAMBDA i : HasResult(sp.fun.insts[i].op))
    IN FoldLeft(add, [i \in {} |-> 0], named)

NameMap(fun) ==
    LET vars == VarNames(fun) IN [fun |-> fun, vars |-> vars, insts |-> InstNames(fun, vars)]

(* The dimension that represents the group of d: its index has one name.   *)
name_index(nm, d) ==
    LET groups == nm.fun.dims
        g == groups[CHOOSE k \in DOMAIN groups : d \in ToSet(groups[k].ids)]
    IN Register(<<"index", DimId(g)>>, Int32)

name_param_val(key, t) == Register(<<"param", key>>, t)

name_addr(nm, m) ==
    LET t == lower_type(nm.fun.sp, PtrTo(m)) IN
    IF nm.fun.sp.mspace[m] = {"GLOBAL"} THEN name_param_val(GlobalMem(m), t)
    ELSE Register(<<"shared", m>>, t)

LevelReg(l) ==
    IF l.dim = 0 THEN Register(<<"iv", l.v>>, l.t) ELSE Register(<<"level", l.v, l.dim>>, l.t)
SizeCast(size, t) == Register(<<"cast", size, t>>, t)

(* name_size, with the width of the literal the code starts from. *)
name_size(size, t) ==
    CASE size.p = <<>> ->
           IF size.d = 1 THEN typed_int_literal(size.f, 32, t) ELSE {}
      [] size.p # <<>> /\ t = Int32 ->
           {name_param_val(The(ParamOfSize(size)), Int32)}
      [] OTHER -> {SizeCast(size, t)}

(* name_mapped_inst: the index of a mapped dimension is that of its image. *)
MapIndexes(cur, map) ==
    FoldLeft(LAMBDA c, p : IF p[2] \in DOMAIN c
                           THEN (p[1] :> c[p[2]]) @@ [d \in DOMAIN c \ {p[2]} |-> c[d]] ELSE c,
             cur, map)
name_mapped_inst(nm, i, cur, map) == get_name(nm.insts[i], MapIndexes(cur, map))

RECURSIVE name_op(_, _, _)
RECURSIVE name_induction_var(_, _)
name_op(nm, x, cur) ==
    CASE x.k = "int" -> int_literal(x.v, x.t)
      [] x.k = "float" -> float_literal(x.v, x.t)
      [] x.k \in {"inst", "reduce"} -> name_mapped_inst(nm, x.i, cur, x.map)
      [] x.k = "index" -> IF x.d \in DOMAIN cur THEN int_literal(cur[x.d], Int32) ELSE name_index(nm, x.d)
      [] x.k = "param" -> name_param_val(External(x.p), x.t)
      [] x.k = "addr" -> name_addr(nm, x.m)
      [] x.k = "iv" -> name_induction_var(nm, x.v)
      [] x.k = "var" -> get_name(nm.vars[x.v], cur)

LevelName(nm, v, d) ==
    Register(<<"level", v, d>>, lower_type(nm.fun.sp, nm.fun.sp.fun.ivs[v].base.t))
NameOf(nm, c, cur) == IF c.k = "level" THEN LevelName(nm, c.v, c.d) ELSE name_op(nm, c.x, cur)

(* The value of an induction variable is named before any code is printed. *)
name_induction_var(nm, v) ==
    LET value == nm.fun.ivs[v].value IN
    IF value = <<>> THEN Register(<<"iv", v>>, lower_type(nm.fun.sp, nm.fun.sp.fun.ivs[v].base.t))
    ELSE NameOf(nm, value[1], [d \in {} |-> 0])

-----------------------------------------------------------------------------
(* Printer *)
Start == [code |-> <<>>, cur |-> [d \in {} |-> 0], guard |-> NoReg, n |-> 0]
Panic == Inst(<<"panic">>, <<>>, <<>>)

Emit(st, inst) == [st EXCEPT !.code = Append(@, inst)]
EmitAll(st, insts) == [st EXCEPT !.code = @ \o insts]
Temp(st, t) == Register(<<"tmp", st.n>>, t)
Bump(st) == [st EXCEPT !.n = @ + 1]

Zero == int_literal(0, Int32)
OrPanic(S, Make(_)) == IF S = {} THEN Panic ELSE Make(The(S))

\* Mutant of disable_threads: idle threads repeat the side effects.
DisableNoThreads(nm, st, idle) == [st EXCEPT !.guard = NoReg]

(* disable_threads: only the threads at index 0 of the idle dimensions     *)
(* keep their side effects.                                                *)
disable_threads(nm, st, idle) ==
    LET step(acc, dim) ==
            LET new == Temp(acc, Bool)
                eq == Emit(Bump(acc), set_eq(new, name_index(nm, DimId(dim)), Zero))
            IN IF acc.guard = NoReg THEN [eq EXCEPT !.guard = {new}]
               ELSE Emit(eq, iand(The(acc.guard), The(acc.guard), new))
    IN FoldLeft(step, [st EXCEPT !.guard = NoReg], idle)

(* The sum of the components of a level. *)
BaseOf(nm, st, level) == [k \in DOMAIN level.base |-> NameOf(nm, level.base[k], st.cur)]
Assign(reg, base) ==
    CASE Len(base) = 1 -> mov(reg, base[1])
      [] Len(base) = 2 -> iadd(reg, base[1], base[2])
      [] OTHER -> Panic

(* parallel_induction_level *)
parallel_induction_level(nm, st, level) ==
    LET reg == LevelReg(level)
        base == BaseOf(nm, st, level)
        index == name_index(nm, level.dim)
    IN Emit(st,
         IF level.dim # 0
         THEN OrPanic(name_size(level.inc, Int32),
                LAMBDA step : CASE base = <<>> -> imul(reg, index, step)
                                [] Len(base) = 1 -> imad(reg, index, step, base[1])
                                [] OTHER -> Panic)
         ELSE IF base = <<>> THEN OrPanic(typed_int_literal(0, 32, level.t), LAMBDA z : mov(reg, z))
         ELSE Assign(reg, base))

(* Printer::inst *)
Factor(dims) == FoldLeft(LAMBDA p, dim : p * as_int(dim.size), 1, dims)
VectorIndexes(vec) ==
    LET dims == vec[1] \o vec[2]
    IN [j \in 1..Factor(dims) |-> [d \in {DimId(dims[k]) : k \in DOMAIN dims} |->
          LET k == CHOOSE x \in DOMAIN dims : DimId(dims[x]) = d
          IN ((j - 1) \div Factor(Drop(dims, k))) % as_int(dims[k].size)]]

MemSpaceOf(sp, op) == IF op.mem = 0 THEN "GLOBAL" ELSE The(sp.mspace[op.mem])

(* What an operator becomes, given the names of its results and operands.  *)
Made(sp, i, op, guard, factors, res, args, addr) ==
    LET ty(k) == lower_type(sp, op.a[k].t)
        flag == The(sp.flag[i])
    IN CASE op.k = "binop" ->
              UNION {binary(o, res, args[1], args[2]) : o \in BinOpFromIr(op.f, op.rnd, ty(1), ty(2))}
         [] op.k = "mul" ->
              UNION {binary(o, res, args[1], args[2]) :
                       o \in from_ir_mul(op.rnd, ty(1), ty(2), lower_type(sp, op.t))}
         [] op.k = "mad" ->
              UNION {ternary(o, res, args[1], args[2], args[3]) :
                       o \in from_ir_mad(op.rnd, ty(1), ty(2), ty(3))}
         [] op.k = "unop" -> UNION {unary(o, res, args[1]) : o \in UnOpFromIr(op.f, ty(1))}
         [] op.k = "ld" ->
              UNION {load(s, res, a) :
                       s \in LoadSpec(factors, lower_type(sp, op.t), MemSpaceOf(sp, op), flag), a \in addr}
         [] op.k = "st" ->
              {predicated(x, IF op.side THEN guard ELSE NoReg) :
                 x \in UNION {store(s, a, args[2]) :
                               s \in StoreSpec(factors, ty(2), MemSpaceOf(sp, op), flag), a \in addr}}
         [] OTHER -> {}
Named(nm, st, vec, i, op, indexes) ==
    Made(nm.fun.sp, i, op, st.guard, <<Factor(vec[1]), Factor(vec[2])>>,
         [j \in DOMAIN indexes |-> name_mapped_inst(nm, i, indexes[j] @@ st.cur, <<>>)],
         [k \in DOMAIN op.a |-> [j \in DOMAIN indexes |-> name_op(nm, op.a[k], indexes[j] @@ st.cur)]],
         AddressOf(name_op(nm, op.a[1], st.cur)))
inst(nm, st, vec, i) ==
    Emit(st, IF vec[1] # <<>> THEN Panic
             ELSE Unwrap(Named(nm, st, vec, i, nm.fun.sp.fun.insts[i].op, VectorIndexes(vec))))

RECURSIVE cfg_vec(_, _, _)

(* standard_loop: a counter, a label, the body, the steps and the jump.    *)
LoopStart(nm, st, dim) ==
    EmitAll(Bump(st), <<mov(name_index(nm, DimId(dim)), Zero)>>
                      \o [k \in DOMAIN dim.levels |->
                           Assign(LevelReg(dim.levels[k]), BaseOf(nm, st, dim.levels[k]))]
                      \o <<label(<<"loop", st.n>>)>>)
LoopEnd(st, dim, idx, n) ==
    LET cond == Register(<<"tmp", n>>, Bool)
        stepped == SelectSeq(dim.levels, LAMBDA l : l.dim # 0)
    IN EmitAll(st,
         [k \in DOMAIN stepped |->
            OrPanic(name_size(stepped[k].inc, stepped[k].t),
                    LAMBDA s : iadd(LevelReg(stepped[k]), LevelReg(stepped[k]), s))]
         \o <<iadd(idx, idx, int_literal(1, Int32)),
              OrPanic(name_size(dim.size, Int32), LAMBDA s : set_lt(cond, idx, s)),
              predicated(jump(<<"loop", n>>), {cond})>>)
standard_loop(nm, st, dim, body) ==
    LoopEnd(cfg_vec(nm, LoopStart(nm, st, dim), body), dim, name_index(nm, DimId(dim)), st.n)

(* unroll_loop: the body is printed once for each index.                   *)
unroll_loop(nm, st, dim, body) ==
    LET levels == dim.levels
        tmp(k) == Register(<<"tmp", st.n, k>>, levels[k].t)
        names(k) == BaseOf(nm, st, levels[k])
        base(k) == IF Len(names(k)) = 1 THEN names(k)[1] ELSE tmp(k)
        started == EmitAll(Bump(st), FlattenSeq([k \in DOMAIN levels |->
                     (IF Len(names(k)) = 1 THEN <<>> ELSE <<Assign(tmp(k), names(k))>>)
                     \o <<mov(LevelReg(levels[k]), base(k))>>]))
        step(k, i) ==
            LET reg == LevelReg(levels[k]) inc == levels[k].inc IN
            IF IsStatic(inc)
            THEN OrPanic(typed_int_literal(as_int(inc) * i, 32, levels[k].t), LAMBDA s : iadd(reg, s, base(k)))
            ELSE OrPanic(name_size(inc, levels[k].t), LAMBDA s : iadd(reg, s, reg))
        stepped == SelectSeq([k \in DOMAIN levels |-> k], LAMBDA k : levels[k].dim # 0)
        iteration(acc, i) ==
            LET at == [acc EXCEPT !.cur = [d \in ToSet(dim.ids) |-> i] @@ @]
            IN cfg_vec(nm, IF i = 0 THEN at ELSE EmitAll(at, [k \in DOMAIN stepped |-> step(stepped[k], i)]), body)
        done == FoldLeft(iteration, started, [i \in 1..as_int(dim.size) |-> i - 1])
    IN [done EXCEPT !.cur = [d \in DOMAIN @ \ ToSet(dim.ids) |-> @[d]]]

\* Mutant of ThreadRegion: no barrier after the region.
ThreadRegionUnsynced(nm, st, c) ==
    LET idle == SelectSeq([p \in DOMAIN c.dims |-> p], LAMBDA p : c.dims[p] = 0)
        guarded == disable_threads(nm, st, [k \in DOMAIN idle |-> nm.fun.threads[idle[k]]])
        levelled == FoldLeft(LAMBDA acc, l : parallel_induction_level(nm, acc, l), guarded, c.levels)
    IN cfg_vec(nm, levelled, c.body)

(* The region of the threads: a guard, the levels, the body, a barrier.    *)
ThreadRegion(nm, st, c) ==
    LET idle == SelectSeq([p \in DOMAIN c.dims |-> p], LAMBDA p : c.dims[p] = 0)
        guarded == disable_threads(nm, st, [k \in DOMAIN idle |-> nm.fun.threads[idle[k]]])
        levelled == FoldLeft(LAMBDA acc, l : parallel_induction_level(nm, acc, l), guarded, c.levels)
    IN Emit(cfg_vec(nm, levelled, c.body), sync)

cfg_vec(nm, st, body) ==
    FoldLeft(LAMBDA acc, c :
               CASE c.k = "inst" -> inst(nm, acc, c.vec, c.i)
                 [] c.k = "threads" -> ThreadRegion(nm, acc, c)
                 [] c.dim.kind = "LOOP" -> standard_loop(nm, acc, c.dim, c.body)
                 [] c.dim.kind = "UNROLL" -> unroll_loop(nm, acc, c.dim, c.body),
             st, body)

-----------------------------------------------------------------------------
(* The printers of the backends: `function'.                               *)

(* privatise_global_block: the copy of the thread block.                   *)
privatise_global_block(nm, st, region) ==
    LET blocks == nm.fun.blocks
        addr == name_addr(nm, region.m)
        step(acc, dim) ==
            [st |-> Emit(Bump(acc.st),
                      OrPanic(name_size(dim.size, Int32),
                        LAMBDA s : imad(Temp(acc.st, Int32), acc.var, s, name_index(nm, DimId(dim))))),
             var |-> Temp(acc.st, Int32)]
        linear == FoldLeft(step, [st |-> st, var |-> name_index(nm, DimId(blocks[1]))], Tail(blocks))
    IN IF ~Privatised(region, blocks) THEN st
       ELSE Emit(linear.st, OrPanic(name_size(region.size, Int32),
                              LAMBDA s : imad(addr, linear.var, s, addr)))

(* The steps of the loops are converted to the type of the pointers once,  *)
(* before the loops.                                                       *)
CastSizes(nm, st) ==
    LET levels == FlattenSeq([k \in DOMAIN nm.fun.dims |->
                    IF nm.fun.dims[k].kind \in {"LOOP", "UNROLL"} THEN nm.fun.dims[k].levels ELSE <<>>])
        needed(l) == l.dim # 0 /\ ~IsStatic(l.inc) /\ l.t # Int32
        declare(acc, l) ==
            IF ~needed(l) \/ <<l.inc, l.t>> \in acc.seen THEN acc
            ELSE [seen |-> acc.seen \cup {<<l.inc, l.t>>},
                  st |-> Emit(acc.st, OrPanic(name_size(l.inc, Int32),
                                       LAMBDA old : cast(l.t, SizeCast(l.inc, l.t), old)))]
    IN FoldLeft(declare, [seen |-> {}, st |-> st], levels).st

FirstLevels(fun) == fun.init \o FlattenSeq([k \in DOMAIN fun.blocks |-> fun.blocks[k].levels])
PrintNamed(fun, nm) ==
    cfg_vec(nm, FoldLeft(LAMBDA st, l : parallel_induction_level(nm, st, l),
                         CastSizes(nm, FoldLeft(LAMBDA st, region : privatise_global_block(nm, st, region),
                                                Start, fun.mems)),
                         FirstLevels(fun)), fun.cfg).code
PrintFunction(fun) == PrintNamed(fun, NameMap(fun))

(* The registers a kernel starts from that the host must give it: every    *)
(* parameter the code reads is one of the arguments of the kernel.         *)
RegsRead(code) ==
    UNION {UNION {ToSet(code[k].args[j]) : j \in DOMAIN code[k].args} : k \in DOMAIN code}
ParamsDeclared(fun, code) ==
    \A r \in {x \in RegsRead(code) : x.k = "reg"} : r.name[1] = "param" => r.name[2] \in fun.args
Panics(code) == \E k \in DOMAIN code : code[k] = Panic
=============================================================================
