--------------------------------- MODULE Ir ---------------------------------
(***************************************************************************)
(* The intermediate representation (src/src/ir): a function holds          *)
(* instructions nested in iteration dimensions, the dimensions and the     *)
(* logical dimensions they tile, induction variables, variables, memory    *)
(* blocks and the mappings between dimensions.  A constructor whose checks *)
(* fail gives a function with `err' set: the program never gets one.       *)
(*                                                                         *)
(* Identifiers start at 1.  A SparseVec is a function over the identifiers *)
(* that are filled, walked in the order of the identifiers.                *)
(***************************************************************************)
EXTENDS Llir, FiniteSets, FiniteSetsExt, SequencesExt

InstStmt(i) == <<"I", i>>
DimStmt(d) == <<"D", d>>

Ascending(S) ==
    [k \in 1..Cardinality(S) |-> CHOOSE x \in S : Cardinality({y \in S : y < x}) = k - 1]
Without(seq, S) == SelectSeq(seq, LAMBDA x : x \notin S)
Pairs(a, b) == {<<a, b>>, <<b, a>>}

-----------------------------------------------------------------------------
(* PartialSize: a constant and parameters, times the sizes of dimensions,  *)
(* divided by the sizes of others.                                         *)
PartialSize(f, params) == [f |-> f, p |-> params, dims |-> {}, div |-> {}]
new_dim_size(d) == [f |-> 1, p |-> <<>>, dims |-> {d}, div |-> {}]

simplify(s) == [s EXCEPT !.dims = s.dims \ s.div, !.div = s.div \ s.dims]
add_divisors(s, D) == simplify([s EXCEPT !.div = @ \cup D])

(* MulAssign: the sizes of dimensions are sets, a repeated one is lost.    *)
psize_mul(s, r) ==
    simplify([f |-> s.f * r.f, p |-> s.p \o r.p, dims |-> s.dims \cup r.dims,
              div |-> s.div \cup r.div])

(* as_int, 0 for None. *)
psize_as_int(s) == IF s.p = <<>> /\ s.dims = {} /\ s.div = {} THEN s.f ELSE 0

-----------------------------------------------------------------------------
(* Dimensions.  `poss' is the set of sizes of a static dimension, {} when  *)
(* its size is not known before the kernel runs.                           *)
Dimension(size, poss, ldim) ==
    [size |-> size, poss |-> poss, ldim |-> ldim, maps |-> {}, par |-> TRUE,
     iterated |-> {}, thread |-> FALSE, inner |-> {}, defs |-> {}]

DimNew(size, ldim) ==
    Dimension(size, IF psize_as_int(size) = 0 THEN {} ELSE {psize_as_int(size)}, ldim)
DimInvalid(dim) == 1 \in dim.poss
new_static(d, poss, ldim) == Dimension(new_dim_size(d), poss, ldim)

with_same_size(d, other) ==
    IF other.poss = {} THEN DimNew(other.size, 0) ELSE new_static(d, other.poss, 0)

NewFunction(device) ==
    [device |-> device, insts |-> <<>>, dims |-> <<>>, ldims |-> <<>>, ivs |-> <<>>,
     vars |-> <<>>, mems |-> <<>>, layouts |-> {}, tolower |-> <<>>, maps |-> <<>>,
     static |-> <<>>, memInsts |-> <<>>, err |-> FALSE]

(* add_logical_dim, for a size with the parameters `params' (none for a    *)
(* constant size f), its tiling factors and the sizes of its tiles.        *)
add_logical_dim(fun, f, params, factors, tiles) ==
    LET lid == Len(fun.ldims) + 1
        first == Len(fun.dims) + 1
        inner == [k \in 1..Len(tiles) |-> first + k]
        outer == IF params = <<>>
                 THEN new_static(first, {f \div t : t \in factors}, lid)
                 ELSE DimNew(add_divisors(PartialSize(f, params), ToSet(inner)), lid)
        new == <<outer>> \o [k \in 1..Len(tiles) |-> new_static(first + k, tiles[k], lid)]
        ldim == IF params = <<>>
                THEN [static |-> <<first>> \o inner, dyn |-> 0, tilings |-> {f},
                      f |-> f, params |-> <<>>]
                ELSE [static |-> inner, dyn |-> first, tilings |-> factors,
                      f |-> f, params |-> params]
    IN [fun EXCEPT !.dims = @ \o new, !.ldims = Append(@, ldim),
                   !.static = @ \o [k \in 1..Len(ldim.static) |-> ldim.static[k]],
                   !.err = @ \/ \E k \in DOMAIN new : DimInvalid(new[k])]

-----------------------------------------------------------------------------
(* Mappings between dimensions.                                            *)
find_mapping(fun, l, r) ==
    {m \in fun.dims[l].maps : r \in ToSet(fun.maps[m].dims)}

create_mapping(fun, m, dims) ==
    [fun EXCEPT !.maps = (m :> [dims |-> dims, users |-> {}]) @@ @,
                !.dims = [d \in DOMAIN @ |-> IF d \in ToSet(dims)
                                             THEN [@[d] EXCEPT !.maps = @ \cup {m}] ELSE @[d]]]

map_dimensions(fun, dims) ==
    IF find_mapping(fun, dims[1], dims[2]) # {} THEN fun
    ELSE create_mapping(fun, Len(fun.maps) + 1, dims)

-----------------------------------------------------------------------------
(* Operands.                                                               *)
IntOp(v, bits) == [k |-> "int", v |-> v, t |-> I(bits)]
FloatOp(v, bits) == [k |-> "float", v |-> v, t |-> F(bits)]
Param(p, t) == [k |-> "param", p |-> p, t |-> t]
Index(d) == [k |-> "index", d |-> d, t |-> I(32)]
Addr(m) == [k |-> "addr", m |-> m, t |-> PtrTo(m)]
InductionVar(v, t) == [k |-> "iv", v |-> v, t |-> t]
Variable(fun, v) == [k |-> "var", v |-> v, t |-> fun.vars[v].t]

(* A scope: "Local", "Thread", or "Global", which holds, once the function *)
(* is frozen, the identifiers its lowering will use.                       *)
NoLowering == [mem |-> 0, st |-> 0, ld |-> 0, stm |-> <<>>, ldm |-> <<>>]

Operator_t(op) ==
    CASE op.k = "mad" -> op.a[3].t
      [] op.k \in {"ld", "tmpld", "mul"} -> op.t
      [] op.k = "binop" -> IF op.f \in Comparisons THEN I(1) ELSE op.a[1].t
      [] op.k = "unop" -> IF op.f[1] = "Cast" THEN op.f[2] ELSE op.a[1].t
HasResult(op) == op.k \notin {"st", "tmpst"}

new_inst(fun, i, map, scope) ==
    LET t == Operator_t(fun.insts[i].op) IN
    [k |-> "inst", i |-> i, t |-> t, map |-> map, low |-> NoLowering,
     scope |-> IF scope = "Global" /\ t[1] = "P" THEN "Thread" ELSE scope]
new_reduce(fun, i, map, rdims) ==
    [k |-> "reduce", i |-> i, t |-> Operator_t(fun.insts[i].op), map |-> map, rdims |-> rdims]

HasMap(o) == o.k \in {"inst", "reduce"}
OperandMerge(o, l, r) == IF HasMap(o) THEN [o EXCEPT !.map = Without(@, Pairs(l, r))] ELSE o
should_lower_map(o, l, r) == HasMap(o) /\ ToSet(o.map) \cap Pairs(l, r) # {}

-----------------------------------------------------------------------------
(* Operators: kind, function, operands, rounding, result type, memory      *)
(* block used (0: none of the function's), strides of the access pattern   *)
(* and whether a store has side effects.                                   *)
NoPattern == [d \in {} |-> 0]
Operator(k, f, a, rnd, t, mem, strides, side) ==
    [k |-> k, f |-> f, a |-> a, rnd |-> rnd, t |-> t, mem |-> mem,
     strides |-> strides, side |-> side]

UnaryOp(f, x) == Operator("unop", f, <<x>>, "Exact", I(0), 0, NoPattern, FALSE)
BinaryOp(f, x, y, rnd) == Operator("binop", f, <<x, y>>, rnd, I(0), 0, NoPattern, FALSE)
MulOp(x, y, rnd, t) == Operator("mul", "Mul", <<x, y>>, rnd, t, 0, NoPattern, FALSE)
MadOp(x, y, z, rnd) == Operator("mad", "Mad", <<x, y, z>>, rnd, I(0), 0, NoPattern, FALSE)
LdOp(t, addr, mem, strides) == Operator("ld", "Ld", <<addr>>, "Exact", t, mem, strides, FALSE)
StOp(addr, x, side, mem, strides) ==
    Operator("st", "St", <<addr, x>>, "Exact", I(0), mem, strides, side)
TmpLd(t, mem) == Operator("tmpld", "TmpLd", <<>>, "Exact", t, mem, NoPattern, FALSE)
TmpSt(x, mem) == Operator("tmpst", "TmpSt", <<x>>, "Exact", I(0), mem, NoPattern, FALSE)

is_mem_access(op) == op.k \in {"ld", "st", "tmpld", "tmpst"}

RoundingCheck(rnd, t) == is_float(t) # (rnd = "Exact")

(* AccessPattern::pointer_type *)
pointer_type(fun, op) == IF op.mem = 0 THEN fun.device.ptr.GLOBAL ELSE PtrTo(op.mem)

(* Mul and Mad accept a result twice as wide, or a pointer.                *)
WideResult(x, z) ==
    \/ x = z
    \/ x = I(32) /\ (z = I(64) \/ z[1] = "P")

(* Operator::check, its results as a Boolean. *)
OperatorCheck(fun, op, iter) ==
    /\ \A x \in ToSet(op.a) : HasMap(x) =>
         \A m \in ToSet(x.map) : find_mapping(fun, m[1], m[2]) # {}
    /\ CASE op.k = "binop" ->
              /\ op.a[1].t = op.a[2].t
              /\ IF op.f \in Comparisons \cup {"Max"} THEN op.rnd = "Exact"
                 ELSE RoundingCheck(op.rnd, op.a[1].t)
         [] op.k = "mul" -> /\ RoundingCheck(op.rnd, op.a[1].t) /\ op.a[1].t = op.a[2].t
                            /\ WideResult(op.a[1].t, op.t)
         [] op.k = "mad" -> /\ RoundingCheck(op.rnd, op.a[1].t) /\ op.a[1].t = op.a[2].t
                            /\ WideResult(op.a[1].t, op.a[3].t)
         [] op.k \in {"ld", "st"} -> /\ DOMAIN op.strides \subseteq iter
                                     /\ op.a[1].t = pointer_type(fun, op)
         [] OTHER -> TRUE

-----------------------------------------------------------------------------
(* Instructions.                                                           *)
UsedVars(op) == {x.v : x \in {y \in ToSet(op.a) : y.k = "var"}}

(* Instruction::new refuses an instruction outside of the dimensions of a  *)
(* variable it uses.                                                       *)
InstructionCheck(fun, op, iter) ==
    /\ OperatorCheck(fun, op, iter)
    /\ \A v \in UsedVars(op) : fun.vars[v].dims \subseteq iter

create_inst(fun, i, op, iter) ==
    [fun EXCEPT
       !.insts = (i :> [op |-> op, iter |-> iter, var |-> 0, defs |-> {}]) @@ @,
       !.dims = [d \in DOMAIN @ |-> IF d \in iter THEN [@[d] EXCEPT !.iterated = @ \cup {i}]
                                    ELSE @[d]],
       !.memInsts = IF is_mem_access(op) THEN Append(@, i) ELSE @,
       !.mems = IF op.mem = 0 THEN @ ELSE [@ EXCEPT ![op.mem].uses = Append(@, i)],
       !.vars = [v \in DOMAIN @ |-> IF v \in UsedVars(op)
                                    THEN [@[v] EXCEPT !.uses = @ \cup {InstStmt(i)}] ELSE @[v]],
       !.err = @ \/ ~InstructionCheck(fun, op, iter)]

add_inst(fun, op, iter) ==
    LET mapped == FoldLeft(LAMBDA f, x : IF HasMap(x) THEN FoldLeft(map_dimensions, f, x.map) ELSE f,
                           fun, op.a)
    IN create_inst(mapped, Len(fun.insts) + 1, op, iter)

(* Function::add_ind_var, for steps <<dimension, size>> that are unique.   *)
add_ind_var(fun, steps, base) ==
    [fun EXCEPT !.ivs = Append(@, [dims |-> steps, base |-> base]),
                !.err = @ \/ ~is_integer(base.t)
                          \/ \E k, l \in DOMAIN steps : k # l /\ steps[k][1] = steps[l][1]]

-----------------------------------------------------------------------------
(* Variables: the result of an instruction, a variable seen through        *)
(* mappings of its dimensions, or its last value along some dimensions.    *)
VarInst(i) == [k |-> "Inst", i |-> i]
VarDimMap(v, maps) == [k |-> "DimMap", v |-> v, maps |-> maps]
VarLast(v, dims) == [k |-> "Last", v |-> v, dims |-> dims]

VarDef_t(fun, def) ==
    IF def.k = "Inst" THEN Operator_t(fun.insts[def.i].op) ELSE fun.vars[def.v].t

def_points(fun, def) ==
    CASE def.k = "Inst" -> {InstStmt(def.i)}
      [] def.k = "DimMap" -> fun.vars[def.v].defpts
      [] def.k = "Last" -> {DimStmt(d) : d \in def.dims}

VarDimensions(fun, def) ==
    CASE def.k = "Inst" -> fun.insts[def.i].iter
      [] def.k = "Last" -> fun.vars[def.v].dims \ def.dims
      [] def.k = "DimMap" ->
           {fun.maps[CHOOSE m \in def.maps : fun.maps[m].dims[1] = d].dims[2] :
              d \in fun.vars[def.v].dims}

(* Function::add_variable with Variable::new and Variable::register.       *)
add_variable(fun, def) ==
    LET v == Len(fun.vars) + 1
        defpts == def_points(fun, def)
        dims == VarDimensions(fun, def)
    IN IF def.k = "Inst" /\ ~HasResult(fun.insts[def.i].op) THEN [fun EXCEPT !.err = TRUE]
       ELSE [fun EXCEPT
         !.vars = Append(@, [t |-> VarDef_t(fun, def), def |-> def, dims |-> dims,
                             defpts |-> defpts, uses |-> {}]),
         !.insts = [i \in DOMAIN @ |->
             [@[i] EXCEPT !.var = IF def.k = "Inst" /\ def.i = i THEN v ELSE @,
                          !.defs = IF InstStmt(i) \in defpts THEN @ \cup {v} ELSE @]],
         !.dims = [d \in DOMAIN @ |->
             [@[d] EXCEPT !.inner = IF d \in dims THEN @ \cup {v} ELSE @,
                          !.defs = IF DimStmt(d) \in defpts THEN @ \cup {v} ELSE @]],
         !.maps = [m \in DOMAIN @ |-> IF def.k = "DimMap" /\ m \in def.maps
                                      THEN [@[m] EXCEPT !.users = @ \cup {v}] ELSE @[m]],
         !.err = @ \/ (def.k = "Inst" /\ fun.insts[def.i].var # 0)]

(* VarDef::production_inst: the instruction a variable comes from.         *)
RECURSIVE production_inst(_, _)
production_inst(fun, v) ==
    LET def == fun.vars[v].def IN
    IF def.k = "Inst" THEN def.i ELSE production_inst(fun, def.v)

-----------------------------------------------------------------------------
(* Memory blocks: the pairs of dimensions that are mapped to the block,    *)
(* and the ones that may still be merged instead.                          *)
Block(size, maybe) == [base |-> size, uses |-> <<>>, mapped |-> <<>>, maybe |-> maybe]

(* BlockMap::merge_dims: the pair needs no memory any more.                *)
mem_merge_dims(fun, l, r) ==
    LET hit(m) == ToSet(fun.mems[m].maybe) \cap Pairs(l, r) # {}
        after == [m \in DOMAIN fun.mems |-> [fun.mems[m] EXCEPT !.maybe = Without(@, Pairs(l, r))]]
    IN [fun EXCEPT !.mems = after,
          !.tolower = @ \o Ascending({m \in DOMAIN after : hit(m) /\ after[m].maybe = <<>>})]

(* BlockMap::not_merged, called from Function::dim_not_merged: the pair is *)
(* a dimension of the block.                                               *)
dim_not_merged(fun, l, r) ==
    LET pairs(m) == SelectSeq(fun.mems[m].maybe, LAMBDA p : p \in Pairs(l, r))
        after == [m \in DOMAIN fun.mems |->
                    IF m \notin fun.layouts THEN fun.mems[m]
                    ELSE [fun.mems[m] EXCEPT !.maybe = Without(@, Pairs(l, r)),
                                             !.mapped = @ \o pairs(m)]]
    IN [fun EXCEPT !.mems = after,
          !.tolower = @ \o Ascending({m \in fun.layouts : pairs(m) # <<>> /\ after[m].maybe = <<>>})]

(* Function::merge: the pair leaves every dimension map and every block.   *)
merge(fun, src, dst) ==
    mem_merge_dims(
      [fun EXCEPT
         !.insts = [i \in DOMAIN @ |->
                      [@[i] EXCEPT !.op.a = [k \in DOMAIN @ |-> OperandMerge(@[k], src, dst)]]],
         !.ivs = [v \in DOMAIN @ |-> [@[v] EXCEPT !.base = OperandMerge(@, src, dst)]]],
      src, dst)

-----------------------------------------------------------------------------
(* Lowering a layout: the loads and the stores of a temporary array get an *)
(* address, an induction variable over the block's dimensions.             *)
gen_index(fun, mem, dims) ==
    LET rev == Reverse(dims)
        stride[k \in 1..Len(rev)] ==
            IF k = 1 THEN PartialSize(fun.mems[mem].base, <<>>)
            ELSE psize_mul(stride[k - 1], fun.dims[rev[k - 1]].size)
    IN [k \in 1..Len(rev) |-> <<rev[k], stride[k]>>]

StridesOf(steps) == [d \in {s[1] : s \in ToSet(steps)} |->
                       (CHOOSE s \in ToSet(steps) : s[1] = d)[2]]

(* Instruction::lower_layout, with the induction variables already added.  *)
InstLowerLayout(inst, ld_idx, ld_strides, st_idx, st_strides) ==
    [inst EXCEPT !.op =
       IF @.k = "tmpld" THEN LdOp(@.t, ld_idx, @.mem, ld_strides)
       ELSE StOp(st_idx, @.a[1], FALSE, @.mem, st_strides)]

lower_layout(fun, mem, st_dims, ld_dims) ==
    LET st == gen_index(fun, mem, st_dims)
        ld == gen_index(fun, mem, ld_dims)
        withSt == add_ind_var(fun, st, Addr(mem))
        withIv == add_ind_var(withSt, ld, Addr(mem))
        st_idx == InductionVar(Len(fun.ivs) + 1, PtrTo(mem))
        ld_idx == InductionVar(Len(fun.ivs) + 2, PtrTo(mem))
    IN [withIv EXCEPT
          !.tolower = Without(@, {mem}), !.layouts = @ \ {mem},
          !.insts = [i \in DOMAIN @ |->
             IF i \in ToSet(fun.mems[mem].uses)
             THEN InstLowerLayout(@[i], ld_idx, StridesOf(ld), st_idx, StridesOf(st)) ELSE @[i]]]

-----------------------------------------------------------------------------
(* Freezing a function allots the identifiers its lowerings will use:      *)
(* LoweringMap::for_dim_map, for every operand with a global scope.        *)
for_dim_map(map, c) ==
    [low |-> [mem |-> c.mem, st |-> c.inst, ld |-> c.inst + 1,
              stm |-> [k \in DOMAIN map |-> <<map[k][1], c.dim + 2 * k - 2, c.map + 2 * k - 2>>],
              ldm |-> [k \in DOMAIN map |-> <<map[k][2], c.dim + 2 * k - 1, c.map + 2 * k - 1>>]],
     c |-> [mem |-> c.mem + 1, inst |-> c.inst + 2, dim |-> c.dim + 2 * Len(map),
            map |-> c.map + 2 * Len(map)]]

freeze(fun) ==
    LET slots == FlattenSeq([i \in DOMAIN fun.insts |->
                    [k \in DOMAIN fun.insts[i].op.a |-> <<i, k>>]])
        step(acc, s) ==
            LET x == acc.insts[s[1]].op.a[s[2]]
                l == for_dim_map(x.map, acc.c)
            IN IF x.k = "inst" /\ x.scope = "Global"
               THEN [insts |-> [acc.insts EXCEPT ![s[1]].op.a[s[2]].low = l.low], c |-> l.c]
               ELSE acc
        first == [mem |-> Len(fun.mems) + 1, inst |-> Len(fun.insts) + 1,
                  dim |-> Len(fun.dims) + 1, map |-> Len(fun.maps) + 1]
    IN [fun EXCEPT !.insts = FoldLeft(step, [insts |-> fun.insts, c |-> first], slots).insts]

-----------------------------------------------------------------------------
(* Lowering a dimension map: the value goes through a temporary array.     *)

(* LoweringMap::lower, restricted to the pairs that are still mapped.      *)
lower(low, map) ==
    LET of(table, d) == table[CHOOSE k \in DOMAIN table : table[k][1] = d]
    IN [mem |-> low.mem, store |-> low.st, load |-> low.ld,
        st |-> [k \in DOMAIN map |-> of(low.stm, map[k][1])],
        ld |-> [k \in DOMAIN map |-> of(low.ldm, map[k][2])]]

(* activate_mapped_dims, for mappings <<old dimension, new, mapping>>.     *)
activate_mapped_dims(fun, mappings) ==
    FoldLeft(LAMBDA f, m :
               create_mapping([f EXCEPT !.dims = (m[2] :> with_same_size(m[2], f.dims[m[1]])) @@ @,
                                        !.static = IF f.dims[m[1]].poss = {} THEN @
                                                   ELSE Append(@, m[2])],
                              m[3], <<m[1], m[2]>>),
             fun, mappings)

NewDims(mappings) == {m[2] : m \in ToSet(mappings)}

(* The result is the set with the lowered function, {} for an Err.         *)
lower_dim_map(fun, dst, pos) ==
    LET x == fun.insts[dst].op.a[pos]
        low == lower(x.low, x.map)
        active == activate_mapped_dims(activate_mapped_dims(fun, low.st), low.ld)
        block == Block(len_byte(x.t), [k \in DOMAIN low.st |-> <<low.st[k][2], low.ld[k][2]>>])
        tmp == [active EXCEPT !.mems = (low.mem :> block) @@ @, !.layouts = @ \cup {low.mem}]
        source == new_inst(fun, x.i, [k \in DOMAIN low.st |-> <<low.st[k][1], low.st[k][2]>>], "Local")
        stored == create_inst(tmp, low.store, TmpSt(source, low.mem), NewDims(low.st))
        loaded == create_inst(stored, low.load, TmpLd(x.t, low.mem), NewDims(low.ld))
        ldmap == [k \in DOMAIN low.ld |-> <<low.ld[k][2], low.ld[k][1]>>]
    IN IF x.k # "inst" \/ x.scope # "Global" THEN {}
       ELSE {[loaded EXCEPT !.insts[dst].op.a[pos] =
                [@ EXCEPT !.i = low.load, !.map = ldmap, !.scope = "Local", !.low = NoLowering]]}

(* Instruction::dim_maps_to_lower, over the whole function.                *)
dim_maps_to_lower(fun, l, r) ==
    {s \in {<<i, k>> : i \in DOMAIN fun.insts, k \in 1..3} :
       /\ s[2] \in DOMAIN fun.insts[s[1]].op.a
       /\ should_lower_map(fun.insts[s[1]].op.a[s[2]], l, r)}
=============================================================================
