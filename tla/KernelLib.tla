----------------------------- MODULE KernelLib -----------------------------
(***************************************************************************)
(* How kernels are written: the signature of a kernel and its tensors, the *)
(* builder that turns instructions over tensors into a function of the IR  *)
(* (src/src/helper), and the operations on tensors kernels are composed of *)
(* (src/kernels/src/compose.rs).                                           *)
(*                                                                         *)
(* An unwrap, an assertion or a zip_eq that fails makes a builder that is  *)
(* not `ok'.                                                               *)
(***************************************************************************)
EXTENDS KernelMeaning

F32 == F(32)
Word == 4

-----------------------------------------------------------------------------
(* tensor::DimSize *)
DimSize(f, params) == [f |-> f, params |-> params]
dsize_mul(s, r) == DimSize(s.f * r.f, s.params \o r.params)
dsize_eval(args, s) == s.f * FoldLeft(LAMBDA n, p : n * args[p], 1, s.params)
to_ir_size(s) == PartialSize(s.f, s.params)

create_size(n, name, generic) == IF generic THEN DimSize(1, <<name>>) ELSE DimSize(n, <<>>)

(* signature::Builder: parameters with their types and the values they are *)
(* bound to; arrays are allocated one after the other.                     *)
NewSignature == [args |-> <<>>, types |-> <<>>, next |-> 0]
scalar(s, name, t, v) == [s EXCEPT !.args = (name :> v) @@ @, !.types = (name :> t) @@ @]
max_size(s, name, n, generic) == IF generic THEN scalar(s, name, I(32), n) ELSE s
array(s, name, len) == [scalar(s, name, I(64), s.next) EXCEPT !.next = @ + len * Word]

-----------------------------------------------------------------------------
(* Tensors: the sizes and the strides of the dimensions one iterates on.   *)
StridesIn(dims) ==
    [k \in DOMAIN dims |->
       FoldLeft(dsize_mul, DimSize(Word, <<>>), Reverse(SubSeq(dims, k + 1, Len(dims))))]
Tensor(name, dims, read_only) ==
    [name |-> name, storage |-> dims, read_only |-> read_only,
     iter |-> [k \in DOMAIN dims |-> <<dims[k], StridesIn(dims)[k]>>]]

TensorBuilder(name, dims) == [name |-> name, storage |-> dims, exposed |-> [k \in DOMAIN dims |-> k]]
Swap(seq, i, j) == [k \in DOMAIN seq |-> seq[IF k = i THEN j ELSE IF k = j THEN i ELSE k]]
transpose(t, l, r) ==
    [t EXCEPT !.storage = Swap(t.storage, t.exposed[l], t.exposed[r]), !.exposed = Swap(t.exposed, l, r)]
stride_dim(t, d) == [t EXCEPT !.exposed = RemoveAt(t.exposed, d)]
finish(t) ==
    [name |-> t.name, storage |-> t.storage, read_only |-> TRUE,
     iter |-> [k \in DOMAIN t.exposed |->
                 <<t.storage[t.exposed[k]], StridesIn(t.storage)[t.exposed[k]]>>]]
DoIf(cond, x, y) == IF cond THEN x ELSE y

(* SignatureBuilder::tensor and TensorBuilder::finish allocate the array.  *)
WithTensor(s, t) == array(s, t.name, dsize_eval(s.args, FoldLeft(dsize_mul, DimSize(1, <<>>), t.storage)))

(* Points of a host array, and their places in a layout. *)
PlaceOf(layout, i) == FoldLeft(LAMBDA n, k : n + i[k] * layout[k], 0, [k \in DOMAIN i |-> k])
IndexesOf(shape) == Points(DOMAIN shape, LAMBDA k : shape[k])

(* Tensor::read_to_host: an array of the host with the tensor's layout.    *)
Shape(args, t) == [k \in DOMAIN t.iter |-> dsize_eval(args, t.iter[k][1])]
Layout(args, t) == [k \in DOMAIN t.iter |-> dsize_eval(args, t.iter[k][2]) \div Word]
AddressIn(args, t, i) == args[t.name] + Word * PlaceOf(Layout(args, t), i)
read_to_host(args, t) ==
    [shape |-> Shape(args, t), layout |-> Layout(args, t),
     at |-> [i \in IndexesOf(Shape(args, t)) |-> Initially(AddressIn(args, t, i))[2]]]

(* ndarray's into_shape keeps the data where they are: it wants as many    *)
(* elements, in row-major or in column-major order.                        *)
Volume(shape) == FoldLeft(LAMBDA n, k : n * k, 1, shape)
RowMajor(shape) == [k \in DOMAIN shape |-> Volume(SubSeq(shape, k + 1, Len(shape)))]
ColumnMajor(shape) == [k \in DOMAIN shape |-> Volume(SubSeq(shape, 1, k - 1))]
CanReshape(h, shape) ==
    Volume(h.shape) = Volume(shape) /\ h.layout \in {RowMajor(h.shape), ColumnMajor(h.shape)}
into_shape(h, shape) ==
    LET major(s) == IF h.layout = RowMajor(h.shape) THEN RowMajor(s) ELSE ColumnMajor(s)
    IN [i \in IndexesOf(shape) |->
          h.at[CHOOSE j \in DOMAIN h.at : PlaceOf(major(h.shape), j) = PlaceOf(major(shape), i)]]

-----------------------------------------------------------------------------
(* helper::TilingPattern *)
Tiling(factors, tiles) == [factors |-> factors, tiles |-> tiles]
NoTiling == Tiling({1}, <<>>)
new_fixed(sizes) == Tiling({Volume(sizes)}, [k \in DOMAIN sizes |-> {sizes[k]}])
infer_pattern(n, maxima) ==
    LET divisors == {x \in 2..n : n % x = 0}
        multiples == {x \in divisors : Cardinality({y \in divisors : y < x}) < 16}
    IN Tiling(multiples, [k \in DOMAIN maxima |-> {x \in multiples : x <= maxima[k]}])
infer_tiling(n, given, maxima) == IF given = {} THEN infer_pattern(n, maxima) ELSE The(given)

(* helper::Builder.  A LogicalDim is its identifier: `real' holds its      *)
(* dimensions from the outermost to the innermost, `open' the dimensions   *)
(* that are open, with the ones they are mapped to, `t' the tensors that   *)
(* are in registers, by name.                                              *)
NewBuilder(device, sig) ==
    [fun |-> NewFunction(device), open |-> [d \in {} |-> d], acts |-> <<>>, ok |-> TRUE,
     real |-> <<>>, tiling |-> <<>>, types |-> sig.types, t |-> <<>>]
Require(b, cond) == [b EXCEPT !.ok = @ /\ cond]
LastInst(b) == Len(b.fun.insts)
LastDim(b) == Len(b.real)

AddDim(b, f, params, tiling) ==
    [b EXCEPT !.fun = add_logical_dim(@, f, params, tiling.factors, tiling.tiles),
              !.real = Append(@, [k \in 1..(Len(tiling.tiles) + 1) |-> Len(b.fun.dims) + k]),
              !.tiling = Append(@, tiling)]
OpenLast(b) == [b EXCEPT !.open = [d \in ToSet(Last(b.real)) |-> d] @@ @]
open_tiled_dim(b, size, tiling) == OpenLast(AddDim(b, size.f, size.params, tiling))

(* A pair of logical dimensions, dimension by dimension (zip_eq). *)
ZipDims(b, l, r) == [k \in DOMAIN b.real[l] |-> <<b.real[l][k], b.real[r][k]>>]
CanZip(b, l, r) == Len(b.real[l]) = Len(b.real[r])

reopen_mapped_dim(b, new, old) ==
    LET pairs == ZipDims(b, new, old)
        kept == DOMAIN b.open \ ToSet(b.real[old])
    IN [b EXCEPT !.open = [d \in ToSet(b.real[new]) |-> (CHOOSE p \in ToSet(pairs) : p[1] = d)[2]]
                          @@ [d \in kept |-> @[d]]]
ReopenLast(b, old) == reopen_mapped_dim(b, LastDim(b), old)
open_mapped_dim(b, old) ==
    ReopenLast(AddDim(b, b.fun.ldims[old].f, b.fun.ldims[old].params, b.tiling[old]), old)
close_dim(b, l) ==
    [Require(b, ToSet(b.real[l]) \subseteq DOMAIN b.open)
       EXCEPT !.open = [d \in DOMAIN @ \ ToSet(b.real[l]) |-> @[d]]]
CloseAll(b, dims) == FoldLeft(close_dim, b, dims)

size_eq(b, l, r) ==
    b.fun.ldims[l].f = b.fun.ldims[r].f /\ b.fun.ldims[l].params = b.fun.ldims[r].params

-----------------------------------------------------------------------------
(* helper::AutoOperand *)
Opened(b) == Ascending(DOMAIN b.open)
MappedOf(b, i) ==
    LET new == SelectSeq(Opened(b), LAMBDA d : b.open[d] # d /\ b.open[d] \in b.fun.insts[i].iter)
    IN [k \in DOMAIN new |-> <<b.open[new[k]], new[k]>>]

Reduce(b, i) ==
    new_reduce(b.fun, i, MappedOf(b, i), SelectSeq(Opened(b), LAMBDA d : b.open[d] \notin b.fun.insts[i].iter))
InstOperand(b, i) == new_inst(b.fun, i, MappedOf(b, i), "Thread")
TmpArray(b, i) == new_inst(b.fun, i, MappedOf(b, i), "Global")
ParamOperand(b, name) == Param(name, b.types[name])
IndVar(b, v) == InductionVar(v, b.fun.ivs[v].base.t)

(* Instructions are nested in the dimensions that are open. *)
default_rounding(t) == IF is_integer(t) THEN "Exact" ELSE "Nearest"
AddInst(b, op) == [b EXCEPT !.fun = add_inst(@, op, DOMAIN b.open)]
binop(b, f, x, y) == AddInst(b, BinaryOp(f, x, y, default_rounding(x.t)))
mul(b, x, y) == AddInst(b, MulOp(x, y, default_rounding(x.t), x.t))
mad(b, x, y, z) == AddInst(b, MadOp(x, y, z, default_rounding(x.t)))
max(b, x, y) == AddInst(b, BinaryOp("Max", x, y, "Exact"))
move(b, x) == AddInst(b, UnaryOp(<<"Mov">>, x))
exp(b, x) == AddInst(b, UnaryOp(<<"Exp", x.t>>, x))
Flagged(b, flags) == [b EXCEPT !.acts = Append(@, <<"flag", LastInst(b), flags>>)]
ld_ex(b, t, addr, pattern, flags) == Flagged(AddInst(b, LdOp(t, addr, 0, pattern)), flags)
st_ex(b, addr, x, side, pattern, flags) == Flagged(AddInst(b, StOp(addr, x, side, 0, pattern)), flags)
order(b, lhs, rhs, ord) ==
    [b EXCEPT !.acts = @ \o FlattenSeq([i \in DOMAIN lhs |->
                              [j \in DOMAIN rhs |-> OrderAct(lhs[i], rhs[j], ord)]])]
DimStmts(b, l) == [k \in DOMAIN b.real[l] |-> DimStmt(b.real[l][k])]

\* Mutant of logical_to_real_increments: the innermost tile is left out.
IncrementsShort(b, incs) ==
    LET of(l, size) ==
            LET real == b.real[l] IN
            [k \in DOMAIN real |->
               <<real[k], FoldLeft(LAMBDA s, d : psize_mul(s, b.fun.dims[d].size), to_ir_size(size),
                                   Reverse(SubSeq(real, k + 1, Len(real) - 1)))>>]
    IN FlattenSeq([k \in DOMAIN incs |-> of(incs[k][1], incs[k][2])])

(* From increments along logical dimensions to increments along their      *)
(* dimensions: a tile steps by the size of the tiles inside it.            *)
logical_to_real_increments(b, incs) ==
    LET of(l, size) ==
            LET real == b.real[l] IN
            [k \in DOMAIN real |->
               <<real[k], FoldLeft(LAMBDA s, d : psize_mul(s, b.fun.dims[d].size), to_ir_size(size),
                                   Reverse(SubSeq(real, k + 1, Len(real))))>>]
    IN FlattenSeq([k \in DOMAIN incs |-> of(incs[k][1], incs[k][2])])
PatternOf(real) == [d \in {r[1] : r \in ToSet(real)} |-> (CHOOSE r \in ToSet(real) : r[1] = d)[2]]
induction_var(b, base, incs) ==
    [b EXCEPT !.fun = add_ind_var(@, logical_to_real_increments(b, incs), base)]
LastIndVar(b) == IndVar(b, Len(b.fun.ivs))

(* Row-major steps over all the dimensions. *)
tensor_increments(b, dims) ==
    LET size(l) == DimSize(b.fun.ldims[l].f, b.fun.ldims[l].params)
        strides == StridesIn([k \in DOMAIN dims |-> size(dims[k])])
    IN Reverse([k \in DOMAIN dims |-> <<dims[k], strides[k]>>])

(* A logical dimension as an operand: its index, or the sum of the indexes *)
(* of its tiles.                                                           *)
WithLastIndVar(b) == [b |-> b, x |-> LastIndVar(b)]
IndexOperand(b, l) ==
    IF Len(b.real[l]) = 1 THEN [b |-> b, x |-> Index(b.real[l][1])]
    ELSE WithLastIndVar(induction_var(b, IntOp(0, 32), << <<l, DimSize(1, <<>>)>> >>))

(* Variables: the result of an instruction, its last value along logical   *)
(* dimensions, and its value seen from another nest.                       *)
LastVar(b) == Len(b.fun.vars)
get_inst_variable(b, i) ==
    IF b.fun.insts[i].var # 0 THEN b ELSE [b EXCEPT !.fun = add_variable(@, VarInst(i))]
create_last_variable(b, v, dims) ==
    [b EXCEPT !.fun = add_variable(@, VarLast(v, UNION {ToSet(b.real[l]) : l \in ToSet(dims)}))]
create_dim_map_variable(b, v, pairs) ==
    LET zipped == FlattenSeq([k \in DOMAIN pairs |-> ZipDims(b, pairs[k][1], pairs[k][2])])
        f == FoldLeft(map_dimensions, b.fun, zipped)
        maps == {The(find_mapping(f, p[1], p[2])) : p \in ToSet(zipped)}
    IN [b EXCEPT !.fun = add_variable(f, VarDimMap(v, maps))]

-----------------------------------------------------------------------------
(* tensor::VirtualTensor: the result of an instruction over logical        *)
(* dimensions.  An operation gives the builder a tensor it names.          *)
Virtual(b, name, dims) == [b EXCEPT !.t = (name :> [inst |-> LastInst(b), dims |-> dims]) @@ @]

dim_map(b, v, dims, scope) ==
    new_inst(b.fun, v.inst, FlattenSeq([k \in DOMAIN v.dims |-> ZipDims(b, v.dims[k], dims[k])]), scope)
CanMap(b, v, dims) ==
    Len(v.dims) = Len(dims) /\ \A k \in DOMAIN dims : CanZip(b, v.dims[k], dims[k])

(* New dimensions: for a tensor, or mapped to other dimensions. *)
OpenTiledAll(b, t, tilings) ==
    FoldLeft(LAMBDA c, k : open_tiled_dim(c, t.iter[k][1], tilings[k]), b, [k \in DOMAIN t.iter |-> k])
OpenMappedAll(b, dims) == FoldLeft(open_mapped_dim, b, dims)
Fresh(b, dims) == [k \in DOMAIN dims |-> LastDim(b) + k]
Closed(b, name, dims) == Virtual(CloseAll(b, dims), name, dims)

(* Tensor::load *)
Pointer(b, t, incs) == induction_var(b, ParamOperand(b, t.name), incs)
LoadAt(b, t, incs) ==
    ld_ex(b, F32, LastIndVar(b), PatternOf(logical_to_real_increments(b, incs)),
          IF t.read_only THEN Flags ELSE {"NO_CACHE", "CACHE_GLOBAL"})
LoadTensor(b, t, tilings) ==
    LET dims == Fresh(b, t.iter)
        incs == [k \in DOMAIN t.iter |-> <<dims[k], t.iter[k][2]>>]
    IN Closed(Require(LoadAt(Pointer(OpenTiledAll(b, t, tilings), t, incs), t, incs),
                      Len(tilings) = Len(t.iter)), t.name, dims)

(* VirtualTensor::store, contiguously. *)
StoreAt(b, v, incs) ==
    st_ex(b, LastIndVar(b), InstOperand(b, v.inst), TRUE, PatternOf(logical_to_real_increments(b, incs)), Flags)
StoreIncs(b, v, t, incs) == StoreAt(Pointer(b, t, incs), v, incs)
StoreOpened(b, v, t, dims) == StoreIncs(b, v, t, tensor_increments(b, dims))
StoreTensor(b, name, t) ==
    LET v == b.t[name]
        dims == Fresh(b, v.dims)
    IN Closed(Require(StoreOpened(OpenMappedAll(b, v.dims), v, t, dims), ~t.read_only), t.name, dims)

-----------------------------------------------------------------------------
(* compose.rs *)

(* A sum that starts from a zero, and its terms. *)
InitZero(b, dims) == move(OpenMappedAll(b, dims), FloatOp(0, 32))
MadReduce(b, lhs, ldims, rhs, rdims, zero) ==
    Require(mad(b, dim_map(b, lhs, ldims, "Global"), dim_map(b, rhs, rdims, "Global"), Reduce(b, zero)),
            CanMap(b, lhs, ldims) /\ CanMap(b, rhs, rdims))

matrix_vector_multiply(b, to, l, r) ==
    LET lhs == b.t[l] rhs == b.t[r]
        init == LastDim(b) + 1 m == init + 1 n == init + 2
    IN Virtual(CloseAll(Require(MadReduce(OpenMappedAll(close_dim(InitZero(b, <<lhs.dims[1]>>), init),
                                                        <<init, lhs.dims[2]>>), lhs, <<m, n>>, rhs, <<n>>, LastInst(b) + 1),
                                /\ Len(lhs.dims) = 2 /\ Len(rhs.dims) = 1
                                /\ size_eq(b, lhs.dims[2], rhs.dims[1])), <<m, n>>), to, <<m>>)

matrix_matrix_multiply(b, to, l, r) ==
    LET lhs == b.t[l] rhs == b.t[r]
        init == Fresh(b, <<1, 2>>)
        acc == [k \in 1..3 |-> LastDim(b) + 2 + k]
    IN Virtual(CloseAll(Require(MadReduce(OpenMappedAll(CloseAll(InitZero(b, <<lhs.dims[1], rhs.dims[2]>>), init),
                                                        init \o <<lhs.dims[2]>>), lhs, <<acc[1], acc[3]>>, rhs, <<acc[3], acc[2]>>, LastInst(b) + 1),
                                /\ Len(lhs.dims) = 2 /\ Len(rhs.dims) = 2
                                /\ size_eq(b, lhs.dims[2], rhs.dims[1])), acc), to, <<acc[1], acc[2]>>)

same_shape(b, v, w) ==
    Len(v.dims) = Len(w.dims) /\ \A k \in DOMAIN v.dims : size_eq(b, v.dims[k], w.dims[k])

(* Operations element by element, along new dimensions. *)
AddAlong(b, v, w, dims) ==
    Require(binop(b, "Add", dim_map(b, v, dims, "Global"), dim_map(b, w, dims, "Global")), CanMap(b, w, dims))
tensor_add(b, to, l, r) ==
    LET lhs == b.t[l] dims == Fresh(b, lhs.dims)
    IN Closed(Require(AddAlong(OpenMappedAll(b, lhs.dims), lhs, b.t[r], dims), same_shape(b, lhs, b.t[r])), to, dims)

MadAlong(b, v, x, w, dims) ==
    Require(mad(b, dim_map(b, v, dims, "Global"), x, dim_map(b, w, dims, "Global")), CanMap(b, w, dims))
tensor_mad(b, to, lhs_mul, rhs_mul, rhs_add) ==
    LET lhs == b.t[lhs_mul] dims == Fresh(b, lhs.dims)
    IN Closed(Require(MadAlong(OpenMappedAll(b, lhs.dims), lhs, rhs_mul, b.t[rhs_add], dims),
                      same_shape(b, lhs, b.t[rhs_add])), to, dims)

MapAlong(b, v, dims, f(_, _)) == f(dim_map(b, v, dims, "Global"), b)
tensor_map(b, to, name, f(_, _)) ==
    LET v == b.t[name] dims == Fresh(b, v.dims)
    IN Closed(MapAlong(OpenMappedAll(b, v.dims), v, dims, f), to, dims)
tensor_elementwise_mul(b, to, x, v) == tensor_map(b, to, v, LAMBDA y, c : mul(c, y, x))
tensor_elementwise_max(b, to, v, x) == tensor_map(b, to, v, LAMBDA y, c : max(c, y, x))

One == FloatOp(1, 32)
WithOne(b, f) == binop(b, f, One, InstOperand(b, LastInst(b)))
Sigmoid(y, c) == WithOne(WithOne(exp(c, y), "Add"), "Div")
Activate(fun, b, to, v) ==
    CASE fun = "None" -> [b EXCEPT !.t = (to :> b.t[v]) @@ @]
      [] fun = "ReLU" -> tensor_elementwise_max(b, to, v, FloatOp(0, 32))
      [] fun = "Sigmoid" -> tensor_map(b, to, v, Sigmoid)
=============================================================================
