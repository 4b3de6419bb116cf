------------------------------ MODULE MCKernel ------------------------------
(* Small functions whose whole implementation spaces are compiled and run, *)
(* and the kernels of the library, for all the sizes of their tiles.       *)
EXTENDS KernelRun, KernelLinalg

Cuda == [gpu |-> TRUE, ptr |-> [GLOBAL |-> I(64), SHARED |-> I(32)], maxvec |-> <<1, 4>>,
         blocks |-> 3, threads |-> 1024, shared |-> 48 * 1024]
HandArgs == [A |-> 0, B |-> 100, n |-> 4]

StaticDim(fun, n) == add_logical_dim(fun, n, <<>>, {1}, <<>>)
Bytes(n) == PartialSize(n, <<>>)

(* An access to the array `arr' along some dimensions. *)
WithAddress(fun, arr, dims, strides) ==
    add_ind_var(fun, [k \in DOMAIN dims |-> <<dims[k], strides[k]>>], Param(arr, I(64)))
Pattern(dims, strides) == [d \in ToSet(dims) |-> strides[CHOOSE k \in DOMAIN dims : dims[k] = d]]
Store(fun, arr, dims, strides, x) ==
    LET f == WithAddress(fun, arr, dims, strides)
    IN add_inst(f, StOp(InductionVar(Len(f.ivs), I(64)), x, TRUE, 0, Pattern(dims, strides)), ToSet(dims))
Load(fun, arr, dims, strides) ==
    LET f == WithAddress(fun, arr, dims, strides)
    IN add_inst(f, LdOp(I(32), InductionVar(Len(f.ivs), I(64)), 0, Pattern(dims, strides)), ToSet(dims))

Uncached(fun) == [k \in DOMAIN fun.memInsts |-> <<"flag", fun.memInsts[k], {"NO_CACHE"}>>]
ByHand(fun, actions) == Built(fun, Uncached(fun) \o actions, TRUE, HandArgs, <<>>, TRUE)
Empty(n) == FoldLeft(LAMBDA f, k : StaticDim(f, 2), NewFunction(Cuda), [k \in 1..n |-> k])

(* Two independent nests: A[d1] = 7; B[d2] = d2. *)
TwoStores ==
    LET a == Store(Empty(2), "A", <<1>>, <<Bytes(4)>>, IntOp(7, 32))
    IN ByHand(Store(a, "B", <<2>>, <<Bytes(4)>>, Index(2)), <<>>)

(* A[d1][d2] = 7; B[d3] = d3. *)
NestedStores ==
    LET a == Store(Empty(3), "A", <<1, 2>>, <<Bytes(8), Bytes(4)>>, IntOp(7, 32))
    IN ByHand(Store(a, "B", <<3>>, <<Bytes(4)>>, Index(3)), <<>>)

(* The same with the helpers: x[d1] = d1 + 1, then A[d2] = x[d2].          *)
HandSignature == [NewSignature EXCEPT !.args = HandArgs, !.types = [A |-> I(64), B |-> I(64)]]
PlusOne(i) == binop(i.b, "Add", i.x, IntOp(1, 32))
Source == PlusOne(IndexOperand(open_tiled_dim(NewBuilder(Cuda, HandSignature), DimSize(2, <<>>), NoTiling), 1))
WithAct(b, act) == [b EXCEPT !.acts = Append(@, act)]
WithPointer(b, incs) == induction_var(b, ParamOperand(b, "A"), incs)
StoreAlong(b, dims, x(_)) ==
    st_ex(b, LastIndVar(b), x(b), TRUE, PatternOf(logical_to_real_increments(b, tensor_increments(b, dims))), Flags)
ByHelpers(b) == Built(b.fun, b.acts \o Uncached(b.fun), b.ok, HandArgs, <<>>, TRUE)

(* ... through registers, threads or memory. *)
MappedTo(b) == StoreAlong(WithPointer(b, tensor_increments(b, <<2>>)), <<2>>, LAMBDA c : TmpArray(c, 1))
Mapped == ByHelpers(MappedTo(open_mapped_dim(Source, 1)))
(* ... through a variable that is mapped. *)
StoreVariable(b, dims) ==
    StoreAlong(WithPointer(b, tensor_increments(b, dims)), dims, LAMBDA c : Variable(c.fun, LastVar(c)))
MapVariable ==
    ByHelpers(StoreVariable(create_dim_map_variable(open_mapped_dim(get_inst_variable(Source, 1), 1),
                                                    1, << <<1, 2>> >>), <<2>>))
(* ... or only its last value, when d1 is a loop: A[0] = x[1]. *)
LastVariable ==
    ByHelpers(StoreVariable(create_last_variable(
      close_dim(get_inst_variable(WithAct(Source, <<"kind", 1, {"LOOP", "UNROLL"}>>), 1), 1), 1, <<1>>), <<>>))

(* B = the sum of A[d1]. *)
SumZero == add_inst(Empty(1), UnaryOp(<<"Mov">>, IntOp(0, 32)), {})
SumAdd(f) ==
    add_inst(f, BinaryOp("Add", new_reduce(f, 1, <<>>, <<1>>), new_inst(f, 2, <<>>, "Local"), "Exact"), {1})
SumStore(f) == Store(f, "B", <<>>, <<>>, new_inst(f, 3, <<>>, "Local"))
Sum == ByHand(SumStore(SumAdd(Load(SumZero, "A", <<1>>, <<Bytes(4)>>))), <<>>)

(* A[d1][d2] = B[d1][d2], where d1 and d2 tile a dimension of size n. *)
TiledCopy ==
    LET f == add_logical_dim(NewFunction(Cuda), 1, <<"n">>, {2}, << {2} >>)
        strides == <<psize_mul(Bytes(4), new_dim_size(2)), Bytes(4)>>
        a == Load(f, "B", <<1, 2>>, strides)
    IN ByHand(Store(a, "A", <<1, 2>>, strides, new_inst(a, 1, <<>>, "Local")), <<>>)

(* x[d1][d2] = d1 + d2; A[d1][d3] = x[d1][d3]. *)
Rows ==
    LET a == add_inst(Empty(3), BinaryOp("Add", Index(1), Index(2), "Exact"), {1, 2})
    IN ByHand(Store(a, "A", <<1, 3>>, <<Bytes(8), Bytes(4)>>, new_inst(a, 1, << <<2, 3>> >>, "Global")),
             << <<"kind", 1, {"THREAD"}>>, <<"kind", 2, {"THREAD", "LOOP"}>>, <<"kind", 3, {"THREAD", "LOOP"}>> >>)

(* z = x + y *)
Addition(p) ==
    LET x == Tensor("x", <<TensorSize(p, "n")>>, TRUE)
        y == Tensor("y", <<TensorSize(p, "n")>>, TRUE)
        z == Tensor("z", <<TensorSize(p, "n")>>, FALSE)
        sig == WithTensors(WithSizes(<<"n">>, p), <<x, y, z>>)
        tiling == infer_pattern(p.n, <<4>>)
        loaded == LoadTensor(LoadTensor(NewBuilder(Cuda, sig), x, <<tiling>>), y, <<tiling>>)
        out == Output(sig.args, z, LAMBDA i :
                 Num(read_to_host(sig.args, x).at[i] + read_to_host(sig.args, y).at[i]))
    IN Kernel(sig, StoreTensor(tensor_add(loaded, "sum", "x", "y"), "sum", z), {}, out)

-----------------------------------------------------------------------------
(* A task is the name of a function, or of a kernel with its parameters. *)
Library(k) == Built(k.fun, k.acts, k.ok, k.args, k.expected, FALSE)
MCAuthor(t) ==
    CASE t[1] = "TwoStores" -> TwoStores
      [] t[1] = "NestedStores" -> NestedStores
      [] t[1] = "Mapped" -> Mapped
      [] t[1] = "MapVariable" -> MapVariable
      [] t[1] = "LastVariable" -> LastVariable
      [] t[1] = "Sum" -> Sum
      [] t[1] = "Tiled" -> TiledCopy
      [] t[1] = "Rows" -> Rows
      [] t[1] = "Addition" -> Library(Addition(t[2]))
      [] t[1] = "Axpy" -> Library(Axpy(Cuda, t[2]))
      [] t[1] = "MatVec" -> Library(MatVec(Cuda, t[2]))
      [] t[1] = "Gesummv" -> Library(Gesummv(Cuda, t[2]))
      [] t[1] = "FusedMM" -> Library(FusedMM(Cuda, t[2]))
      [] t[1] = "BatchMM" -> Library(BatchMM(Cuda, t[2]))
      [] t[1] = "Fused2MM" -> Library(Fused2MM(Cuda, t[2]))

Explored == {"TwoStores", "NestedStores", "Mapped", "MapVariable", "LastVariable", "Sum", "Tiled"}
Kernels ==
    {<<"Addition", [n |-> 8, generic |-> TRUE]>>}
    \cup {<<"Axpy", [n |-> n, generic |-> TRUE]>> : n \in {8, 12}}
    \cup {<<"MatVec", [m |-> m, n |-> n, generic |-> TRUE]>> : m \in {4}, n \in {4, 6}}
    \cup {<<"Gesummv", [m |-> n, n |-> n, generic |-> TRUE]>> : n \in {4}}
    \cup {<<"FusedMM", [FusedMMP(4, 8, 4) EXCEPT !.transpose_a = ta, !.transpose_b = tb,
                                         !.activation_fun = IF ta THEN act ELSE "None"]>> :
            ta, tb \in BOOLEAN, act \in {"ReLU", "Sigmoid"}}
    \cup {<<"FusedMM", [FusedMMP(4, 4, 2) EXCEPT
                          !.m_tiling = {new_fixed(<<2>>)}, !.n_tiling = {new_fixed(<<2, 2>>)}, !.k_tiling = {NoTiling}]>>}
    \cup {<<"BatchMM", BatchMMP(2, 4, 2, 4)>>}
    \cup {<<"Fused2MM", [Fused2MMP(4, 4, 2, 4, 2, 3) EXCEPT
                          !.transpose_a = t[1], !.transpose_b = t[2], !.transpose_c = t[3], !.transpose_d = t[4],
                          !.activation_fun = "ReLU"]>> :
            t \in {<<FALSE, FALSE, FALSE, FALSE>>, <<FALSE, TRUE, FALSE, TRUE>>, <<TRUE, TRUE, FALSE, FALSE>>}}
MCTasks == {<<e>> : e \in Explored} \cup Kernels

(* The tasks of the run about temporary arrays. *)
RaceTasks == { <<"Rows">> }
=============================================================================
