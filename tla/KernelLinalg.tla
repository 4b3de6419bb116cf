---------------------------- MODULE KernelLinalg ----------------------------
(***************************************************************************)
(* The linear algebra kernels (src/kernels/src/linalg.rs): for each, its   *)
(* signature, the body its author builds and the output its author         *)
(* expects.  A kernel is [fun, acts, ok, args, expected]; the expected     *)
(* output is a function from the addresses of the output's cells.          *)
(***************************************************************************)
EXTENDS KernelLib

(* Sums and products of host arrays, indexed from 0. *)
SumOver(n, f(_)) == FoldLeft(LAMBDA s, k : s + f(k - 1), 0, [k \in 1..n |-> k])
dot(a, b, m, n, k) ==
    [i \in IndexesOf(<<m, n>>) |-> SumOver(k, LAMBDA x : a[<<i[1], x>>] * b[<<x, i[2]>>])]
dotv(a, x, m, n) == [i \in IndexesOf(<<m>>) |-> SumOver(n, LAMBDA j : a[<<i[1], j>>] * x[<<j>>])]

(* What an activation function makes of an element. *)
Activated(fun, v) ==
    CASE fun = "None" -> Num(v)
      [] fun = "ReLU" -> Num(Max({v, 0}))
      [] fun = "Sigmoid" -> Term("Div", <<Num(1), Term("Add", <<Num(1), Term("exp", <<Num(v)>>)>>)>>)

(* The output, read in the order of the rows of the tensor t. *)
Output(args, t, f(_)) ==
    LET at == IndexesOf(Shape(args, t))
    IN [a \in {AddressIn(args, t, i) : i \in at} |-> f(CHOOSE i \in at : AddressIn(args, t, i) = a)]

(* get_expected_output panics when an array has not the shape it wants. *)
Shaped(args, wanted) == \A w \in wanted : CanReshape(read_to_host(args, w[1]), w[2])
HostArray(args, t, shape) == into_shape(read_to_host(args, t), shape)

(* A kernel with the body b; `out' is only computed for arrays of the      *)
(* wanted shapes.                                                          *)
Kernel(sig, b, wanted, out) ==
    LET shaped == Shaped(sig.args, wanted)
    IN [fun |-> b.fun, acts |-> b.acts, ok |-> b.ok /\ shaped, args |-> sig.args,
        expected |-> IF shaped THEN out ELSE <<>>]

(* The sizes a kernel is given, as parameters when it is generic. *)
WithSizes(names, p) == FoldLeft(LAMBDA s, x : max_size(s, x, p[x], p.generic), NewSignature, names)
TensorSize(p, x) == create_size(p[x], x, p.generic)
WithTensors(sig, ts) == FoldLeft(WithTensor, sig, ts)

-----------------------------------------------------------------------------
(* The bodies, once the inputs are loaded. *)
AxpyBody(b, z) == StoreTensor(tensor_mad(b, "mad", "x", Param("alpha", F32), "y"), "mad", z)
MatVecBody(b, y) == StoreTensor(matrix_vector_multiply(b, "ax", "a", "x"), "ax", y)
GesummvLeft(b) == tensor_elementwise_mul(matrix_vector_multiply(b, "ax", "a", "x"), "aax", Param("alpha", F32), "ax")
GesummvSum(b) == tensor_mad(matrix_vector_multiply(b, "bx", "b", "x"), "sum", "bx", Param("beta", F32), "aax")
GesummvBody(b, y) == StoreTensor(GesummvSum(GesummvLeft(b)), "sum", y)
FusedMMBody(b, fun, c) == StoreTensor(Activate(fun, matrix_matrix_multiply(b, "ab", "a", "b"), "res", "ab"), "res", c)
Fused2MMLeft(b) == tensor_elementwise_mul(matrix_matrix_multiply(b, "ab", "a", "b"), "aab", Param("alpha", F32), "ab")
Fused2MMSum(b) == tensor_mad(matrix_matrix_multiply(b, "aabc", "aab", "c"), "sum", "d", Param("beta", F32), "aabc")
Fused2MMBody(b, fun, e) == StoreTensor(Activate(fun, Fused2MMSum(Fused2MMLeft(b)), "res", "sum"), "res", e)

(* z = alpha * x + y, with alpha = 1. *)
Axpy(device, p) ==
    LET n == TensorSize(p, "n")
        x == Tensor("x", <<n>>, TRUE)
        y == Tensor("y", <<n>>, TRUE)
        z == Tensor("z", <<n>>, FALSE)
        sig == WithTensors(scalar(WithSizes(<<"n">>, p), "alpha", F32, 1), <<x, y, z>>)
        tiling == infer_pattern(p.n, <<1024, 4>>)
        out == Output(sig.args, z, LAMBDA i :
                    Num(read_to_host(sig.args, x).at[i] + read_to_host(sig.args, y).at[i]))
    IN Kernel(sig, AxpyBody(LoadTensor(LoadTensor(NewBuilder(device, sig), x, <<tiling>>), y, <<tiling>>), z), {}, out)

(* y = A . x *)
MatVec(device, p) ==
    LET m == TensorSize(p, "m") n == TensorSize(p, "n")
        x == Tensor("x", <<n>>, TRUE)
        a == Tensor("a", <<m, n>>, TRUE)
        y == Tensor("y", <<m>>, FALSE)
        sig == WithTensors(WithSizes(<<"m", "n">>, p), <<x, a, y>>)
        mt == infer_pattern(p.m, <<128, 16>>)
        nt == infer_pattern(p.n, <<128>>)
        out == LET res == dotv(HostArray(sig.args, a, <<p.m, p.n>>), HostArray(sig.args, x, <<p.n>>), p.m, p.n)
                  IN Output(sig.args, y, LAMBDA i : Num(res[i]))
    IN Kernel(sig, MatVecBody(LoadTensor(LoadTensor(NewBuilder(device, sig), x, <<nt>>), a, <<mt, nt>>), y),
              {<<a, <<p.m, p.n>>>>, <<x, <<p.n>>>>}, out)

(* y = (alpha * A + beta * B) . x; the random scalars are 2 and 3. *)
Gesummv(device, p) ==
    LET m == TensorSize(p, "m") n == TensorSize(p, "n")
        x == Tensor("x", <<n>>, TRUE)
        a == Tensor("a", <<m, n>>, TRUE)
        b == Tensor("b", <<m, n>>, TRUE)
        y == Tensor("y", <<m>>, FALSE)
        sized == WithSizes(<<"m", "n">>, p)
        sig == WithTensors(scalar(scalar(sized, "alpha", F32, 2), "beta", F32, 3), <<x, a, b, y>>)
        mt == infer_pattern(p.m, <<128, 16>>)
        nt == infer_pattern(p.n, <<128>>)
        out == LET hx == HostArray(sig.args, x, <<p.m>>)
                      ha == dotv(HostArray(sig.args, a, <<p.m, p.n>>), hx, p.m, p.n)
                      hb == dotv(HostArray(sig.args, b, <<p.m, p.n>>), hx, p.m, p.n)
                  IN Output(sig.args, y, LAMBDA i : Num(ha[i] * 2 + hb[i] * 3))
    IN Kernel(sig, GesummvBody(LoadTensor(LoadTensor(LoadTensor(NewBuilder(device, sig), x, <<nt>>),
                                                     a, <<mt, nt>>), b, <<mt, nt>>), y),
              {<<a, <<p.m, p.n>>>>, <<b, <<p.m, p.n>>>>, <<x, <<p.m>>>>}, out)

(* The parameters of the matrix products; {} stands for a tiling that is   *)
(* not given.                                                              *)
FusedMMP(m, n, k) ==
    [m |-> m, n |-> n, k |-> k, a_stride |-> 1, transpose_a |-> FALSE, transpose_b |-> FALSE,
     generic |-> TRUE, m_tiling |-> {}, n_tiling |-> {}, k_tiling |-> {}, activation_fun |-> "None"]
BatchMMP(batch, m, n, k) ==
    [m |-> m, n |-> n, k |-> k, batch |-> batch, transpose_a |-> FALSE, transpose_b |-> FALSE,
     batch_b |-> TRUE, generic |-> TRUE]
Fused2MMP(m, n, k, p, alpha, beta) ==
    [m |-> m, n |-> n, k |-> k, p |-> p, alpha |-> alpha, beta |-> beta, transpose_a |-> FALSE,
     transpose_b |-> FALSE, transpose_c |-> FALSE, transpose_d |-> FALSE, generic |-> TRUE,
     m_tiling |-> {}, n_tiling |-> {}, k_tiling |-> {}, p_tiling |-> {}, activation_fun |-> "None"]

(* C = A . B, then an activation function. *)
FusedMM(device, p) ==
    LET m == TensorSize(p, "m") n == TensorSize(p, "n") k == TensorSize(p, "k")
        mka == TensorBuilder("a", <<m, k, DimSize(p.a_stride, <<>>)>>)
        a == finish(stride_dim(DoIf(p.transpose_a, transpose(mka, 1, 2), mka), 3))
        mkb == TensorBuilder("b", <<k, n>>)
        b == finish(DoIf(p.transpose_b, transpose(mkb, 1, 2), mkb))
        c == Tensor("c", <<m, n>>, FALSE)
        sig == WithTensors(WithSizes(<<"m", "n", "k">>, p), <<a, b, c>>)
        mt == infer_tiling(p.m, p.m_tiling, <<32, 4>>)
        nt == infer_tiling(p.n, p.n_tiling, <<32, 4>>)
        kt == infer_tiling(p.k, p.k_tiling, <<32>>)
        out == LET prod == dot(HostArray(sig.args, a, <<p.m, p.k>>), HostArray(sig.args, b, <<p.k, p.n>>),
                                  p.m, p.n, p.k)
                  IN Output(sig.args, c, LAMBDA i : Activated(p.activation_fun, prod[i]))
    IN Kernel(sig, FusedMMBody(LoadTensor(LoadTensor(NewBuilder(device, sig), a, <<mt, kt>>), b, <<kt, nt>>),
                               p.activation_fun, c),
              {<<a, <<p.m, p.k>>>>, <<b, <<p.k, p.n>>>>}, out)

(* The product of each pair of matrices, and its store after the sums.     *)
BatchProduct(b, batch_b) ==
    LET lhs == b.t["a"] rhs == b.t["b"]
        init == Fresh(b, <<1, 2, 3>>)
        acc == [k \in 1..4 |-> LastDim(b) + 3 + k]
        rdims == <<acc[1], acc[4], acc[3]>>
    IN Virtual(close_dim(MadReduce(OpenMappedAll(InitZero(b, <<lhs.dims[1], lhs.dims[2], Last(rhs.dims)>>),
                                                 init \o <<lhs.dims[3]>>), lhs, <<acc[1], acc[2], acc[4]>>,
                                   rhs, IF batch_b THEN rdims ELSE Tail(rdims), LastInst(b) + 1), acc[4]),
               "ab", SubSeq(acc, 1, 3))
StoreAfter(b) == order(b, <<InstStmt(b.t["c"].inst)>>, DimStmts(b, Last(b.t["ab"].dims) + 1), {"AFTER"})
BatchMMBody(b, batch_b, c) == StoreAfter(StoreTensor(BatchProduct(b, batch_b), "ab", c))

(* C[i] = A[i] . B[i], or A[i] . B when B is reused.  The batch size is    *)
(* always a parameter.                                                     *)
BatchMM(device, p) ==
    LET m == TensorSize(p, "m") n == TensorSize(p, "n") k == TensorSize(p, "k")
        batch == create_size(p.batch, "batch", TRUE)
        mka == TensorBuilder("a", <<batch, m, k>>)
        a == finish(DoIf(p.transpose_a, transpose(mka, 2, 3), mka))
        mkb == TensorBuilder("b", <<batch, k, n>>)
        tb == DoIf(p.transpose_b, transpose(mkb, 2, 3), mkb)
        b == finish(DoIf(~p.batch_b, stride_dim(tb, 1), tb))
        c == Tensor("c", <<batch, m, n>>, FALSE)
        sized == max_size(WithSizes(<<"m", "n", "k">>, p), "batch", p.batch, TRUE)
        sig == WithTensors(sized, <<a, b, c>>)
        tile(x) == infer_pattern(p[x], <<64>>)
        bt == infer_pattern(p.batch, <<128>>)
        ta == <<bt, tile("m"), tile("k")>>
        tbs == IF p.batch_b THEN <<bt, tile("k"), tile("n")>> ELSE <<tile("k"), tile("n")>>
        out == LET ha == HostArray(sig.args, a, <<p.batch, p.m, p.k>>)
                      hb == HostArray(sig.args, b, <<p.batch, p.k, p.n>>)
                  IN Output(sig.args, c, LAMBDA i :
                       Num(SumOver(p.k, LAMBDA x : ha[<<i[1], i[2], x>>] * hb[<<i[1], x, i[3]>>])))
    IN Kernel(sig, BatchMMBody(LoadTensor(LoadTensor(NewBuilder(device, sig), a, ta), b, tbs), p.batch_b, c),
              {<<a, <<p.batch, p.m, p.k>>>>, <<b, <<p.batch, p.k, p.n>>>>}, out)

(* E = alpha * A . B . C + beta * D, then an activation function. *)
Fused2MM(device, p) ==
    LET m == TensorSize(p, "m") n == TensorSize(p, "n") k == TensorSize(p, "k") q == TensorSize(p, "p")
        mat(name, l, r, transposed) ==
            LET t == TensorBuilder(name, <<l, r>>) IN finish(DoIf(transposed, transpose(t, 1, 2), t))
        a == mat("a", m, k, p.transpose_a)
        b == mat("b", k, n, p.transpose_b)
        c == mat("c", n, q, p.transpose_c)
        d == mat("d", m, q, p.transpose_d)
        e == Tensor("e", <<m, q>>, FALSE)
        read == WithTensors(WithSizes(<<"m", "n", "k", "p">>, p), <<a, b, c, d>>)
        sig == WithTensor(scalar(scalar(read, "alpha", F32, p.alpha), "beta", F32, p.beta), e)
        tile(x, given) == infer_tiling(p[x], given, <<32, 4>>)
        mt == tile("m", p.m_tiling)
        nt == tile("n", p.n_tiling)
        qt == tile("p", p.p_tiling)
        kt == infer_tiling(p.k, p.k_tiling, <<32>>)
        out == LET hab == dot(HostArray(sig.args, a, <<p.m, p.k>>), HostArray(sig.args, b, <<p.k, p.n>>),
                                 p.m, p.n, p.k)
                      scaled == [i \in DOMAIN hab |-> hab[i] * p.alpha]
                      habc == dot(scaled, HostArray(sig.args, c, <<p.n, p.p>>), p.m, p.p, p.n)
                      hd == HostArray(sig.args, d, <<p.m, p.p>>)
                  IN Output(sig.args, e, LAMBDA i : Activated(p.activation_fun, habc[i] + hd[i] * p.beta))
    IN Kernel(sig, Fused2MMBody(LoadTensor(LoadTensor(LoadTensor(LoadTensor(NewBuilder(device, sig),
                                  a, <<mt, kt>>), b, <<kt, nt>>), c, <<nt, qt>>), d, <<mt, qt>>),
                                p.activation_fun, e),
              {<<a, <<p.m, p.k>>>>, <<b, <<p.k, p.n>>>>, <<c, <<p.n, p.p>>>>,
                          <<d, <<p.m, p.p>>>>}, out)
=============================================================================
