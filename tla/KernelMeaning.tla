--------------------------- MODULE KernelMeaning ---------------------------
(***************************************************************************)
(* What a function of the IR means, whatever its implementation: the value *)
(* of an instruction at a point of its iteration dimensions, computed from *)
(* the arguments of the kernel and the contents of their arrays.           *)
(*                                                                         *)
(* A kernel k is a function with the sizes of its static dimensions and    *)
(* the values of its arguments: [fun, size, args].                         *)
(***************************************************************************)
EXTENDS Codegen

(* Values: numbers, terms for what is not a number, and what an access     *)
(* outside of initialised memory gives.                                    *)
Num(n) == <<"num", n>>
Undefined == <<"undefined">>
Term(op, args) == <<"term", op, args>>
IsNum(v) == v[1] = "num"

Arithmetic(op, v) ==
    CASE op \in {"mov", "cast"} -> v[1][2]
      [] op = "Add" -> v[1][2] + v[2][2]
      [] op = "Sub" -> v[1][2] - v[2][2]
      [] op \in {"imul", "fmul"} -> v[1][2] * v[2][2]
      [] op \in {"imad", "ffma"} -> v[1][2] * v[2][2] + v[3][2]
      [] op = "Max" -> Max({v[1][2], v[2][2]})
      [] op = "And" -> IF v[1][2] = 1 /\ v[2][2] = 1 THEN 1 ELSE 0
      [] op = "Equals" -> IF v[1] = v[2] THEN 1 ELSE 0
      [] op = "Lt" -> IF v[1][2] < v[2][2] THEN 1 ELSE 0
NumericOps == {"mov", "cast", "Add", "Sub", "imul", "fmul", "imad", "ffma", "Max", "And", "Equals", "Lt"}

Compute(op, args) ==
    IF op = "mov" THEN args[1]
    ELSE IF op \in NumericOps /\ \A j \in DOMAIN args : IsNum(args[j]) THEN Num(Arithmetic(op, args))
    ELSE Term(op, args)

(* The arrays of the caller lie below the temporary arrays, and each of    *)
(* their cells, of four bytes, holds another number.                       *)
GlobalBase(m) == 100000 * m
Initially(addr) == IF addr < GlobalBase(1) THEN Num((addr \div 4) - 20) ELSE Undefined

-----------------------------------------------------------------------------
(* Context::eval_size *)
HostSize(args, s) == (s.f * FoldLeft(LAMBDA p, x : p * args[x], 1, s.p)) \div s.d

Points(D, Extent(_)) ==
    {p \in [D -> 0..(Max({1} \cup {Extent(d) : d \in D}) - 1)] : \A d \in D : p[d] < Extent(d)}

DimExtent(k, d) == HostSize(k.args, from_ir(k, k.fun.dims[d].size))

(* The point a mapped instruction is read at; the last one of a dimension  *)
(* the reader is not in.                                                   *)
Project(k, D, p, map) ==
    [d \in D |-> IF \E m \in ToSet(map) : m[1] = d THEN p[(CHOOSE m \in ToSet(map) : m[1] = d)[2]]
                 ELSE IF d \in DOMAIN p THEN p[d] ELSE DimExtent(k, d) - 1]

RECURSIVE ValueOf(_, _, _)
RECURSIVE OperandAt(_, _, _, _)
RECURSIVE VariableAt(_, _, _)

VariableAt(k, v, p) ==
    LET def == k.fun.vars[v].def
        map == DimMapping(k.fun, def)
    IN IF def.k = "Inst" THEN ValueOf(k, def.i, Project(k, k.fun.insts[def.i].iter, p, <<>>))
       ELSE VariableAt(k, def.v, [d \in k.fun.vars[def.v].dims |->
              IF d \notin DOMAIN map THEN p[d] ELSE IF map[d] = 0 THEN DimExtent(k, d) - 1 ELSE p[map[d]]])

(* The previous point of a reduction, along its innermost dimension that   *)
(* has one.                                                                *)
Previous(k, rdims, p) ==
    LET d == Max({e \in rdims : p[e] > 0})
    IN [e \in DOMAIN p |-> IF e = d THEN p[d] - 1
                           ELSE IF e \in rdims /\ e > d THEN DimExtent(k, e) - 1 ELSE p[e]]

OperandAt(k, i, x, p) ==
    CASE x.k \in {"int", "float"} -> Num(x.v)
      [] x.k = "param" -> Num(k.args[x.p])
      [] x.k = "index" -> Num(p[x.d])
      [] x.k = "iv" ->
           LET v == k.fun.ivs[x.v] IN
           Num(FoldLeft(LAMBDA n, s : n + p[s[1]] * HostSize(k.args, from_ir(k, s[2])),
                        OperandAt(k, i, v.base, p)[2], v.dims))
      [] x.k = "inst" -> ValueOf(k, x.i, Project(k, k.fun.insts[x.i].iter, p, x.map))
      [] x.k = "var" -> VariableAt(k, x.v, p)
      [] x.k = "reduce" ->
           IF \A d \in ToSet(x.rdims) : p[d] = 0
           THEN ValueOf(k, x.i, Project(k, k.fun.insts[x.i].iter, p, x.map))
           ELSE ValueOf(k, i, Previous(k, ToSet(x.rdims), p))

OpName(op) ==
    CASE op.k = "unop" -> IF op.f[1] = "Mov" THEN "mov" ELSE IF op.f[1] = "Cast" THEN "cast" ELSE "exp"
      [] op.k = "binop" -> op.f
      [] op.k = "mul" -> IF is_float(op.a[1].t) THEN "fmul" ELSE "imul"
      [] op.k = "mad" -> IF is_float(op.a[1].t) THEN "ffma" ELSE "imad"

ValueOf(k, i, p) ==
    LET op == k.fun.insts[i].op
        args == [j \in DOMAIN op.a |-> OperandAt(k, i, op.a[j], p)]
    IN IF op.k = "ld" THEN Initially(args[1][2]) ELSE Compute(OpName(op), args)

(* The cells the instructions with side effects store, with their values.  *)
Stored(k) ==
    UNION {{<<OperandAt(k, i, k.fun.insts[i].op.a[1], p)[2], OperandAt(k, i, k.fun.insts[i].op.a[2], p)>> :
              p \in Points(k.fun.insts[i].iter, LAMBDA d : DimExtent(k, d))} :
             i \in {j \in DOMAIN k.fun.insts : k.fun.insts[j].op.side}}
OutputsOf(k) == LET S == Stored(k) IN [a \in {o[1] : o \in S} |-> (CHOOSE o \in S : o[1] = a)[2]]
=============================================================================
