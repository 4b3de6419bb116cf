-------------------------------- MODULE Llir --------------------------------
(***************************************************************************)
(* The low-level IR (src/src/codegen/llir.rs): typed registers and         *)
(* literals, typed operators, and the constructors that refuse an          *)
(* instruction whose operator does not fit the types of its operands.      *)
(*                                                                         *)
(* A `Result' is the set of its values: {x} is Ok(x) and {} an Err.  A     *)
(* scalar or a vector operand is a non-empty sequence of operands.         *)
(***************************************************************************)
EXTENDS Integers, Sequences

(* ir::Type: integers and floats of a number of bits, pointers to a block. *)
I(n) == <<"I", n>>
F(n) == <<"F", n>>
PtrTo(m) == <<"P", m>>

is_integer(t) == t[1] \in {"I", "P"}
is_float(t) == t[1] = "F"

(* The number of bytes of a type that is lowered. *)
len_byte(t) == (t[2] + 7) \div 8

(* The registers, and the literals, an instruction reads.                  *)
Register(name, t) == [k |-> "reg", name |-> name, t |-> t]
int_literal(v, t) == [k |-> "int", v |-> v, t |-> t]
float_literal(v, t) == [k |-> "float", v |-> v, t |-> t]

(* The type of an operand that may be a vector is that of its first        *)
(* component.                                                              *)
TypeOf(op) == op[1].t

(* An integer literal of `bits' bits used where the type `t' is expected.  *)
typed_int_literal(v, bits, t) ==
    IF t[1] = "I" /\ bits <= t[2] THEN {int_literal(v, t)} ELSE {}

(* Address::try_from: only an integer register is an address.              *)
AddressOf(op) ==
    IF op.k = "reg" /\ is_integer(op.t) THEN {op} ELSE {}

-----------------------------------------------------------------------------
(* The type all the members of a sequence of types have in common.         *)
unify_type(ts) == IF \A i \in DOMAIN ts : ts[i] = ts[1] THEN {ts[1]} ELSE {}
unify_itype(ts) == {t \in unify_type(ts) : is_integer(t)}
unify_ftype(ts) == {t \in unify_type(ts) : is_float(t)}

(* A typed operator: its name, its arguments' types and its result's.      *)
Oper(name, args, ret) == [name |-> name, args |-> args, ret |-> ret]

-----------------------------------------------------------------------------
(* UnOp *)
UnOpFromIr(op, arg_t) ==
    CASE op[1] = "Mov" -> {Oper("mov", <<arg_t>>, arg_t)}
      [] op[1] = "Cast" -> {Oper("cast", <<arg_t>>, op[2])}
      [] op[1] = "Exp" -> {Oper("exp", <<t>>, t) : t \in unify_type(<<op[2], arg_t>>)}

infer_move(d, a) == {Oper("mov", <<t>>, t) : t \in unify_type(<<d, a>>)}
infer_cast(dst_t, d, a) == {Oper("cast", <<a>>, t) : t \in unify_type(<<d, dst_t>>)}

-----------------------------------------------------------------------------
(* MulSpec: a product of the width of its arguments, or twice as wide.     *)
MulSpecFromIr(lhs_t, rhs_t, ret_t) ==
    IF lhs_t # rhs_t \/ lhs_t[1] # "I" \/ ret_t[1] # "I" THEN {}
    ELSE IF ret_t[2] = 2 * lhs_t[2] THEN {"wide"}
    ELSE IF ret_t[2] = lhs_t[2] THEN {"low"} ELSE {}

MulSpecRet(spec, arg_t) == I(IF spec = "wide" THEN 2 * arg_t[2] ELSE arg_t[2])

(* BinOp *)
Comparisons == {"Lt", "Leq", "Equals"}

BinOpFromIr(op, rounding, lhs_t, rhs_t) ==
    {Oper(op, <<t, t>>, IF op \in Comparisons THEN I(1) ELSE t) :
        t \in {u \in unify_type(<<lhs_t, rhs_t>>) :
                 \/ u[1] = "I" /\ rounding = "Exact"
                 \/ u[1] = "F" /\ op \in {"Add", "Sub", "Div"}
                 \/ u[1] = "F" /\ op = "Max" /\ rounding = "Exact"}}

from_ir_mul(rounding, lhs_t, rhs_t, ret_t) ==
    CASE lhs_t[1] = "I" ->
           {Oper("imul", <<lhs_t, lhs_t>>, MulSpecRet(s, lhs_t)) :
              s \in IF rounding = "Exact" THEN MulSpecFromIr(lhs_t, rhs_t, ret_t) ELSE {}}
      [] lhs_t[1] = "F" ->
           {Oper("fmul", <<t, t>>, t) : t \in unify_ftype(<<ret_t, lhs_t, rhs_t>>)}
      [] OTHER -> {}

(* infer_iadd ... infer_or: one operator of an integer type.               *)
infer_ibinop(name, d, a, b) ==
    {Oper(name, <<t, t>>, t) : t \in unify_itype(<<d, a, b>>)}

infer_imul(spec, d, a, b) ==
    {Oper("imul", <<t, t>>, d) :
        t \in {u \in unify_itype(<<a, b>>) : unify_itype(<<d, MulSpecRet(spec, u)>>) # {}}}

infer_set(op, d, a, b) ==
    {Oper(op, <<t, t>>, I(1)) :
        t \in {u \in unify_type(<<a, b>>) : unify_itype(<<d, I(1)>>) # {}}}

-----------------------------------------------------------------------------
(* TernOp *)
from_ir_mad(rounding, mlhs_t, mrhs_t, arhs_t) ==
    CASE mlhs_t[1] = "I" ->
           {Oper("imad", <<mlhs_t, mlhs_t, MulSpecRet(s, mlhs_t)>>, MulSpecRet(s, mlhs_t)) :
              s \in IF rounding = "Exact" THEN MulSpecFromIr(mlhs_t, mrhs_t, arhs_t) ELSE {}}
      [] mlhs_t[1] = "F" ->
           {Oper("ffma", <<t, t, t>>, t) : t \in unify_ftype(<<mlhs_t, mrhs_t, arhs_t>>)}
      [] OTHER -> {}

infer_imad(spec, d, a, b, c) ==
    {Oper("imad", <<t, t, MulSpecRet(spec, t)>>, MulSpecRet(spec, t)) :
        t \in {u \in unify_itype(<<a, b>>) :
                 unify_itype(<<d, c, MulSpecRet(spec, u)>>) # {}}}

-----------------------------------------------------------------------------
(* Instructions.  Every instruction has its operator, the registers it     *)
(* assigns, its arguments, and the predicate register that guards it, if   *)
(* any.                                                                    *)
NoReg == {}
Inst(op, d, args) == [op |-> op, d |-> d, args |-> args, pred |-> NoReg]

(* Instruction::unary *)
unary(op, d, a) ==
    IF op.args = <<TypeOf(a)>> /\ TypeOf(d) = op.ret
    THEN {Inst(<<"do", op.name>>, d, <<a>>)} ELSE {}

(* Instruction::binary *)
binary(op, d, a, b) ==
    IF op.args = <<TypeOf(a), TypeOf(b)>> /\ TypeOf(d) = op.ret
    THEN {Inst(<<"do", op.name>>, d, <<a, b>>)} ELSE {}

(* Instruction::ternary *)
ternary(op, d, a, b, c) ==
    IF op.args = <<TypeOf(a), TypeOf(b), TypeOf(c)>> /\ TypeOf(d) = op.ret
    THEN {Inst(<<"do", op.name>>, d, <<a, b, c>>)} ELSE {}

(* The instructions the printer builds from operands alone: the operator   *)
(* is inferred from their types, and the call panics when there is none.   *)
Unwrap(r) == IF r = {} THEN Inst(<<"panic">>, <<>>, <<>>) ELSE CHOOSE x \in r : TRUE

mov(d, a) ==
    Unwrap(UNION {unary(op, <<d>>, <<a>>) : op \in infer_move(d.t, a.t)})
cast(dst_t, d, a) ==
    Unwrap(UNION {unary(op, <<d>>, <<a>>) : op \in infer_cast(dst_t, d.t, a.t)})
iadd(d, a, b) ==
    Unwrap(UNION {binary(op, <<d>>, <<a>>, <<b>>) : op \in infer_ibinop("Add", d.t, a.t, b.t)})
iand(d, a, b) ==
    Unwrap(UNION {binary(op, <<d>>, <<a>>, <<b>>) : op \in infer_ibinop("And", d.t, a.t, b.t)})
set_eq(d, a, b) ==
    Unwrap(UNION {binary(op, <<d>>, <<a>>, <<b>>) : op \in infer_set("Equals", d.t, a.t, b.t)})
set_lt(d, a, b) ==
    Unwrap(UNION {binary(op, <<d>>, <<a>>, <<b>>) : op \in infer_set("Lt", d.t, a.t, b.t)})

(* Instruction::imul *)
imul(d, a, b) ==
    Unwrap(UNION {binary(op, <<d>>, <<a>>, <<b>>) :
             op \in UNION {infer_imul(s, d.t, a.t, b.t) : s \in MulSpecFromIr(a.t, b.t, d.t)}})

(* Instruction::imad *)
imad(d, a, b, c) ==
    Unwrap(UNION {ternary(op, <<d>>, <<a>>, <<b>>, <<c>>) :
             op \in UNION {infer_imad(s, d.t, a.t, b.t, c.t) : s \in MulSpecFromIr(a.t, b.t, c.t)}})

-----------------------------------------------------------------------------
(* Memory instructions.                                                    *)

(* StateSpace::try_from: only a decided memory space has one.              *)
StateSpace(mem_space) == IF mem_space \in {"GLOBAL", "SHARED"} THEN {mem_space} ELSE {}

LoadCacheOperator(flag) ==
    {c \in {"cs", "cg", "ca", "nc"} :
       <<flag, c>> \in {<<"NO_CACHE", "cs">>, <<"CACHE_GLOBAL", "cg">>,
                        <<"CACHE_SHARED", "ca">>, <<"CACHE_READ_ONLY", "nc">>}}

StoreCacheOperator(flag) ==
    {c \in {"cs", "cg", "wb"} :
       <<flag, c>> \in {<<"NO_CACHE", "cs">>, <<"CACHE_GLOBAL", "cg">>, <<"CACHE_SHARED", "wb">>}}

(* LoadSpec::from_ir, with the factors <<outer, inner>> of a vector.       *)
LoadSpec(factors, t, mem_space, flag) ==
    {[t |-> t, vec |-> factors[2], ss |-> s] :
        s \in IF factors[1] = 1 /\ factors[2] # 0 /\ LoadCacheOperator(flag) # {}
              THEN StateSpace(mem_space) ELSE {}}

(* StoreSpec::from_ir *)
StoreSpec(factors, t, mem_space, flag) ==
    {[t |-> t, vec |-> factors[2], ss |-> s] :
        s \in IF factors[1] = 1 /\ factors[2] # 0 /\ StoreCacheOperator(flag) # {}
              THEN StateSpace(mem_space) ELSE {}}

(* Instruction::load *)
load(spec, d, addr) ==
    IF spec.t = TypeOf(d)
    THEN {Inst(<<"ld", spec.ss, spec.vec>>, d, <<<<addr>>>>)} ELSE {}

(* Instruction::store *)
store(spec, addr, b) ==
    IF spec.t = TypeOf(b)
    THEN {Inst(<<"st", spec.ss, spec.vec>>, <<>>, <<<<addr>>, b>>)} ELSE {}

(* Control: a jump to a label, the label itself, and the barrier.          *)
jump(label) == Inst(<<"jump", label>>, <<>>, <<>>)
label(l) == Inst(<<"label", l>>, <<>>, <<>>)
sync == Inst(<<"sync">>, <<>>, <<>>)

(* Instruction::predicated *)
predicated(i, pred) == [i EXCEPT !.pred = pred]
=============================================================================
