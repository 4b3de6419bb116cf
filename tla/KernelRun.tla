----------------------------- MODULE KernelRun -----------------------------
(***************************************************************************)
(* A kernel from its author to its result: the author builds a function,   *)
(* the candidates of its search space are refined until every choice is    *)
(* made, the candidate is turned into code, and the code runs on the       *)
(* threads of a device.                                                    *)
(*                                                                         *)
(* The device is external: a grid of blocks of threads, a memory shared by *)
(* the threads of a block and a memory shared by all.  Threads interleave  *)
(* at their accesses to temporary arrays and wait for each other at        *)
(* barriers; the arrays of the caller are either read or stored once.      *)
(***************************************************************************)
EXTENDS KernelPrinter, KernelMeaning, PerfModel

CONSTANTS Tasks,      \* the kernels and their parameters
          Author(_)   \* what a kernel's author builds for a task: see Built

VARIABLES task,     \* the kernel and its parameters
          sp,       \* the candidate
          phase,    \* author, sizes, sized, explore, rejected, panic, run, done
          kernel,   \* what is left of the code generator's result
          threads,  \* for each thread: program counter, registers, status
          mem,      \* the stored cells: of global memory and of each block
          writes,   \* how often a cell of global memory was stored
          promised  \* the largest pressures the model gave on the way

vars == <<task, sp, phase, kernel, threads, mem, writes, promised>>

-----------------------------------------------------------------------------
(* The arguments the host gives, and the registers a thread starts from.   *)

(* The temporary blocks of a thread block. *)
SharedBase(m) == 1000 * m
ArgValue(args, key) ==
    CASE key[1] = "external" -> args[key[2]]
      [] key[1] = "size" -> HostSize(args, key[2])
      [] key[1] = "mem" -> GlobalBase(key[2])

(* The threads of the grid: an index for each block dimension and each     *)
(* thread dimension.                                                       *)
Grid(args, dims) == Points(DOMAIN dims, LAMBDA k : HostSize(args, dims[k].size))
Tids(args, fun) == Grid(args, fun.blocks) \X Grid(args, fun.threads)

(* decl_par_indexes, the loads of the parameters, shared_mem_decl.         *)
InitialRegs(args, fun, tid) ==
    [key \in {<<"param", a>> : a \in fun.args} |-> Num(ArgValue(args, key[2]))]
    @@ [key \in {<<"shared", r.m>> : r \in ToSet(fun.mems)} |-> Num(SharedBase(key[2]))]
    @@ [key \in {<<"index", DimId(fun.blocks[k])>> : k \in DOMAIN fun.blocks} |->
          Num(tid[1][CHOOSE k \in DOMAIN fun.blocks : DimId(fun.blocks[k]) = key[2]])]
    @@ [key \in {<<"index", DimId(fun.threads[k])>> : k \in DOMAIN fun.threads} |->
          Num(tid[2][CHOOSE k \in DOMAIN fun.threads : DimId(fun.threads[k]) = key[2]])]

-----------------------------------------------------------------------------
(* One instruction of a thread.  A run is [pc, regs, mem, writes].         *)
Read(regs, x) ==
    CASE x.k \in {"int", "float"} -> Num(x.v)
      [] x.k = "reg" -> IF x.name \in DOMAIN regs THEN regs[x.name] ELSE Undefined

(* A cell of the global memory, or of the shared memory of a block.        *)
CellOf(space, block, addr) == IF space = "SHARED" THEN <<"shared", block, addr>> ELSE <<"global", <<>>, addr>>
LoadCell(m, cell) ==
    IF cell \in DOMAIN m THEN m[cell] ELSE IF cell[1] = "shared" THEN Undefined ELSE Initially(cell[3])
Width(x) == len_byte(x.t)

Runs(regs, x) == \A p \in x.pred : Read(regs, p) = Num(1)

Component(regs, x, j) == [k \in DOMAIN x.args |-> Read(regs, x.args[k][j])]
AddressAt(base, j, w) == IF IsNum(base) THEN base[2] + (j - 1) * w ELSE -1

DoLoad(r, x, block) ==
    LET cell(j) == CellOf(x.op[2], block, AddressAt(Read(r.regs, x.args[1][1]), j, Width(x.d[1])))
    IN [r EXCEPT !.pc = @ + 1,
                 !.regs = [n \in {x.d[j].name : j \in DOMAIN x.d} |->
                             LoadCell(r.mem, cell(CHOOSE j \in DOMAIN x.d : x.d[j].name = n))] @@ @]

DoStore(r, x, block) ==
    LET src == x.args[2]
        cell(j) == CellOf(x.op[2], block, AddressAt(Read(r.regs, x.args[1][1]), j, Width(src[1])))
        cells == {cell(j) : j \in DOMAIN src}
        value(c) == Read(r.regs, src[CHOOSE j \in DOMAIN src : cell(j) = c])
        count(c) == IF c \in DOMAIN r.writes THEN r.writes[c] + 1 ELSE 1
        outside == {c \in cells : c[1] = "global"}
    IN [r EXCEPT !.pc = @ + 1, !.mem = [c \in cells |-> value(c)] @@ @,
                 !.writes = [c \in outside |-> count(c)] @@ @]

DoAssign(r, x) ==
    [r EXCEPT !.pc = @ + 1,
              !.regs = [n \in {x.d[j].name : j \in DOMAIN x.d} |->
                          LET j == CHOOSE k \in DOMAIN x.d : x.d[k].name = n
                          IN Compute(x.op[2], Component(r.regs, x, j))] @@ @]

Target(code, l) == CHOOSE k \in DOMAIN code : code[k] = label(l)

(* The operations a thread performs, those a predicate skips included. *)
Pressure(x, runs) ==
    CASE x.op[1] = "label" -> ZeroPressure
      [] ~runs -> SkippedPressure
      [] x.op[1] = "do" -> Arith
      [] x.op[1] \in {"ld", "st"} -> Access
      [] x.op[1] = "sync" -> SyncThread
      [] OTHER -> SkippedPressure
Counted(r, x, runs) == [r EXCEPT !.issued = add_parallel(@, Pressure(x, runs))]

Execute(r, x, code, block) ==
    CASE x.op[1] = "jump" -> [r EXCEPT !.pc = Target(code, x.op[2])]
      [] x.op[1] = "ld" -> DoLoad(r, x, block)
      [] x.op[1] = "st" -> DoStore(r, x, block)
      [] x.op[1] = "do" -> DoAssign(r, x)
      [] OTHER -> [r EXCEPT !.pc = @ + 1]

(* Accesses other threads may be making too: the temporary arrays. *)
TouchesShared(r, x) ==
    /\ x.op[1] \in {"ld", "st"}
    /\ x.op[2] = "SHARED" \/ LET a == Read(r.regs, x.args[1][1]) IN IsNum(a) /\ a[2] >= GlobalBase(1)

(* A thread runs up to its next access to a temporary array, its next      *)
(* barrier, or its end.                                                    *)
RECURSIVE Continue(_, _, _)
Continue(r, code, block) ==
    IF r.pc > Len(code) THEN [r EXCEPT !.at = "end"]
    ELSE LET x == code[r.pc] IN
         IF ~Runs(r.regs, x) THEN Continue([Counted(r, x, FALSE) EXCEPT !.pc = @ + 1], code, block)
         ELSE IF x.op[1] = "sync" THEN [Counted(r, x, TRUE) EXCEPT !.pc = @ + 1, !.at = "barrier"]
         ELSE IF TouchesShared(r, x) THEN r
         ELSE Continue(Execute(Counted(r, x, TRUE), x, code, block), code, block)

(* ... beginning with the access it stopped at. *)
RunFrom(r, code, block) ==
    IF r.pc <= Len(code) /\ Runs(r.regs, code[r.pc]) /\ TouchesShared(r, code[r.pc])
    THEN Continue(Execute(Counted(r, code[r.pc], TRUE), code[r.pc], code, block), code, block)
    ELSE Continue(r, code, block)

-----------------------------------------------------------------------------
NoKernel == [source |-> <<>>, code |-> <<>>, args |-> <<>>, expected |-> <<>>]
Nothing == [c \in {} |-> 0]
NoPromise == [level \in {"Global", "Block", "Thread"} |-> ZeroPressure]

(* What an author hands over: a function and its actions, the arguments of *)
(* the context, what the outputs should be (<<>>: what the function means) *)
(* and whether its candidates are explored beyond the sizes of the tiles.  *)
Built(fun, acts, ok, args, expected, explored) ==
    [fun |-> fun, acts |-> acts, ok |-> ok /\ ~fun.err, args |-> args, expected |-> expected,
     explored |-> explored]

Init ==
    /\ task \in Tasks
    /\ sp = NoDomains /\ phase = "author" /\ kernel = NoKernel
    /\ threads = Nothing /\ mem = Nothing /\ writes = Nothing /\ promised = NoPromise

(* Builder::get: SearchSpace::new must accept the function. *)
Get ==
    /\ phase = "author"
    /\ \E built \in {Author(task)} :
         /\ kernel' = [kernel EXCEPT !.source = built.fun, !.args = built.args, !.expected = built.expected]
         /\ \/ ~built.ok /\ phase' = "panic" /\ sp' = NoDomains
            \/ /\ built.ok /\ built.explored
               /\ sp' = SearchSpace(built.fun, built.acts)
               /\ phase' = IF sp'.dead THEN "panic" ELSE "explore"
            \/ built.ok /\ ~built.explored /\ phase' = "sizes" /\ sp' = OnlySizes(built.fun)
    /\ UNCHANGED <<task, threads, mem, writes, promised>>

(* The choices of the sizes alone. *)
DecideSize ==
    /\ phase = "sizes" /\ sp' \in SizeChildren(sp)
    /\ UNCHANGED <<task, phase, kernel, threads, mem, writes, promised>>

Sized ==
    /\ phase = "sizes" /\ SizeChildren(sp) = {}
    /\ phase' = IF SizeChoices(sp) = <<>> /\ TilingsFit(sp) THEN "sized" ELSE "rejected"
    /\ UNCHANGED <<task, sp, kernel, threads, mem, writes, promised>>

(* The performance model's bound for a candidate, with those before it. *)
RaisedTo(p) == [level \in DOMAIN p |-> Greatest({p[level], promised[level]})]
Raised(candidate) == RaisedTo(throughput_bounds(candidate, kernel.args))

(* A choice is made: choice::list and the actions of its branches. *)
Decide ==
    /\ phase = "explore" /\ ~Leaf(sp)
    /\ sp' \in Children(sp)
    /\ promised' = Raised(sp)
    /\ UNCHANGED <<task, phase, kernel, threads, mem, writes>>

(* A candidate with a choice that has no value left. *)
Reject ==
    /\ phase = "explore" /\ ~Leaf(sp)
    /\ Children(sp) = {}
    /\ phase' = "rejected"
    /\ UNCHANGED <<task, sp, kernel, threads, mem, writes, promised>>

(* What the author's function means with the sizes of the candidate. *)
Meant == OutputsOf([fun |-> kernel.source, size |-> sp.size, args |-> kernel.args])

Generated(fun) == IF fun.ok THEN PrintFunction(fun) ELSE <<Panic>>

(* A candidate whose choices are all made: the constraints refuse it, or   *)
(* codegen::Function::build and the printer make its code and the host     *)
(* starts the grid.                                                        *)
Compile ==
    /\ phase = "explore" /\ Leaf(sp)
    /\ \E leaf \in {OrderInsts(sp)} :
         IF ~Implementable(leaf)
         THEN phase' = "rejected" /\ UNCHANGED <<kernel, threads, promised>>
         ELSE \E fun \in {FunctionBuild(leaf)} : \E code \in {Generated(fun)} :
                IF Panics(code) \/ ~ParamsDeclared(fun, code)
                THEN phase' = "panic" /\ UNCHANGED <<kernel, threads, promised>>
                ELSE /\ phase' = "run"
                     /\ kernel' = [kernel EXCEPT !.code = code, !.expected = IF @ = <<>> THEN Meant ELSE @]
                     /\ threads' = [t \in Tids(kernel.args, fun) |->
                                   [pc |-> 1, regs |-> InitialRegs(kernel.args, fun, t), at |-> "run",
                                    issued |-> ZeroPressure]]
                     /\ promised' = Raised(leaf)
    /\ UNCHANGED <<task, sp, mem, writes>>

Released(moved, block) ==
    IF \A u \in block : moved[u].at = "barrier"
    THEN [u \in DOMAIN moved |-> IF u \in block THEN [moved[u] EXCEPT !.at = "run"] ELSE moved[u]]
    ELSE moved

(* A thread runs to its next access or barrier; the last one of a block to *)
(* reach a barrier lets the others go on.                                  *)
RunThread(t) ==
    /\ phase = "run" /\ threads[t].at = "run"
    /\ \E r \in {RunFrom([mem |-> mem, writes |-> writes] @@ threads[t], kernel.code, t[1])} :
         /\ threads' = Released([threads EXCEPT ![t] = [pc |-> r.pc, regs |-> r.regs, at |-> r.at, issued |-> r.issued]],
                                {u \in DOMAIN threads : u[1] = t[1]})
         /\ mem' = r.mem /\ writes' = r.writes
    /\ UNCHANGED <<task, sp, phase, kernel, promised>>

Finish ==
    /\ phase = "run" /\ \A t \in DOMAIN threads : threads[t].at = "end"
    /\ phase' = "done"
    /\ UNCHANGED <<task, sp, kernel, threads, mem, writes, promised>>

Ended == phase \in {"sized", "rejected", "panic", "done"} /\ UNCHANGED vars

Next == Get \/ DecideSize \/ Sized \/ Decide \/ Reject \/ Compile \/ (\E t \in DOMAIN threads : RunThread(t)) \/ Finish \/ Ended
Spec == Init /\ [][Next]_vars

-----------------------------------------------------------------------------
(* Properties                                                              *)

(* An author's function is a valid one, and a candidate the constraints    *)
(* accept is one the code generator accepts: the comparison of events      *)
(* never meets an order it does not expect, the events nest, mapped        *)
(* threads have one size, every instruction is well typed and every        *)
(* parameter it reads is passed by the host.                               *)
NeverPanics == phase # "panic"

(* Whatever the decisions, and in whatever order the threads run, the      *)
(* kernel ends with the outputs its author expects in global memory        *)
(* (Kernel::check_result).                                                 *)
OutputsMatch ==
    phase = "done" =>
      LET out == {c \in DOMAIN mem : c[1] = "global" /\ c[3] < GlobalBase(1)}
      IN [a \in {c[3] : c \in out} |-> mem[<<"global", <<>>, a>>]] = kernel.expected

(* The function a kernel of the library builds computes what the library   *)
(* expects of it, for all the sizes its tiles may take: the strides, the   *)
(* dimension maps and the reductions its author wrote fit together.        *)
BodyComputesExpected ==
    phase = "sized" => OutputsOf([fun |-> sp.fun, size |-> sp.size, args |-> kernel.args]) = kernel.expected

(* An instruction with side effects runs once for each point of its        *)
(* dimensions: no thread repeats the store of another.                     *)
StoresOnce ==
    \A c \in DOMAIN writes : c[3] < GlobalBase(1) => writes[c] = 1

(* The work the performance model finds in a candidate is a lower bound of *)
(* what any implementation of it does, however few choices are made: of    *)
(* the operations on each unit for the grid, and, for each level of the    *)
(* latency graph, of the time the blocks take, as many at once as the      *)
(* device runs ("a lower bound on the execution time of all the            *)
(* implementation candidates", model/mod.rs).                              *)
Performed(T) == FoldSet(LAMBDA t, p : add_parallel(p, threads[t].issued), ZeroPressure, T)
NoMore(p, q) == \A u \in Units : p[u] <= q[u]
BoundIsLower ==
    phase = "done" =>
      LET blocks == {t[1] : t \in DOMAIN threads}
          in(b) == {t \in DOMAIN threads : t[1] = b}
          hw == block_parallelism(Max({Cardinality(in(b)) : b \in blocks}))
          time(p) == scale(p, hw, Cardinality(blocks), Cardinality(blocks))
      IN /\ NoMore(promised.Global, Performed(DOMAIN threads))
         /\ NoMore(promised.Block, time(Greatest({Performed(in(b)) : b \in blocks})))
         /\ NoMore(promised.Thread, time(Greatest({threads[t].issued : t \in DOMAIN threads})))
=============================================================================
