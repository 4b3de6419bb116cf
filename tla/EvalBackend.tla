----------------------------- MODULE EvalBackend -----------------------------
(***************************************************************************)
(* Context::async_eval of the backends (backend/{x86,cuda,mppa}, and the   *)
(* fake context of src/device/fake.rs): explorer threads prepare kernels   *)
(* and push them on a bounded queue, an evaluation thread runs them.       *)
(* CUDA compiles each worker's kernels in a process of its own, started    *)
(* through a spawner process; MPPA gives each kernel a write-back slot.    *)
(*                                                                         *)
(* A kernel is named after its worker and its number.  Failures are those  *)
(* of the source: a PTX compilation exits the JIT process, generating the  *)
(* thunk panics (and is caught), setting a kernel up for MPPA panics the   *)
(* explorer thread, a C compilation or an execution panics the evaluation  *)
(* thread.                                                                 *)
(***************************************************************************)
EXTENDS Integers, Sequences, FiniteSets, FiniteSetsExt

CONSTANTS
    Worker,       \* the explorer threads: integers, in the order of their creation
    Backends,     \* the backends considered: "x86", "cuda", "mppa", "fake"
    QueueSize,    \* EVAL_BUFFER_SIZE, EXECUTION_QUEUE_SIZE
    Slots,        \* write-back slots of the MPPA context
    MaxKernels,   \* bound on the kernels of a worker
    MayFail       \* whether compilations and executions may fail

ASSUME BackendAssumption ==
    /\ Worker \subseteq Nat /\ Worker # {} /\ IsFiniteSet(Worker)
    /\ Backends \subseteq {"x86", "cuda", "mppa", "fake"}
    /\ QueueSize \in Nat \ {0} /\ Slots \in Nat /\ MaxKernels \in Nat

VARIABLES
    backend,
    main,         \* the caller: "spawn", "pid", "join", "done", "panic", "abort"
    wpc, num,     \* where each worker is; how many kernels it began
    dead,         \* workers that panicked
    ptx, cubin,   \* the channels between a worker and its JIT process
    jit,          \* JIT processes: "none", "asked", "alive", "exited", "reaped"
    parent,       \* whose child a JIT process is: "tmp" or "main"
    evalq,        \* the queue
    epc, cur,     \* where the evaluation thread is, and the message it took
    slots,        \* free write-back slots
    calls,        \* history: the kernel each callback got, by candidate
    failed        \* history: the kernels that failed to compile or to run

vars == <<backend, main, wpc, num, dead, ptx, cubin, jit, parent, evalq, epc, cur, slots, calls, failed>>
evalVars == <<evalq, epc, cur>>
jitVars == <<ptx, cubin, jit, parent>>

Broken == <<>>          \* ErrorThunk
Fault == IF MayFail THEN BOOLEAN ELSE {FALSE}

Kernel(w) == <<w, num[w]>>
Goto(w, next) == wpc' = [wpc EXCEPT ![w] = next]
Noted(fails, kernel) == failed' = IF fails THEN failed \cup {kernel} ELSE failed

Init ==
    /\ backend \in Backends /\ main = "spawn"
    /\ wpc = [w \in Worker |-> "unborn"] /\ num = [w \in Worker |-> 0] /\ dead = {}
    /\ ptx = [w \in Worker |-> <<>>] /\ cubin = [w \in Worker |-> <<>>]
    /\ jit = [w \in Worker |-> "none"] /\ parent = [w \in Worker |-> "main"]
    /\ evalq = <<>> /\ epc = IF backend = "fake" THEN "gone" ELSE "unborn"
    /\ cur = <<>>
    /\ slots = Slots /\ calls = <<>> /\ failed = {}

Running == main \notin {"done", "panic", "abort"}
Unborn == {w \in Worker : wpc[w] = "unborn"}
Exited(w) == jit[w] \in {"none", "exited", "reaped"}

-----------------------------------------------------------------------------
(* The caller of async_eval.                                                *)

\* Starts the next explorer thread; CUDA asks for its JIT process first.
SpawnWorker ==
    /\ main = "spawn" /\ Unborn # {}
    /\ LET w == Min(Unborn) IN
         IF backend = "cuda"
         THEN /\ jit' = [jit EXCEPT ![w] = "asked"] /\ main' = "pid"
              /\ UNCHANGED wpc
         ELSE /\ Goto(w, "idle") /\ UNCHANGED jit
              /\ main' = IF backend = "fake" THEN "join" ELSE main
    /\ UNCHANGED <<backend, num, dead, ptx, cubin, parent, evalVars, slots, calls, failed>>

\* DaemonSpawner::spawn_jit receives the pid of the process.
ReceivePid ==
    /\ main = "pid"
    /\ LET w == Min(Unborn) IN jit[w] = "alive" /\ Goto(w, "idle")
    /\ main' = "spawn"
    /\ UNCHANGED <<backend, num, dead, jitVars, evalVars, slots, calls, failed>>

\* The evaluation thread starts last; the caller drops its sender and joins.
StartJoin ==
    /\ main = "spawn" /\ Unborn = {} /\ main' = "join"
    /\ epc' = "idle"
    /\ UNCHANGED <<backend, wpc, num, dead, jitVars, evalq, cur, slots, calls, failed>>

\* The scope returns when every thread is gone, and panics if one of them did.
Join ==
    /\ main = "join" /\ epc \in {"gone", "panic"}
    /\ \A w \in Worker : wpc[w] \in {"unborn", "gone"}
    /\ main' = IF dead = {} /\ epc = "gone" THEN "done" ELSE "panic"
    /\ UNCHANGED <<backend, wpc, num, dead, jitVars, evalVars, slots, calls, failed>>

-----------------------------------------------------------------------------
(* The processes of CUDA.                                                   *)

\* The spawner forks a process that forks the daemon, sends its pid ...
ForkDaemon(w) ==
    /\ jit[w] = "asked" /\ \A v \in Worker : parent[v] = "main"
    /\ jit' = [jit EXCEPT ![w] = "alive"] /\ parent' = [parent EXCEPT ![w] = "tmp"]
    /\ UNCHANGED <<backend, main, wpc, num, dead, ptx, cubin, evalVars, slots, calls, failed>>

\* ... and exits, upon which the daemon becomes a child of the subreaper.
Reparent(w) ==
    /\ parent[w] = "tmp" /\ parent' = [parent EXCEPT ![w] = "main"]
    /\ UNCHANGED <<backend, main, wpc, num, dead, ptx, cubin, jit, evalVars, slots, calls, failed>>

\* daemon: compiles what it receives until an empty message or a broken channel.
Daemon(w) ==
    /\ jit[w] = "alive"
    /\ \/ /\ ptx[w] # <<>> /\ Head(ptx[w]) # <<>>
          /\ \E fails \in Fault :
               /\ Noted(fails, Head(ptx[w]))
               /\ IF fails THEN jit' = [jit EXCEPT ![w] = "exited"] /\ UNCHANGED cubin
                  ELSE cubin' = [cubin EXCEPT ![w] = Append(@, Head(ptx[w]))] /\ UNCHANGED jit
          /\ ptx' = [ptx EXCEPT ![w] = Tail(@)]
       \/ /\ IF ptx[w] = <<>> THEN main = "abort" ELSE Head(ptx[w]) = <<>>
          /\ jit' = [jit EXCEPT ![w] = "exited"] /\ UNCHANGED <<ptx, cubin, failed>>
    /\ UNCHANGED <<backend, main, wpc, num, dead, parent, evalVars, slots, calls>>

-----------------------------------------------------------------------------
(* An explorer thread: AsyncEvaluator::add_dyn_kernel and its drop.         *)

\* The store gave it a candidate: Function::build.
Begin(w) ==
    /\ wpc[w] = "idle" /\ num[w] < MaxKernels
    /\ num' = [num EXCEPT ![w] = @ + 1]
    /\ Goto(w, "setup")
    /\ UNCHANGED <<backend, main, dead, jitVars, evalVars, slots, calls, failed>>

\* The fake context evaluates in place.
EvaluateInPlace(w) ==
    /\ backend = "fake" /\ wpc[w] = "setup"
    /\ calls' = Append(calls, <<Kernel(w), Kernel(w)>>) /\ Goto(w, "idle")
    /\ UNCHANGED <<backend, main, num, dead, jitVars, evalVars, slots, failed>>

\* x86: prints the code and collects its arguments.
PrintCode(w) ==
    /\ backend = "x86" /\ wpc[w] = "setup" /\ Goto(w, "send")
    /\ UNCHANGED <<backend, main, num, dead, jitVars, evalVars, slots, calls, failed>>

\* Kernel::compile_remote: the code goes to the JIT process.
SendPtx(w) ==
    /\ backend = "cuda" /\ wpc[w] = "setup"
    /\ ptx' = [ptx EXCEPT ![w] = Append(@, Kernel(w))] /\ Goto(w, "compile")
    /\ UNCHANGED <<backend, main, num, dead, cubin, jit, parent, evalVars, slots, calls, failed>>

\* Its answer becomes a thunk, or an error when gen_thunk panicked.
ReceiveCubin(w) ==
    /\ wpc[w] = "compile" /\ cubin[w] # <<>>
    /\ \E fails \in Fault : Noted(fails, Kernel(w)) /\ Goto(w, IF fails THEN "send_error" ELSE "send")
    /\ UNCHANGED <<backend, main, num, dead, jitVars, evalVars, slots, calls>>

\* A process that exited breaks the channel: compile panics, and unwinding
\* drops the JITDaemon, whose own send panics as well: the program aborts.
BrokenPipe(w) ==
    /\ wpc[w] = "compile" /\ cubin[w] = <<>> /\ jit[w] = "exited"
    /\ main' = "abort" /\ dead' = dead \cup {w} /\ Goto(w, "gone")
    /\ UNCHANGED <<backend, num, jitVars, evalVars, slots, calls, failed>>

\* MPPA: setup_kernel builds a wrapper and a kernel, takes a slot, which nobody
\* gives back, and sets the arguments.  The thread panics when the first or the
\* last of them fails, and when there is no slot.
SetupKernel(w) ==
    /\ backend = "mppa" /\ wpc[w] = "setup"
    /\ \/ /\ slots > 0 /\ slots' = slots - 1
          /\ Goto(w, "send") /\ UNCHANGED <<dead, failed>>
       \/ /\ \/ MayFail /\ Noted(TRUE, Kernel(w)) /\ UNCHANGED slots
             \/ slots = 0 /\ UNCHANGED <<slots, failed>>
             \/ MayFail /\ Noted(TRUE, Kernel(w)) /\ slots > 0 /\ slots' = slots - 1
          /\ dead' = dead \cup {w} /\ Goto(w, "leave")
    /\ UNCHANGED <<backend, main, num, jitVars, evalVars, calls>>

\* What the message carries as the kernel: the module of the cubin received.
Thunk(w) ==
    IF wpc[w] = "send_error" THEN Broken ELSE IF backend = "cuda" THEN Head(cubin[w]) ELSE Kernel(w)

\* SyncSender::send blocks on a full queue and fails without a receiver.
Send(w) ==
    /\ wpc[w] \in {"send", "send_error"}
    /\ \/ /\ epc \notin {"gone", "panic"} /\ Len(evalq) < QueueSize
          /\ evalq' = Append(evalq, <<Kernel(w), Thunk(w)>>)
          /\ Goto(w, "idle") /\ UNCHANGED dead
       \/ /\ epc \in {"gone", "panic"} /\ dead' = dead \cup {w} /\ Goto(w, "leave") /\ UNCHANGED evalq
    /\ cubin' = [cubin EXCEPT ![w] = IF @ = <<>> THEN @ ELSE Tail(@)]
    /\ UNCHANGED <<backend, main, num, ptx, jit, parent, epc, cur, slots, calls, failed>>

\* The exploration is over: the evaluator is dropped, its sender first.
Leave(w) ==
    /\ wpc[w] = "idle" /\ Goto(w, "leave")
    /\ UNCHANGED <<backend, main, num, dead, jitVars, evalVars, slots, calls, failed>>

\* JITDaemon::drop: an empty message, then waitpid.
DropEvaluator(w) ==
    /\ wpc[w] = "leave"
    /\ Goto(w, IF backend = "cuda" THEN "wait" ELSE "gone")
    /\ ptx' = [ptx EXCEPT ![w] = IF backend = "cuda" THEN Append(@, <<>>) ELSE @]
    /\ UNCHANGED <<backend, main, num, dead, cubin, jit, parent, evalVars, slots, calls, failed>>

\* waitpid fails at once for a process that is not yet a child of this one.
WaitPid(w) ==
    /\ wpc[w] = "wait"
    /\ IF parent[w] = "tmp" THEN UNCHANGED jit
       ELSE jit[w] = "exited" /\ jit' = [jit EXCEPT ![w] = "reaped"]
    /\ Goto(w, "gone")
    /\ UNCHANGED <<backend, main, num, dead, ptx, cubin, parent, evalVars, slots, calls, failed>>

-----------------------------------------------------------------------------
(* The evaluation thread.                                                   *)

EvalTake ==
    /\ epc = "idle" /\ evalq # <<>>
    /\ epc' = "call" /\ cur' = Head(evalq) /\ evalq' = Tail(evalq)
    /\ UNCHANGED <<backend, main, wpc, num, dead, jitVars, slots, calls, failed>>

\* The callback evaluates; x86 panics when the code does not compile, MPPA
\* when the execution fails, and CUDA reports both as a failed evaluation.
EvalCall ==
    /\ epc = "call" /\ cur' = <<>>
    /\ calls' = Append(calls, cur)
    /\ \E fails \in Fault :
         /\ Noted(fails, cur[1])
         /\ epc' = IF fails /\ backend \in {"x86", "mppa"} THEN "panic" ELSE "idle"
    /\ UNCHANGED <<backend, main, wpc, num, dead, jitVars, evalq, slots>>

\* Mutant of NoSender: the caller keeps its own sender while it joins.
NoSenderNever == main = "done"

\* Mutant of NoSender: the senders of the workers are forgotten.
NoSenderEarly == main \notin {"spawn", "pid"}

\* recv fails once every sender is dropped and the queue is empty.
NoSender ==
    main \notin {"spawn", "pid"} /\ \A w \in Worker : wpc[w] \in {"unborn", "wait", "gone"}

\* Mutant of Drained: messages still in the queue are forgotten.
DrainedNever == TRUE

Drained == evalq = <<>>

EvalEnd ==
    /\ epc = "idle" /\ Drained /\ NoSender
    /\ epc' = "gone"
    /\ UNCHANGED <<backend, main, wpc, num, dead, jitVars, evalq, cur, slots, calls, failed>>

-----------------------------------------------------------------------------
Main == SpawnWorker \/ ReceivePid \/ StartJoin \/ Join

Spawner == \E w \in Worker : ForkDaemon(w) \/ Reparent(w)

Explorer(w) ==
    \/ Begin(w) \/ EvaluateInPlace(w) \/ PrintCode(w) \/ SendPtx(w) \/ ReceiveCubin(w)
    \/ BrokenPipe(w) \/ SetupKernel(w) \/ Send(w) \/ Leave(w) \/ DropEvaluator(w)
    \/ WaitPid(w)

Evaluation == EvalTake \/ EvalCall \/ EvalEnd

\* An abort stops the threads of the program; the other processes go on.
Thread(A) == main # "abort" /\ A

Next ==
    \/ Thread(Main) \/ Thread(Evaluation)
    \/ \E w \in Worker : Thread(Explorer(w)) \/ Daemon(w)
    \/ Spawner

\* Every thread and process that can run does.
Fairness ==
    /\ WF_vars(Thread(Main)) /\ WF_vars(Thread(Evaluation)) /\ WF_vars(Spawner)
    /\ \A w \in Worker : WF_vars(Thread(Explorer(w))) /\ WF_vars(Daemon(w))

Spec == Init /\ [][Next]_vars /\ Fairness

-----------------------------------------------------------------------------
(***************************************************************************)
(* A callback gets the kernel compiled from its own candidate (or the      *)
(* error that stands for it), no candidate is evaluated twice, and when    *)
(* async_eval returns none was left in a queue or in a JIT process.        *)
(***************************************************************************)
OwnKernel ==
    /\ \A i \in DOMAIN calls :
         /\ calls[i][2] \in {calls[i][1], Broken}
         /\ \A j \in DOMAIN calls : calls[i][1] = calls[j][1] => i = j
    /\ main = "done" => \A w \in Worker : \A n \in 1 .. num[w] :
                          \E i \in DOMAIN calls : calls[i][1] = <<w, n>>

(***************************************************************************)
(* As long as no compilation and no execution fails, no thread panics: the *)
(* queue is open to whoever sends, and a JIT process that exits is one     *)
(* nobody waits for an answer of.  On MPPA this holds up to as many        *)
(* kernels as there are write-back slots; the next one finds none.         *)
(***************************************************************************)
Begun == {k \in Worker \X (1 .. MaxKernels) : k[2] <= num[k[1]]}
SoundToolsNeverPanic ==
    failed = {} /\ (backend = "mppa" => Cardinality(Begun) <= Slots) => dead = {} /\ epc # "panic"

(***************************************************************************)
(* Whatever fails, async_eval ends, by returning, panicking or aborting,   *)
(* and leaves no JIT process behind.                                       *)
(***************************************************************************)
EvaluationEnds == <>[](~Running /\ \A w \in Worker : Exited(w))

=============================================================================
