-------------------------- MODULE EvalBackendProofs --------------------------
(***************************************************************************)
(* The evaluation queues for any number of explorer threads and kernels,   *)
(* any queue size and any number of write-back slots.                      *)
(***************************************************************************)
EXTENDS EvalBackend, FiniteSetTheorems, WellFoundedInduction, TLAPS

-----------------------------------------------------------------------------
(* Types, and the stages of the program.                                    *)

KernelId == Worker \X Nat
Message == KernelId \X (KernelId \cup {Broken})

WorkerPlace ==
    {"unborn", "idle", "setup", "compile", "send", "send_error", "leave", "wait", "gone"}

\* A worker never leaves the birth stage before the queue is read, or not at all.
StageInv ==
    /\ num \in [Worker -> Nat] /\ wpc \in [Worker -> WorkerPlace]
    /\ DOMAIN ptx = Worker /\ DOMAIN cubin = Worker /\ DOMAIN jit = Worker
    /\ slots \in Nat
    /\ epc \in {"unborn", "idle", "call", "gone", "panic"}
    /\ main \in {"spawn", "pid", "join", "done", "panic", "abort"}
    /\ backend = "fake" => epc = "gone" /\ evalq = <<>>
    /\ backend # "fake" /\ epc # "unborn" =>
         main \notin {"spawn", "pid"} /\ \A w \in Worker : wpc[w] # "unborn"
    /\ backend # "fake" /\ epc = "gone" => \A w \in Worker : wpc[w] \in {"wait", "gone"}
    /\ epc \in {"unborn", "idle", "call"} /\ main # "abort" => main \in {"spawn", "pid", "join"}
    /\ main = "pid" => backend = "cuda"
    /\ main = "pid" \/ (backend = "fake" /\ main = "spawn") => \E w \in Worker : wpc[w] = "unborn"
    /\ \A w \in Worker :
         /\ wpc[w] = "compile" => backend = "cuda"
         /\ wpc[w] = "send_error" => backend = "cuda"
         /\ wpc[w] = "send" => backend # "fake"

-----------------------------------------------------------------------------
(* Where a kernel is.                                                       *)

Working == {"setup", "compile", "send", "send_error"}

\* How many kernels have left each worker.
Sent == [w \in Worker |-> IF wpc[w] \in Working THEN num[w] - 1 ELSE num[w]]

\* The JIT process of worker w works on one kernel at a time.
PipeInv(w) ==
    /\ wpc[w] \in {"unborn", "idle", "setup", "leave"} => ptx[w] = <<>> /\ cubin[w] = <<>>
    /\ wpc[w] = "compile" => \/ ptx[w] = <<Kernel(w)>> /\ cubin[w] = <<>>
                             \/ ptx[w] = <<>> /\ cubin[w] \in {<<>>, <<Kernel(w)>>}
    /\ wpc[w] \in {"send", "send_error"} =>
         ptx[w] = <<>> /\ cubin[w] = (IF backend = "cuda" THEN <<Kernel(w)>> ELSE <<>>)
    /\ wpc[w] \in Working => num[w] > 0

\* Message m is about one of the first sent[w] kernels of its worker w.
Own(m, sent) == m[1][2] \in 1 .. sent[m[1][1]] /\ m[2] \in {m[1], Broken}

\* Kernel c is in a sequence of messages.
In(c, q) == \E i \in 1 .. Len(q) : q[i][1] = c

\* The evaluation thread is about to run kernel c.
Held(c) == cur # <<>> /\ cur[1] = c

TokenInv ==
    /\ evalq \in Seq(Message) /\ calls \in Seq(Message) /\ cur \in Message \cup {<<>>}
    /\ \A i \in 1 .. Len(evalq) : Own(evalq[i], Sent)
    /\ \A i \in 1 .. Len(calls) : Own(calls[i], Sent)
    /\ cur # <<>> => Own(cur, Sent)
    /\ cur # <<>> <=> epc = "call"
    /\ \A i, j \in 1 .. Len(evalq) : evalq[i][1] = evalq[j][1] => i = j
    /\ \A i, j \in 1 .. Len(calls) : calls[i][1] = calls[j][1] => i = j
    /\ \A i \in 1 .. Len(evalq) : ~In(evalq[i][1], calls)
    /\ cur # <<>> => ~In(cur[1], calls) /\ ~In(cur[1], evalq)
    /\ epc = "gone" => evalq = <<>>
    /\ \A w \in Worker \ dead : \A n \in 1 .. Sent[w] :
         In(<<w, n>>, calls) \/ Held(<<w, n>>) \/ In(<<w, n>>, evalq)

OwnInv == (\A w \in Worker : PipeInv(w)) /\ TokenInv

EndInv == main = "done" => /\ dead = {} /\ evalq = <<>> /\ cur = <<>>
                           /\ \A w \in Worker : wpc[w] \in {"unborn", "gone"}

-----------------------------------------------------------------------------
(* Why a thread panics.                                                     *)

InSetup == {w \in Worker : wpc[w] = "setup"}

\* A slot that is gone went to one of the kernels begun, and not to one that
\* is still being set up.
SlotInv == backend = "mppa" => Slots + Cardinality(InSetup) <= slots + Cardinality(Begun)

\* A JIT process exits after a failure, or when its worker has asked it to.
JitInv ==
    /\ main = "abort" => failed # {}
    /\ \A w \in Worker : jit[w] \in {"exited", "reaped"} => failed # {} \/ wpc[w] \in {"wait", "gone"}

CauseInv == SlotInv /\ JitInv /\ SoundToolsNeverPanic

-----------------------------------------------------------------------------
LEMMA LeastNatural ==
    ASSUME NEW S \in SUBSET Nat, S # {}
    PROVE  Min(S) \in S
<1>1. IsWellFoundedOn(OpToRel(<, Nat), Nat)
  BY NatLessThanWellFounded
<1>2. PICK n \in S : \A m \in S : ~(<<m, n>> \in OpToRel(<, Nat))
  BY <1>1, WFMin
<1>3. \A m \in S : ~(m < n)
  BY <1>2 DEF OpToRel
<1>4. \A m \in S : n <= m
  BY <1>3
<1>. QED
  BY <1>4 DEF Min

LEMMA NextUnborn ==
    ASSUME Unborn # {}
    PROVE  Min(Unborn) \in Worker /\ wpc[Min(Unborn)] = "unborn"
  BY LeastNatural, BackendAssumption DEF Unborn

(***************************************************************************)
(* What a step of an explorer thread leaves to the others.                 *)
(***************************************************************************)
Keeps(w) ==
    /\ \A v \in Worker \ {w} : /\ wpc'[v] = wpc[v] /\ num'[v] = num[v]
                               /\ ptx'[v] = ptx[v] /\ cubin'[v] = cubin[v]
    /\ dead' \in {dead, dead \cup {w}} /\ backend' = backend /\ epc' = epc /\ cur' = cur

LEMMA ExplorerKeeps ==
    ASSUME StageInv, NEW w \in Worker, Explorer(w)
    PROVE  Keeps(w)
<1>. USE DEF StageInv, Keeps, Goto, jitVars, evalVars
<1>1. CASE Begin(w)
  BY <1>1 DEF Begin
<1>2. CASE EvaluateInPlace(w)
  BY <1>2 DEF EvaluateInPlace
<1>3. CASE PrintCode(w)
  BY <1>3 DEF PrintCode
<1>4. CASE SendPtx(w)
  BY <1>4 DEF SendPtx
<1>5. CASE ReceiveCubin(w)
  BY <1>5 DEF ReceiveCubin
<1>6. CASE BrokenPipe(w)
  BY <1>6 DEF BrokenPipe
<1>7. CASE SetupKernel(w)
  BY <1>7 DEF SetupKernel
<1>8. CASE Send(w)
  BY <1>8 DEF Send
<1>9. CASE Leave(w)
  BY <1>9 DEF Leave
<1>10. CASE DropEvaluator(w)
  BY <1>10 DEF DropEvaluator
<1>11. CASE WaitPid(w)
  BY <1>11 DEF WaitPid
<1>. QED
  BY <1>1, <1>2, <1>3, <1>4, <1>5, <1>6, <1>7, <1>8, <1>9, <1>10, <1>11 DEF Explorer

-----------------------------------------------------------------------------
LEMMA StageInit == Init => StageInv
  BY BackendAssumption DEF Init, StageInv, WorkerPlace

LEMMA StageExplorer ==
    ASSUME StageInv, NEW w \in Worker, Explorer(w), main # "abort"
    PROVE  StageInv'
<1>. USE DEF StageInv, Goto, jitVars, evalVars, WorkerPlace
<1>1. CASE Begin(w)
  BY <1>1 DEF Begin
<1>2. CASE EvaluateInPlace(w)
  BY <1>2 DEF EvaluateInPlace
<1>3. CASE PrintCode(w)
  BY <1>3 DEF PrintCode
<1>4. CASE SendPtx(w)
  BY <1>4 DEF SendPtx
<1>5. CASE ReceiveCubin(w)
  <2>1. wpc' = [wpc EXCEPT ![w] = "send"] \/ wpc' = [wpc EXCEPT ![w] = "send_error"]
    BY <1>5 DEF ReceiveCubin
  <2>. QED
    BY <1>5, <2>1 DEF ReceiveCubin
<1>6. CASE BrokenPipe(w)
  BY <1>6 DEF BrokenPipe
<1>7. CASE SetupKernel(w)
  <2>1. wpc' = [wpc EXCEPT ![w] = "send"] \/ wpc' = [wpc EXCEPT ![w] = "leave"]
    BY <1>7 DEF SetupKernel
  <2>2. slots' \in Nat
    <3>1. slots' = slots \/ (slots > 0 /\ slots' = slots - 1)
      BY <1>7 DEF SetupKernel
    <3>2. slots \in Nat
      OBVIOUS
    <3>. QED
      BY <3>1, <3>2
  <2>. QED
    BY <1>7, <2>1, <2>2 DEF SetupKernel
<1>8. CASE Send(w)
  <2>1. wpc' = [wpc EXCEPT ![w] = "idle"] \/ wpc' = [wpc EXCEPT ![w] = "leave"]
    BY <1>8 DEF Send
  <2>2. backend # "fake"
    BY <1>8 DEF Send
  <2>3. epc # "gone"
    BY <1>8, <2>2 DEF Send
  <2>. QED
    BY <1>8, <2>1, <2>2, <2>3 DEF Send
<1>9. CASE Leave(w)
  BY <1>9 DEF Leave
<1>10. CASE DropEvaluator(w)
  <2>1. wpc' = [wpc EXCEPT ![w] = "wait"] \/ wpc' = [wpc EXCEPT ![w] = "gone"]
    BY <1>10 DEF DropEvaluator
  <2>. QED
    BY <1>10, <2>1 DEF DropEvaluator
<1>11. CASE WaitPid(w)
  BY <1>11 DEF WaitPid
<1>. QED
  BY <1>1, <1>2, <1>3, <1>4, <1>5, <1>6, <1>7, <1>8, <1>9, <1>10, <1>11 DEF Explorer

LEMMA StageStep == StageInv /\ [Next]_vars => StageInv'
<1>. SUFFICES ASSUME StageInv, [Next]_vars PROVE StageInv'
  OBVIOUS
<1>. USE DEF StageInv, Goto, jitVars, evalVars, WorkerPlace
<1>1. CASE SpawnWorker
  BY <1>1, NextUnborn DEF SpawnWorker
<1>2. CASE ReceivePid
  BY <1>2 DEF ReceivePid
<1>3. CASE StartJoin
  BY <1>3 DEF StartJoin, Unborn
<1>4. CASE Join
  BY <1>4 DEF Join
<1>5. CASE EvalTake
  BY <1>5 DEF EvalTake
<1>6. CASE EvalCall
  BY <1>6 DEF EvalCall
<1>7. CASE EvalEnd
  BY <1>7 DEF EvalEnd, NoSender
<1>8. ASSUME NEW w \in Worker, Thread(Explorer(w)) PROVE StageInv'
  BY <1>8, StageExplorer DEF Thread
<1>9. ASSUME NEW w \in Worker, Daemon(w) PROVE StageInv'
  BY <1>9 DEF Daemon
<1>10. ASSUME NEW w \in Worker, ForkDaemon(w) \/ Reparent(w) PROVE StageInv'
  BY <1>10 DEF ForkDaemon, Reparent
<1>11. CASE UNCHANGED vars
  BY <1>11 DEF vars
<1>. QED
  BY <1>1, <1>2, <1>3, <1>4, <1>5, <1>6, <1>7, <1>8, <1>9, <1>10, <1>11
     DEF Next, Thread, Main, Evaluation, Spawner

-----------------------------------------------------------------------------
(* Every kernel is in one place.                                            *)

LEMMA SingletonFacts == \A x : Tail(<<x>>) = <<>> /\ Append(<<>>, x) = <<x>>
  OBVIOUS

LEMMA MessageIsSome == \A m \in Message : m # <<>>
<1>. SUFFICES ASSUME NEW a \in KernelId, NEW b \in KernelId \cup {Broken} PROVE <<a, b>> # <<>>
  BY DEF Message
<1>. QED
  OBVIOUS

LEMMA SentNat ==
    ASSUME StageInv, OwnInv
    PROVE  Sent \in [Worker -> Nat]
  BY DEF StageInv, OwnInv, PipeInv, Sent

LEMMA OwnKept ==
    ASSUME NEW s \in [Worker -> Nat], NEW r \in [Worker -> Nat],
           \A w \in Worker : s[w] <= r[w], NEW m \in Message, Own(m, s)
    PROVE  Own(m, r)
<1>1. m[1][1] \in Worker /\ m[1][2] \in Nat
  BY DEF Message, KernelId
<1>. QED
  BY <1>1 DEF Own

(***************************************************************************)
(* Messages that stay where they are, while workers send or fail.          *)
(***************************************************************************)
LEMMA TokenFrame ==
    ASSUME StageInv, OwnInv, UNCHANGED <<evalq, calls, cur>>, epc' = "call" <=> epc = "call",
           epc' = "gone" => evalq = <<>>, dead \subseteq dead', Sent' \in [Worker -> Nat],
           \A v \in Worker : /\ Sent[v] <= Sent'[v]
                             /\ v \in dead' \/ Sent'[v] = Sent[v]
    PROVE  TokenInv'
<1>1. TokenInv
  BY DEF OwnInv
<1>2. \A m \in Message : Own(m, Sent) => Own(m, Sent')
  BY SentNat, OwnKept
<1>3. /\ \A i \in 1 .. Len(evalq) : Own(evalq[i], Sent')
      /\ \A i \in 1 .. Len(calls) : Own(calls[i], Sent')
      /\ cur # <<>> => Own(cur, Sent')
  BY <1>1, <1>2 DEF TokenInv
<1>4. \A w \in Worker \ dead' : \A n \in 1 .. Sent'[w] :
         In(<<w, n>>, calls') \/ Held(<<w, n>>)' \/ In(<<w, n>>, evalq')
  BY <1>1 DEF TokenInv, Held
<1>. QED
  BY <1>1, <1>3, <1>4 DEF TokenInv

LEMMA OwnInit == Init => OwnInv
<1>. SUFFICES ASSUME Init PROVE OwnInv
  OBVIOUS
<1>1. \A w \in Worker : PipeInv(w)
  BY DEF Init, PipeInv, Working
<1>2. \A w \in Worker : Sent[w] = 0
  BY DEF Init, Sent, Working
<1>3. evalq = <<>> /\ calls = <<>> /\ cur = <<>> /\ epc # "call"
  BY DEF Init
<1>4. TokenInv
  BY <1>2, <1>3 DEF TokenInv, In
<1>. QED
  BY <1>1, <1>4 DEF OwnInv

(***************************************************************************)
(* A kernel that leaves its worker is new to the queue and the callbacks.  *)
(***************************************************************************)
LEMMA KernelIsNew ==
    ASSUME StageInv, OwnInv, NEW w \in Worker, wpc[w] \in Working
    PROVE  /\ Kernel(w) \in KernelId /\ num[w] \in Nat \ {0} /\ Sent[w] = num[w] - 1
           /\ ~In(Kernel(w), calls) /\ ~Held(Kernel(w)) /\ ~In(Kernel(w), evalq)
<1>1. Kernel(w) \in KernelId /\ num[w] \in Nat /\ num[w] > 0 /\ Sent[w] = num[w] - 1
  BY DEF StageInv, OwnInv, PipeInv, Sent, Kernel, KernelId
<1>2. ASSUME NEW m \in Message, Own(m, Sent) PROVE m[1] # Kernel(w)
  <2>1. m[1] = Kernel(w) => m[1][1] = w /\ m[1][2] = num[w]
    BY DEF Kernel
  <2>. QED
    BY <1>1, <1>2, <2>1 DEF Own
<1>. QED
  BY <1>1, <1>2 DEF OwnInv, TokenInv, In, Held

(***************************************************************************)
(* Appending a message about a new kernel to a sequence without it.        *)
(***************************************************************************)
LEMMA AppendNew ==
    ASSUME NEW s \in Seq(Message), NEW m \in Message, ~In(m[1], s),
           \A i, j \in 1 .. Len(s) : s[i][1] = s[j][1] => i = j
    PROVE  /\ Append(s, m) \in Seq(Message)
           /\ \A i, j \in 1 .. Len(Append(s, m)) :
                Append(s, m)[i][1] = Append(s, m)[j][1] => i = j
           /\ \A c : In(c, Append(s, m)) <=> In(c, s) \/ c = m[1]
           /\ \A i \in 1 .. Len(Append(s, m)) :
                Append(s, m)[i] = m \/ \E j \in 1 .. Len(s) : Append(s, m)[i] = s[j]
<1>. DEFINE a == Append(s, m)
<1>1. /\ a \in Seq(Message) /\ Len(a) = Len(s) + 1 /\ a[Len(s) + 1] = m /\ Len(s) \in Nat
      /\ \A i \in 1 .. Len(s) : a[i] = s[i]
  OBVIOUS
<1>2. \A i \in 1 .. Len(s) : s[i][1] # m[1]
  BY DEF In
<1>. HIDE DEF a
<1>3. \A i, j \in 1 .. Len(a) : a[i][1] = a[j][1] => i = j
  BY <1>1, <1>2
<1>4. \A c : In(c, a) <=> In(c, s) \/ c = m[1]
  BY <1>1 DEF In
<1>5. \A i \in 1 .. Len(a) : a[i] = m \/ \E j \in 1 .. Len(s) : a[i] = s[j]
  BY <1>1
<1>. QED
  BY <1>1, <1>3, <1>4, <1>5 DEF a

LEMMA SendToken ==
    ASSUME StageInv, OwnInv, NEW w \in Worker, wpc[w] \in Working, epc # "gone",
           NEW m \in Message, m[1] = Kernel(w), m[2] \in {m[1], Broken},
           evalq' = Append(evalq, m), UNCHANGED <<calls, cur, epc, dead>>,
           Sent' \in [Worker -> Nat],
           Sent'[w] = num[w], \A v \in Worker \ {w} : Sent'[v] = Sent[v]
    PROVE  TokenInv'
<1>t. TokenInv /\ evalq \in Seq(Message)
  BY DEF OwnInv, TokenInv
<1>1. /\ Kernel(w) \in KernelId /\ num[w] \in Nat \ {0} /\ Sent[w] = num[w] - 1
      /\ ~In(Kernel(w), calls) /\ ~Held(Kernel(w)) /\ ~In(Kernel(w), evalq)
  BY KernelIsNew
<1>2. /\ evalq' \in Seq(Message)
      /\ \A i, j \in 1 .. Len(evalq') : evalq'[i][1] = evalq'[j][1] => i = j
      /\ \A c : In(c, evalq') <=> In(c, evalq) \/ c = Kernel(w)
      /\ \A i \in 1 .. Len(evalq') : evalq'[i] = m \/ \E j \in 1 .. Len(evalq) : evalq'[i] = evalq[j]
  BY <1>t, <1>1, AppendNew DEF TokenInv
<1>3. \A v \in Worker : Sent[v] <= Sent'[v]
  BY <1>1, SentNat
<1>4. \A x \in Message : Own(x, Sent) => Own(x, Sent')
  BY <1>3, SentNat, OwnKept
<1>5. Own(m, Sent')
  BY <1>1 DEF Own, Kernel
<1>6. /\ \A i \in 1 .. Len(evalq') : Own(evalq'[i], Sent')
      /\ \A i \in 1 .. Len(calls) : Own(calls[i], Sent')
      /\ cur # <<>> => Own(cur, Sent')
  BY <1>t, <1>2, <1>4, <1>5 DEF TokenInv
<1>7. \A v \in Worker \ dead' : \A n \in 1 .. Sent'[v] :
         In(<<v, n>>, calls') \/ Held(<<v, n>>)' \/ In(<<v, n>>, evalq')
  <2>. SUFFICES ASSUME NEW v \in Worker \ dead, NEW n \in 1 .. Sent'[v]
                PROVE  In(<<v, n>>, calls) \/ Held(<<v, n>>) \/ In(<<v, n>>, evalq')
    BY DEF Held
  <2>1. n \in 1 .. Sent[v] \/ <<v, n>> = Kernel(w)
    BY <1>1 DEF Kernel
  <2>. QED
    BY <1>t, <1>2, <2>1 DEF TokenInv
<1>8. \A i \in 1 .. Len(evalq') : ~In(evalq'[i][1], calls)
  BY <1>t, <1>1, <1>2 DEF TokenInv
<1>9. cur # <<>> => ~In(cur[1], calls) /\ ~In(cur[1], evalq')
  BY <1>t, <1>1, <1>2 DEF TokenInv, Held
<1>. QED
  BY <1>t, <1>2, <1>6, <1>7, <1>8, <1>9 DEF TokenInv

LEMMA CallToken ==
    ASSUME StageInv, OwnInv, NEW w \in Worker, wpc[w] \in Working, cur = <<>>, evalq = <<>>,
           NEW m \in Message, m[1] = Kernel(w), m[2] = m[1],
           calls' = Append(calls, m), UNCHANGED <<evalq, cur, epc, dead>>,
           Sent' \in [Worker -> Nat],
           Sent'[w] = num[w], \A v \in Worker \ {w} : Sent'[v] = Sent[v]
    PROVE  TokenInv'
<1>t. TokenInv /\ calls \in Seq(Message)
  BY DEF OwnInv, TokenInv
<1>1. /\ Kernel(w) \in KernelId /\ num[w] \in Nat \ {0} /\ Sent[w] = num[w] - 1
      /\ ~In(Kernel(w), calls)
  BY KernelIsNew
<1>2. /\ calls' \in Seq(Message)
      /\ \A i, j \in 1 .. Len(calls') : calls'[i][1] = calls'[j][1] => i = j
      /\ \A c : In(c, calls') <=> In(c, calls) \/ c = Kernel(w)
      /\ \A i \in 1 .. Len(calls') : calls'[i] = m \/ \E j \in 1 .. Len(calls) : calls'[i] = calls[j]
  BY <1>t, <1>1, AppendNew DEF TokenInv
<1>3. \A v \in Worker : Sent[v] <= Sent'[v]
  BY <1>1, SentNat
<1>4. \A x \in Message : Own(x, Sent) => Own(x, Sent')
  BY <1>3, SentNat, OwnKept
<1>5. Own(m, Sent')
  BY <1>1 DEF Own, Kernel
<1>6. \A i \in 1 .. Len(calls') : Own(calls'[i], Sent')
  BY <1>t, <1>2, <1>4, <1>5 DEF TokenInv
<1>e. \A c : ~Held(c) /\ ~In(c, evalq)
  BY DEF Held, In
<1>7. \A v \in Worker \ dead' : \A n \in 1 .. Sent'[v] : In(<<v, n>>, calls')
  <2>. SUFFICES ASSUME NEW v \in Worker \ dead, NEW n \in 1 .. Sent'[v]
                PROVE  In(<<v, n>>, calls')
    OBVIOUS
  <2>1. n \in 1 .. Sent[v] \/ <<v, n>> = Kernel(w)
    BY <1>1 DEF Kernel
  <2>. QED
    BY <1>t, <1>2, <1>e, <2>1 DEF TokenInv
<1>8. evalq' = <<>> /\ cur' = <<>> /\ epc' = epc
  OBVIOUS
<1>. QED
  BY <1>t, <1>2, <1>6, <1>7, <1>8 DEF TokenInv

LEMMA TakeToken ==
    ASSUME StageInv, OwnInv, EvalTake
    PROVE  TokenInv'
<1>t. TokenInv /\ evalq \in Seq(Message) /\ evalq # <<>> /\ cur = <<>>
  BY DEF OwnInv, TokenInv, EvalTake
<1>1. /\ evalq' \in Seq(Message) /\ Len(evalq) = Len(evalq') + 1 /\ Len(evalq') \in Nat
      /\ cur' = evalq[1] /\ cur' \in Message
      /\ \A i \in 1 .. Len(evalq') : i + 1 \in 1 .. Len(evalq) /\ evalq'[i] = evalq[i + 1]
      /\ 1 \in 1 .. Len(evalq)
  BY <1>t DEF EvalTake
<1>2. /\ UNCHANGED <<calls, dead>> /\ epc' = "call" /\ Sent' = Sent
  BY DEF EvalTake, Sent, jitVars
<1>3. cur' # <<>>
  BY <1>1, MessageIsSome
<1>4. \A c : In(c, evalq) => c = cur'[1] \/ In(c, evalq')
  <2>. SUFFICES ASSUME NEW c, NEW i \in 1 .. Len(evalq), evalq[i][1] = c, i # 1
                PROVE  In(c, evalq')
    BY <1>1 DEF In
  <2>1. i - 1 \in 1 .. Len(evalq') /\ evalq'[i - 1] = evalq[i]
    BY <1>1
  <2>. QED
    BY <2>1 DEF In
<1>5. \A i \in 1 .. Len(evalq') : evalq'[i][1] # cur'[1]
  <2>1. \A k, l \in 1 .. Len(evalq) : evalq[k][1] = evalq[l][1] => k = l
    BY <1>t DEF TokenInv
  <2>. QED
    BY <1>1, <2>1
<1>6. ~In(cur'[1], evalq') /\ ~In(cur'[1], calls)
  BY <1>t, <1>1, <1>5 DEF TokenInv, In
<1>7. /\ \A i \in 1 .. Len(evalq') : Own(evalq'[i], Sent)
      /\ Own(cur', Sent)
      /\ \A i \in 1 .. Len(evalq') : ~In(evalq'[i][1], calls)
  <2>1. \A i \in 1 .. Len(evalq) : Own(evalq[i], Sent) /\ ~In(evalq[i][1], calls)
    BY <1>t DEF TokenInv
  <2>. QED
    BY <1>1, <2>1
<1>8. \A i, j \in 1 .. Len(evalq') : evalq'[i][1] = evalq'[j][1] => i = j
  <2>. SUFFICES ASSUME NEW i \in 1 .. Len(evalq'), NEW j \in 1 .. Len(evalq'),
                       evalq'[i][1] = evalq'[j][1]
                PROVE  i = j
    OBVIOUS
  <2>1. \A k, l \in 1 .. Len(evalq) : evalq[k][1] = evalq[l][1] => k = l
    BY <1>t DEF TokenInv
  <2>2. i + 1 = j + 1
    BY <1>1, <2>1
  <2>. QED
    BY <2>2
<1>9. \A w \in Worker \ dead : \A n \in 1 .. Sent[w] :
         In(<<w, n>>, calls) \/ Held(<<w, n>>)' \/ In(<<w, n>>, evalq')
  BY <1>t, <1>3, <1>4 DEF TokenInv, Held
<1>. QED
  BY <1>t, <1>1, <1>2, <1>3, <1>6, <1>7, <1>8, <1>9 DEF TokenInv

LEMMA RunToken ==
    ASSUME StageInv, OwnInv, EvalCall
    PROVE  TokenInv'
<1>t. TokenInv /\ calls \in Seq(Message) /\ cur # <<>> /\ cur \in Message
  BY DEF OwnInv, TokenInv, EvalCall
<1>1. /\ calls' = Append(calls, cur) /\ cur' = <<>> /\ epc' \in {"idle", "panic"}
      /\ UNCHANGED <<evalq, dead>> /\ Sent' = Sent
  BY DEF EvalCall, Sent, jitVars
<1>2. /\ calls' \in Seq(Message)
      /\ \A i, j \in 1 .. Len(calls') : calls'[i][1] = calls'[j][1] => i = j
      /\ \A c : In(c, calls') <=> In(c, calls) \/ c = cur[1]
      /\ \A i \in 1 .. Len(calls') : calls'[i] = cur \/ \E j \in 1 .. Len(calls) : calls'[i] = calls[j]
  <2>1. /\ calls \in Seq(Message) /\ cur \in Message /\ ~In(cur[1], calls)
        /\ \A i, j \in 1 .. Len(calls) : calls[i][1] = calls[j][1] => i = j
    BY <1>t, <1>1 DEF TokenInv
  <2>. QED
    BY <1>1, <2>1, AppendNew
<1>3. \A i \in 1 .. Len(calls') : Own(calls'[i], Sent)
  BY <1>t, <1>2 DEF TokenInv
<1>4. \A i \in 1 .. Len(evalq) : ~In(evalq[i][1], calls')
  BY <1>t, <1>2 DEF TokenInv, In
<1>5. \A w \in Worker \ dead : \A n \in 1 .. Sent[w] :
         In(<<w, n>>, calls') \/ In(<<w, n>>, evalq)
  BY <1>t, <1>2 DEF TokenInv, Held
<1>. QED
  BY <1>t, <1>1, <1>2, <1>3, <1>4, <1>5 DEF TokenInv

LEMMA OwnExplorer ==
    ASSUME StageInv, StageInv', OwnInv, NEW w \in Worker, Explorer(w), main # "abort"
    PROVE  OwnInv'
<1>t. Keeps(w) /\ TokenInv /\ PipeInv(w)
  BY ExplorerKeeps DEF OwnInv
<1>s. /\ wpc'[w] \in WorkerPlace /\ num'[w] \in Nat /\ num[w] \in Nat
      /\ DOMAIN wpc = Worker /\ DOMAIN num = Worker
      /\ DOMAIN ptx = Worker /\ DOMAIN cubin = Worker
  BY DEF StageInv
<1>f. \A x : /\ [wpc EXCEPT ![w] = x][w] = x /\ [num EXCEPT ![w] = x][w] = x
            /\ [ptx EXCEPT ![w] = x][w] = x /\ [cubin EXCEPT ![w] = x][w] = x
  BY <1>s
<1>1. \A v \in Worker \ {w} : PipeInv(v)'
  BY <1>t DEF OwnInv, PipeInv, Keeps, Kernel
<1>2. \A v \in Worker \ {w} : Sent'[v] = Sent[v]
  BY <1>t DEF Sent, Keeps
<1>3. /\ Sent[w] = (IF wpc[w] \in Working THEN num[w] - 1 ELSE num[w])
      /\ Sent'[w] = (IF wpc'[w] \in Working THEN num'[w] - 1 ELSE num'[w])
  BY DEF Sent
<1>4. ASSUME PipeInv(w)' PROVE Sent' \in [Worker -> Nat]
  <2>1. \A v \in Worker : /\ num'[v] \in Nat
                          /\ wpc'[v] \in Working => num'[v] > 0
    BY <1>1, <1>4 DEF StageInv, PipeInv
  <2>. QED
    BY <2>1 DEF Sent
<1>a. ASSUME PipeInv(w)', UNCHANGED <<evalq, calls, cur>>, Sent[w] <= Sent'[w],
             w \in dead' \/ Sent'[w] = Sent[w]
      PROVE  OwnInv'
  <2>1. \A v \in Worker : Sent[v] <= Sent'[v] /\ (v \in dead' \/ Sent'[v] = Sent[v])
    BY <1>2, <1>a, SentNat
  <2>2. TokenInv'
    BY <1>t, <1>4, <1>a, <2>1, TokenFrame DEF Keeps, TokenInv
  <2>. QED
    BY <1>1, <1>a, <2>2 DEF OwnInv
<1>. USE DEF Goto, jitVars, evalVars
<1>5. CASE Begin(w)
  <2>1. wpc'[w] = "setup" /\ num'[w] = num[w] + 1 /\ wpc[w] = "idle" /\ ptx' = ptx /\ cubin' = cubin
    BY <1>5, <1>f DEF Begin
  <2>2. PipeInv(w)' /\ Sent'[w] = Sent[w]
    BY <1>t, <1>s, <1>3, <2>1 DEF PipeInv, Working
  <2>. QED
    BY <1>5, <1>a, <1>s, <1>3, <2>1, <2>2, SentNat DEF Begin, Working
<1>6. CASE EvaluateInPlace(w)
  <2>1. /\ wpc'[w] = "idle" /\ num' = num /\ wpc[w] = "setup" /\ ptx' = ptx /\ cubin' = cubin
        /\ epc = "gone" /\ evalq = <<>> /\ UNCHANGED <<evalq, cur, epc, dead>>
        /\ calls' = Append(calls, <<Kernel(w), Kernel(w)>>)
    BY <1>6, <1>f DEF EvaluateInPlace, StageInv
  <2>2. PipeInv(w)' /\ Sent'[w] = num[w] /\ cur = <<>>
    BY <1>t, <1>s, <1>3, <2>1 DEF PipeInv, Working, TokenInv
  <2>3. wpc[w] \in Working
    BY <2>1 DEF Working
  <2>4. PICK m \in Message : m = <<Kernel(w), Kernel(w)>>
    BY <2>3, KernelIsNew DEF Message
  <2>5. m[1] = Kernel(w) /\ m[2] = m[1]
    BY <2>4
  <2>6. TokenInv'
    BY <1>2, <1>4, <2>1, <2>2, <2>3, <2>4, <2>5, CallToken
  <2>. QED
    BY <1>1, <2>2, <2>6 DEF OwnInv
<1>7. CASE PrintCode(w)
  <2>1. /\ wpc'[w] = "send" /\ num' = num /\ wpc[w] = "setup" /\ ptx' = ptx /\ cubin' = cubin
        /\ backend = "x86" /\ backend' = backend
    BY <1>7, <1>f DEF PrintCode
  <2>2. PipeInv(w)' /\ Sent'[w] = Sent[w]
    BY <1>t, <1>s, <1>3, <2>1 DEF PipeInv, Working
  <2>. QED
    BY <1>7, <1>a, <2>2, SentNat DEF PrintCode
<1>8. CASE SendPtx(w)
  <2>1. /\ wpc'[w] = "compile" /\ num' = num /\ wpc[w] = "setup"
        /\ ptx'[w] = Append(ptx[w], Kernel(w)) /\ cubin' = cubin
    BY <1>8, <1>f DEF SendPtx
  <2>2. ptx[w] = <<>> /\ cubin[w] = <<>>
    BY <1>t, <2>1 DEF PipeInv
  <2>3. ptx'[w] = <<Kernel(w)>> /\ Kernel(w)' = Kernel(w)
    BY <2>1, <2>2 DEF Kernel
  <2>4. PipeInv(w)' /\ Sent'[w] = Sent[w]
    BY <1>t, <1>s, <1>3, <2>1, <2>2, <2>3 DEF PipeInv, Working
  <2>. QED
    BY <1>8, <1>a, <2>4, SentNat DEF SendPtx
<1>9. CASE ReceiveCubin(w)
  <2>1. /\ wpc'[w] \in {"send", "send_error"} /\ num' = num /\ wpc[w] = "compile"
        /\ ptx' = ptx /\ cubin' = cubin /\ cubin[w] # <<>> /\ backend = "cuda" /\ backend' = backend
    BY <1>9, <1>f DEF ReceiveCubin, StageInv
  <2>2. Kernel(w)' = Kernel(w)
    BY <2>1 DEF Kernel
  <2>3. PipeInv(w)' /\ Sent'[w] = Sent[w]
    BY <1>t, <1>s, <1>3, <2>1, <2>2 DEF PipeInv, Working
  <2>. QED
    BY <1>9, <1>a, <2>3, SentNat DEF ReceiveCubin
<1>10. CASE BrokenPipe(w)
  <2>1. /\ wpc'[w] = "gone" /\ num' = num /\ wpc[w] = "compile" /\ w \in dead'
        /\ UNCHANGED <<evalq, calls, cur>>
    BY <1>10, <1>f DEF BrokenPipe
  <2>2. PipeInv(w)' /\ Sent'[w] = num[w] /\ Sent[w] = num[w] - 1
    BY <1>s, <1>3, <2>1 DEF PipeInv, Working
  <2>. QED
    BY <1>a, <1>s, <2>1, <2>2
<1>11. CASE SetupKernel(w)
  <2>1. /\ num' = num /\ wpc[w] = "setup" /\ ptx' = ptx /\ cubin' = cubin
        /\ backend = "mppa" /\ backend' = backend /\ UNCHANGED <<evalq, calls, cur>>
    BY <1>11 DEF SetupKernel
  <2>2. wpc'[w] = "send" \/ (wpc'[w] = "leave" /\ w \in dead')
    BY <1>11, <1>f DEF SetupKernel
  <2>3. PipeInv(w)' /\ Sent[w] <= Sent'[w] /\ (w \in dead' \/ Sent'[w] = Sent[w])
    BY <1>t, <1>s, <1>3, <2>1, <2>2 DEF PipeInv, Working
  <2>. QED
    BY <1>a, <2>1, <2>3
<1>12. CASE Send(w)
  <2>1. /\ num' = num /\ wpc[w] \in {"send", "send_error"} /\ ptx' = ptx
        /\ cubin'[w] = (IF cubin[w] = <<>> THEN <<>> ELSE Tail(cubin[w]))
        /\ wpc'[w] \in {"idle", "leave"} /\ UNCHANGED <<calls, cur, epc>>
    BY <1>12, <1>f DEF Send
  <2>2. cubin[w] \in {<<>>, <<Kernel(w)>>} /\ ptx[w] = <<>>
    BY <1>t, <2>1 DEF PipeInv
  <2>3. cubin'[w] = <<>>
    BY <2>1, <2>2, SingletonFacts
  <2>4. PipeInv(w)' /\ Sent'[w] = num[w] /\ Sent[w] = num[w] - 1 /\ wpc[w] \in Working
    BY <1>t, <1>s, <1>3, <2>1, <2>2, <2>3 DEF PipeInv, Working
  <2>5. CASE evalq' = evalq /\ w \in dead'
    BY <1>a, <1>s, <2>1, <2>4, <2>5
  <2>6. CASE /\ epc \notin {"gone", "panic"} /\ evalq' = Append(evalq, <<Kernel(w), Thunk(w)>>)
             /\ UNCHANGED dead
    <3>1. Thunk(w) \in {Kernel(w), Broken}
      BY <1>t, <2>1 DEF PipeInv, Thunk
    <3>2. PICK m \in Message : m = <<Kernel(w), Thunk(w)>>
      BY <2>4, <3>1, KernelIsNew DEF Message
    <3>3. m[1] = Kernel(w) /\ m[2] \in {m[1], Broken}
      BY <3>1, <3>2
    <3>4. TokenInv'
      BY <1>2, <1>4, <2>1, <2>4, <2>6, <3>2, <3>3, SendToken
    <3>. QED
      BY <1>1, <2>4, <3>4 DEF OwnInv
  <2>. QED
    BY <1>12, <2>5, <2>6 DEF Send
<1>13. CASE Leave(w)
  <2>1. wpc'[w] = "leave" /\ num' = num /\ wpc[w] = "idle" /\ ptx' = ptx /\ cubin' = cubin
    BY <1>13, <1>f DEF Leave
  <2>2. PipeInv(w)' /\ Sent'[w] = Sent[w]
    BY <1>t, <1>s, <1>3, <2>1 DEF PipeInv, Working
  <2>. QED
    BY <1>13, <1>a, <2>2, SentNat DEF Leave
<1>14. CASE DropEvaluator(w)
  <2>1. wpc'[w] \in {"wait", "gone"} /\ num' = num /\ wpc[w] = "leave"
    BY <1>14, <1>f DEF DropEvaluator
  <2>2. PipeInv(w)' /\ Sent'[w] = Sent[w]
    BY <1>t, <1>s, <1>3, <2>1 DEF PipeInv, Working
  <2>. QED
    BY <1>14, <1>a, <2>2, SentNat DEF DropEvaluator
<1>15. CASE WaitPid(w)
  <2>1. wpc'[w] = "gone" /\ num' = num /\ wpc[w] = "wait" /\ ptx' = ptx /\ cubin' = cubin
    BY <1>15, <1>f DEF WaitPid
  <2>2. PipeInv(w)' /\ Sent'[w] = Sent[w]
    BY <1>t, <1>s, <1>3, <2>1 DEF PipeInv, Working
  <2>. QED
    BY <1>15, <1>a, <2>2, SentNat DEF WaitPid
<1>. QED
  BY <1>5, <1>6, <1>7, <1>8, <1>9, <1>10, <1>11, <1>12, <1>13, <1>14, <1>15 DEF Explorer

LEMMA OwnStep == StageInv /\ StageInv' /\ OwnInv /\ [Next]_vars => OwnInv'
<1>. SUFFICES ASSUME StageInv, StageInv', OwnInv, [Next]_vars PROVE OwnInv'
  OBVIOUS
<1>p. TokenInv /\ \A w \in Worker : PipeInv(w)
  BY DEF OwnInv
<1>a. ASSUME UNCHANGED <<evalq, calls, cur, num, dead>>, epc' = "call" <=> epc = "call",
             epc' = "gone" => evalq = <<>>,
             \A w \in Worker : wpc'[w] = wpc[w] \/ (wpc[w] = "unborn" /\ wpc'[w] = "idle")
      PROVE  TokenInv'
  <2>1. Sent' = Sent
    BY <1>a DEF Sent, Working
  <2>2. \A v \in Worker : Sent[v] <= Sent'[v]
    BY <2>1, SentNat
  <2>. QED
    BY <1>a, <2>1, <2>2, SentNat, TokenFrame
<1>. USE DEF jitVars, evalVars
<1>1. CASE SpawnWorker \/ ReceivePid
  <2>. DEFINE b == Min(Unborn)
  <2>1. /\ UNCHANGED <<evalq, calls, cur, num, dead, epc, backend, ptx, cubin>>
        /\ wpc' = wpc \/ wpc' = [wpc EXCEPT ![b] = "idle"]
    BY <1>1 DEF SpawnWorker, ReceivePid, Goto
  <2>2. \A w \in Worker : wpc'[w] = wpc[w] \/ (wpc[w] = "unborn" /\ wpc'[w] = "idle")
    <3>1. CASE Unborn # {}
      <4>1. b \in Worker /\ wpc[b] = "unborn"
        BY <3>1, NextUnborn
      <4>. QED
        BY <2>1, <4>1 DEF StageInv
    <3>2. CASE Unborn = {}
      <4>1. SpawnWorker => FALSE
        BY <3>2 DEF SpawnWorker
      <4>2. ReceivePid
        BY <1>1, <4>1
      <4>. QED
        BY <3>2, <4>2 DEF ReceivePid, StageInv, Unborn
    <3>. QED
      BY <3>1, <3>2
  <2>3. \A w \in Worker : PipeInv(w)'
    BY <1>p, <2>1, <2>2 DEF PipeInv, Kernel, Working
  <2>4. TokenInv'
    BY <1>a, <1>p, <2>1, <2>2 DEF TokenInv
  <2>. QED
    BY <2>3, <2>4 DEF OwnInv
<1>2. CASE StartJoin \/ Join \/ EvalEnd
  <2>1. UNCHANGED <<evalq, calls, cur, num, dead, wpc, backend, ptx, cubin>>
    BY <1>2 DEF StartJoin, Join, EvalEnd
  <2>2. (epc # "call" /\ epc' # "call") \/ epc' = epc
    BY <1>2 DEF StartJoin, Join, EvalEnd, StageInv
  <2>3. epc' = "gone" => evalq = <<>>
    BY <1>2, <1>p DEF StartJoin, Join, EvalEnd, Drained, TokenInv
  <2>4. \A w \in Worker : PipeInv(w)'
    BY <1>p, <2>1 DEF PipeInv, Kernel
  <2>5. TokenInv'
    BY <1>a, <2>1, <2>2, <2>3
  <2>. QED
    BY <2>4, <2>5 DEF OwnInv
<1>3. CASE EvalTake \/ EvalCall
  <2>1. UNCHANGED <<num, wpc, backend, ptx, cubin>>
    BY <1>3 DEF EvalTake, EvalCall
  <2>2. \A w \in Worker : PipeInv(w)'
    BY <1>p, <2>1 DEF PipeInv, Kernel
  <2>. QED
    BY <1>3, <2>2, TakeToken, RunToken DEF OwnInv
<1>4. ASSUME NEW w \in Worker, Thread(Explorer(w)) PROVE OwnInv'
  BY <1>4, OwnExplorer DEF Thread
<1>5. ASSUME NEW w \in Worker, Daemon(w) PROVE OwnInv'
  <2>1. /\ UNCHANGED <<evalq, calls, cur, num, dead, wpc, epc, backend>>
        /\ \A v \in Worker \ {w} : ptx'[v] = ptx[v] /\ cubin'[v] = cubin[v]
    BY <1>5 DEF Daemon, StageInv
  <2>2. TokenInv'
    BY <1>a, <1>p, <2>1 DEF TokenInv
  <2>3. \/ UNCHANGED <<ptx, cubin>>
        \/ ptx[w] # <<>> /\ ptx'[w] = Tail(ptx[w])
           /\ (cubin' = cubin \/ cubin'[w] = Append(cubin[w], Head(ptx[w])))
    BY <1>5 DEF Daemon, StageInv
  <2>4. ASSUME ptx[w] = <<Kernel(w)>>, ptx'[w] = Tail(ptx[w])
        PROVE  ptx'[w] = <<>> /\ Head(ptx[w]) = Kernel(w)
    BY <2>4, SingletonFacts
  <2>5. \A v \in Worker : Kernel(v)' = Kernel(v)
    BY <2>1 DEF Kernel
  <2>6. PipeInv(w)'
    <3>1. CASE UNCHANGED <<ptx, cubin>>
      BY <1>p, <2>1, <2>5, <3>1 DEF PipeInv
    <3>2. CASE /\ ptx[w] # <<>> /\ ptx'[w] = Tail(ptx[w])
               /\ cubin' = cubin \/ cubin'[w] = Append(cubin[w], Head(ptx[w]))
      <4>1. CASE wpc[w] = "compile"
        <5>1. ptx[w] = <<Kernel(w)>> /\ cubin[w] = <<>> /\ num[w] > 0
          BY <1>p, <3>2, <4>1 DEF PipeInv, Working
        <5>2. ptx'[w] = <<>> /\ cubin'[w] \in {<<>>, <<Kernel(w)>>}
          BY <2>4, <3>2, <5>1, SingletonFacts
        <5>. QED
          BY <2>1, <2>5, <4>1, <5>1, <5>2 DEF PipeInv
      <4>2. CASE wpc[w] # "compile"
        <5>1. wpc[w] \in {"wait", "gone"}
          BY <1>p, <3>2, <4>2 DEF PipeInv, StageInv, WorkerPlace
        <5>. QED
          BY <2>1, <5>1 DEF PipeInv, Working
      <4>. QED
        BY <4>1, <4>2
    <3>. QED
      BY <2>3, <3>1, <3>2
  <2>7. \A v \in Worker \ {w} : PipeInv(v)'
    BY <1>p, <2>1, <2>5 DEF PipeInv
  <2>. QED
    BY <2>2, <2>6, <2>7 DEF OwnInv
<1>6. ASSUME NEW w \in Worker, ForkDaemon(w) \/ Reparent(w) \/ UNCHANGED vars PROVE OwnInv'
  <2>1. UNCHANGED <<evalq, calls, cur, num, dead, wpc, epc, backend, ptx, cubin>>
    BY <1>6 DEF ForkDaemon, Reparent, vars
  <2>2. \A v \in Worker : PipeInv(v)'
    BY <1>p, <2>1 DEF PipeInv, Kernel
  <2>3. TokenInv'
    BY <1>a, <1>p, <2>1 DEF TokenInv
  <2>. QED
    BY <2>2, <2>3 DEF OwnInv
<1>7. CASE UNCHANGED vars
  BY <1>6, <1>7, BackendAssumption
<1>. QED
  BY <1>1, <1>2, <1>3, <1>4, <1>5, <1>6, <1>7 DEF Next, Thread, Main, Evaluation, Spawner

-----------------------------------------------------------------------------
(* The end of async_eval.                                                   *)

LEMMA EndStep == StageInv /\ OwnInv /\ EndInv /\ [Next]_vars => EndInv'
<1>. SUFFICES ASSUME StageInv, OwnInv, EndInv, [Next]_vars, main' = "done"
              PROVE  /\ dead' = {} /\ evalq' = <<>> /\ cur' = <<>>
                     /\ \A w \in Worker : wpc'[w] \in {"unborn", "gone"}
  BY DEF EndInv
<1>. USE DEF jitVars, evalVars
<1>1. CASE Join
  BY <1>1 DEF Join, OwnInv, TokenInv
<1>2. CASE main = "done"
  <2>1. /\ dead = {} /\ evalq = <<>> /\ cur = <<>> /\ epc \in {"gone", "panic"}
        /\ \A w \in Worker : wpc[w] \in {"unborn", "gone"}
    BY <1>2 DEF EndInv, StageInv
  <2>2. UNCHANGED <<dead, evalq, cur, wpc>>
    <3>1. ~(\E w \in Worker : Explorer(w))
      BY <2>1 DEF Explorer, Begin, EvaluateInPlace, PrintCode, SendPtx, ReceiveCubin, BrokenPipe,
                  SetupKernel, Send, Leave, DropEvaluator, WaitPid
    <3>2. ~Evaluation /\ ~Main
      BY <1>2, <2>1 DEF Evaluation, EvalTake, EvalCall, EvalEnd, Main, SpawnWorker, ReceivePid,
                  StartJoin, Join
    <3>3. CASE \E w \in Worker : Daemon(w) \/ ForkDaemon(w) \/ Reparent(w)
      BY <3>3 DEF Daemon, ForkDaemon, Reparent
    <3>. QED
      BY <3>1, <3>2, <3>3 DEF Next, Thread, Spawner, vars
  <2>. QED
    BY <2>1, <2>2
<1>3. CASE main # "done" /\ ~Join
  <2>1. main' = main \/ main' \in {"spawn", "pid", "join", "abort"}
    BY <1>3 DEF Next, Thread, Main, Spawner, Evaluation, Explorer, SpawnWorker, ReceivePid,
         StartJoin, Begin, EvaluateInPlace, PrintCode, SendPtx, ReceiveCubin, BrokenPipe,
         SetupKernel, Send, Leave, DropEvaluator, WaitPid, EvalTake, EvalCall, EvalEnd,
         Daemon, ForkDaemon, Reparent, vars
  <2>. QED
    BY <1>3, <2>1
<1>. QED
  BY <1>1, <1>2, <1>3

LEMMA EvaluationSound == Spec => [](StageInv /\ OwnInv /\ EndInv)
<1>1. Init => StageInv /\ OwnInv /\ EndInv
  BY StageInit, OwnInit DEF Init, EndInv
<1>2. StageInv /\ OwnInv /\ EndInv /\ [Next]_vars => (StageInv /\ OwnInv /\ EndInv)'
  BY StageStep, OwnStep, EndStep
<1>. QED
  BY <1>1, <1>2, PTL DEF Spec

(***************************************************************************)
(* The callbacks of async_eval: each one gets the kernel of its own        *)
(* candidate although compilations, queue and evaluation run in different  *)
(* threads and processes, none is called twice, and none is missing when   *)
(* async_eval returns.                                                     *)
(***************************************************************************)
THEOREM CallbacksGetTheirKernel == Spec => []OwnKernel
<1>1. StageInv /\ OwnInv /\ EndInv => OwnKernel
  <2>. SUFFICES ASSUME StageInv, OwnInv, EndInv PROVE OwnKernel
    OBVIOUS
  <2>t. TokenInv /\ calls \in Seq(Message) /\ DOMAIN calls = 1 .. Len(calls)
    BY DEF OwnInv, TokenInv
  <2>1. \A i \in DOMAIN calls :
          /\ calls[i][2] \in {calls[i][1], Broken}
          /\ \A j \in DOMAIN calls : calls[i][1] = calls[j][1] => i = j
    BY <2>t DEF TokenInv, Own
  <2>2. ASSUME main = "done", NEW w \in Worker, NEW n \in 1 .. num[w]
        PROVE  \E i \in DOMAIN calls : calls[i][1] = <<w, n>>
    <3>1. /\ dead = {} /\ evalq = <<>> /\ cur = <<>> /\ Sent[w] = num[w]
      BY <2>2 DEF EndInv, Sent, Working
    <3>2. ~Held(<<w, n>>) /\ ~In(<<w, n>>, evalq)
      BY <3>1 DEF Held, In
    <3>3. In(<<w, n>>, calls)
      BY <2>t, <3>1, <3>2 DEF TokenInv
    <3>. QED
      BY <2>t, <3>3 DEF In
  <2>. QED
    BY <2>1, <2>2 DEF OwnKernel
<1>. QED
  BY <1>1, EvaluationSound, PTL

-----------------------------------------------------------------------------
(* Threads panic after failures only.                                       *)

LEMMA SetupFinite == IsFiniteSet(InSetup) /\ Cardinality(InSetup) \in Nat
  BY BackendAssumption, FS_Subset, FS_CardinalityType DEF InSetup

LEMMA BegunFinite == IsFiniteSet(Begun) /\ Cardinality(Begun) \in Nat
<1>1. IsFiniteSet(1 .. MaxKernels)
  BY BackendAssumption, FS_Interval
<1>2. IsFiniteSet(Worker \X (1 .. MaxKernels))
  BY <1>1, BackendAssumption, FS_Product
<1>. QED
  BY <1>2, FS_Subset, FS_CardinalityType DEF Begun

(***************************************************************************)
(* The kernels begun only grow, by the one a worker begins.                *)
(***************************************************************************)
LEMMA BegunGrows ==
    ASSUME StageInv, NEW w \in Worker, Begin(w)
    PROVE  Cardinality(Begun') = Cardinality(Begun) + 1
<1>1. /\ num \in [Worker -> Nat] /\ num[w] \in Nat /\ num[w] < MaxKernels /\ MaxKernels \in Nat
      /\ num' = [num EXCEPT ![w] = num[w] + 1]
  BY BackendAssumption DEF StageInv, Begin
<1>2. PICK n \in 1 .. MaxKernels : n = num[w] + 1
  BY <1>1
<1>3. <<w, n>> \notin Begun
  BY <1>1, <1>2 DEF Begun
<1>4. Begun' = Begun \cup {<<w, n>>}
  <2>1. ASSUME NEW v \in Worker, NEW m \in 1 .. MaxKernels
        PROVE  m <= num'[v] <=> m <= num[v] \/ (v = w /\ m = n)
    BY <1>1, <1>2
  <2>. QED
    BY <2>1 DEF Begun
<1>. QED
  BY <1>3, <1>4, BegunFinite, FS_AddElement

LEMMA BegunKept ==
    ASSUME UNCHANGED num
    PROVE  Begun' = Begun
  BY DEF Begun

LEMMA SlotExplorer ==
    ASSUME StageInv, StageInv', SlotInv, NEW w \in Worker, Explorer(w), backend = "mppa"
    PROVE  Slots + Cardinality(InSetup') <= slots' + Cardinality(Begun')
<1>t. /\ Cardinality(InSetup) \in Nat /\ Cardinality(Begun) \in Nat /\ slots \in Nat /\ Slots \in Nat
      /\ Slots + Cardinality(InSetup) <= slots + Cardinality(Begun)
  BY SetupFinite, BegunFinite, BackendAssumption DEF StageInv, SlotInv
<1>k. Keeps(w)
  BY ExplorerKeeps
<1>f. \A x : [wpc EXCEPT ![w] = x][w] = x
  BY DEF StageInv
<1>. USE DEF Goto, jitVars, evalVars
<1>1. CASE Begin(w)
  <2>1. wpc[w] = "idle" /\ wpc'[w] = "setup" /\ slots' = slots
    BY <1>1, <1>f DEF Begin
  <2>2. InSetup' = InSetup \cup {w} /\ w \notin InSetup
    BY <1>k, <2>1 DEF InSetup, Keeps
  <2>3. Cardinality(InSetup') = Cardinality(InSetup) + 1
    BY <2>2, SetupFinite, FS_AddElement
  <2>4. Cardinality(Begun') = Cardinality(Begun) + 1
    BY <1>1, BegunGrows
  <2>. QED
    BY <1>t, <2>1, <2>3, <2>4
<1>2. CASE SetupKernel(w)
  <2>1. wpc[w] = "setup" /\ wpc'[w] # "setup" /\ slots' \in {slots, slots - 1} /\ num' = num
    BY <1>2, <1>f DEF SetupKernel
  <2>2. InSetup' = InSetup \ {w} /\ w \in InSetup
    BY <1>k, <2>1 DEF InSetup, Keeps
  <2>3. Cardinality(InSetup') = Cardinality(InSetup) - 1
    BY <2>2, SetupFinite, FS_RemoveElement
  <2>. QED
    BY <1>t, <2>1, <2>3, BegunKept
<1>3. CASE ~Begin(w) /\ ~SetupKernel(w)
  <2>1. slots' = slots /\ num' = num
    BY <1>3 DEF Explorer, EvaluateInPlace, PrintCode, SendPtx, ReceiveCubin, BrokenPipe,
                Send, Leave, DropEvaluator, WaitPid
  <2>2. wpc[w] # "setup" /\ wpc'[w] # "setup"
    BY <1>3, <1>f DEF StageInv, Explorer, EvaluateInPlace, PrintCode, SendPtx, ReceiveCubin,
                BrokenPipe, Send, Leave, DropEvaluator, WaitPid
  <2>3. InSetup' = InSetup
    BY <1>k, <2>2 DEF InSetup, Keeps
  <2>. QED
    BY <1>t, <2>1, <2>3, BegunKept
<1>. QED
  BY <1>1, <1>2, <1>3

(***************************************************************************)
(* What the other threads and the processes leave alone.                   *)
(***************************************************************************)
LEMMA OthersKeep ==
    ASSUME StageInv, [Next]_vars, ~(\E w \in Worker : Thread(Explorer(w)))
    PROVE  /\ UNCHANGED <<backend, num, dead, slots>> /\ failed \subseteq failed'
           /\ main' = "abort" => main = "abort"
           /\ epc' = "panic" => epc = "panic" \/ failed' # {}
           /\ \A w \in Worker : wpc'[w] = wpc[w] \/ (wpc[w] = "unborn" /\ wpc'[w] = "idle")
<1>. USE DEF jitVars, evalVars, StageInv
<1>1. CASE SpawnWorker
  <2>1. Min(Unborn) \in Worker /\ wpc[Min(Unborn)] = "unborn"
    BY <1>1, NextUnborn DEF SpawnWorker
  <2>. QED
    BY <1>1, <2>1 DEF SpawnWorker, Goto
<1>2. CASE ReceivePid
  <2>1. Min(Unborn) \in Worker /\ wpc[Min(Unborn)] = "unborn"
    BY <1>2, NextUnborn DEF ReceivePid, Unborn
  <2>. QED
    BY <1>2, <2>1 DEF ReceivePid, Goto
<1>3. CASE StartJoin \/ Join \/ EvalTake \/ EvalEnd
  BY <1>3 DEF StartJoin, Join, EvalTake, EvalEnd
<1>4. CASE EvalCall
  BY <1>4 DEF EvalCall, Noted
<1>5. CASE \E w \in Worker : Daemon(w) \/ ForkDaemon(w) \/ Reparent(w)
  BY <1>5 DEF Daemon, ForkDaemon, Reparent, Noted
<1>6. CASE UNCHANGED vars
  BY <1>6 DEF vars
<1>. QED
  BY <1>1, <1>2, <1>3, <1>4, <1>5, <1>6 DEF Next, Thread, Main, Evaluation, Spawner

LEMMA SlotStep == StageInv /\ StageInv' /\ SlotInv /\ [Next]_vars => SlotInv'
<1>. SUFFICES ASSUME StageInv, StageInv', SlotInv, [Next]_vars PROVE SlotInv'
  OBVIOUS
<1>1. CASE \E w \in Worker : Thread(Explorer(w))
  <2>1. PICK w \in Worker : Explorer(w)
    BY <1>1 DEF Thread
  <2>2. backend' = backend
    BY <2>1, ExplorerKeeps DEF Keeps
  <2>. QED
    BY <2>1, <2>2, SlotExplorer DEF SlotInv
<1>2. CASE ~(\E w \in Worker : Thread(Explorer(w)))
  <2>1. /\ UNCHANGED <<backend, num, slots>>
        /\ \A w \in Worker : wpc'[w] = wpc[w] \/ (wpc[w] = "unborn" /\ wpc'[w] = "idle")
    BY <1>2, OthersKeep
  <2>2. InSetup' = InSetup
    BY <2>1 DEF InSetup
  <2>. QED
    BY <2>1, <2>2, BegunKept DEF SlotInv
<1>. QED
  BY <1>1, <1>2

LEMMA JitStep == StageInv /\ OwnInv /\ JitInv /\ [Next]_vars => JitInv'
<1>. SUFFICES ASSUME StageInv, OwnInv, JitInv, [Next]_vars PROVE JitInv'
  OBVIOUS
<1>. USE DEF jitVars, evalVars, JitInv
<1>1. ASSUME NEW w \in Worker, Explorer(w) PROVE JitInv'
  <2>k. \A v \in Worker \ {w} : wpc'[v] = wpc[v]
    BY <1>1, ExplorerKeeps DEF Keeps
  <2>f. \A x : [wpc EXCEPT ![w] = x][w] = x
    BY DEF StageInv
  <2>1. CASE BrokenPipe(w)
    <3>1. failed # {} /\ failed' = failed
      BY <2>1 DEF BrokenPipe
    <3>. QED
      BY <3>1
  <2>2. CASE WaitPid(w)
    <3>1. /\ wpc[w] = "wait" /\ wpc'[w] = "gone" /\ UNCHANGED <<main, failed>>
          /\ \A v \in Worker \ {w} : jit'[v] = jit[v]
      BY <2>2, <2>f DEF WaitPid, Goto, StageInv
    <3>. QED
      BY <2>k, <3>1
  <2>3. CASE ~BrokenPipe(w) /\ ~WaitPid(w)
    <3>1. main' = main /\ jit' = jit /\ failed \subseteq failed'
      BY <1>1, <2>3 DEF Explorer, Begin, EvaluateInPlace, PrintCode, SendPtx, ReceiveCubin,
                 SetupKernel, Send, Leave, DropEvaluator, Noted
    <3>2. wpc[w] \notin {"wait", "gone"}
      BY <1>1, <2>3 DEF Explorer, Begin, EvaluateInPlace, PrintCode, SendPtx, ReceiveCubin,
                 SetupKernel, Send, Leave, DropEvaluator
    <3>. QED
      BY <2>k, <3>1, <3>2
  <2>. QED
    BY <2>1, <2>2, <2>3
<1>2. ASSUME NEW w \in Worker, Daemon(w) PROVE JitInv'
  <2>1. /\ UNCHANGED <<main, wpc>> /\ failed \subseteq failed'
        /\ \A v \in Worker \ {w} : jit'[v] = jit[v]
    BY <1>2 DEF Daemon, Noted, StageInv
  <2>2. CASE jit'[w] = jit[w]
    BY <2>1, <2>2
  <2>3. CASE jit'[w] # jit[w]
    <3>1. failed' # {} \/ main = "abort" \/ (ptx[w] # <<>> /\ Head(ptx[w]) = <<>>)
      BY <1>2, <2>3 DEF Daemon, Noted
    <3>2. CASE ptx[w] # <<>> /\ Head(ptx[w]) = <<>>
      <4>1. ptx[w] # <<Kernel(w)>>
        BY <3>2 DEF Kernel
      <4>2. wpc[w] \in {"wait", "gone"}
        BY <3>2, <4>1 DEF OwnInv, PipeInv, StageInv, WorkerPlace
      <4>. QED
        BY <2>1, <4>2
    <3>. QED
      BY <2>1, <3>1, <3>2
  <2>. QED
    BY <2>2, <2>3
<1>3. CASE /\ ~(\E w \in Worker : Thread(Explorer(w)))
           /\ ~(\E w \in Worker : Daemon(w))
  <2>1. /\ failed \subseteq failed'
        /\ main' = "abort" => main = "abort"
        /\ \A w \in Worker : wpc'[w] = wpc[w] \/ (wpc[w] = "unborn" /\ wpc'[w] = "idle")
    BY <1>3, OthersKeep
  <2>2. \A w \in Worker : jit'[w] \in {"exited", "reaped"} => jit'[w] = jit[w]
    <3>1. CASE SpawnWorker
      BY <3>1, NextUnborn DEF SpawnWorker, StageInv
    <3>2. CASE ReceivePid \/ StartJoin \/ Join \/ Evaluation \/ UNCHANGED vars
      BY <3>2 DEF ReceivePid, StartJoin, Join, Evaluation, EvalTake, EvalCall, EvalEnd, vars
    <3>3. CASE Spawner
      BY <3>3 DEF Spawner, ForkDaemon, Reparent, StageInv
    <3>. QED
      BY <1>3, <3>1, <3>2, <3>3 DEF Next, Thread, Main
  <2>. QED
    BY <2>1, <2>2
<1>. QED
  BY <1>1, <1>2, <1>3 DEF Thread

LEMMA PanicStep ==
    StageInv /\ StageInv' /\ CauseInv /\ [Next]_vars => SoundToolsNeverPanic'
<1>. SUFFICES ASSUME StageInv, StageInv', CauseInv, [Next]_vars, failed' = {},
                     backend' = "mppa" => Cardinality(Begun') <= Slots
              PROVE  dead' = {} /\ epc' # "panic"
  BY DEF SoundToolsNeverPanic
<1>. USE DEF jitVars, evalVars
<1>1. CASE \E w \in Worker : Thread(Explorer(w))
  <2>1. PICK w \in Worker : Explorer(w)
    BY <1>1 DEF Thread
  <2>2. backend' = backend /\ epc' = epc
    BY <2>1, ExplorerKeeps DEF Keeps
  <2>3. failed = {}
    BY <2>1 DEF Explorer, Begin, EvaluateInPlace, PrintCode, SendPtx, ReceiveCubin, BrokenPipe,
         SetupKernel, Send, Leave, DropEvaluator, WaitPid, Noted
  <2>4. backend = "mppa" => Cardinality(Begun) <= Slots
    <3>1. CASE Begin(w)
      BY <2>2, <3>1, BegunGrows, BegunFinite, BackendAssumption
    <3>2. CASE ~Begin(w)
      <4>1. num' = num
        BY <2>1, <3>2 DEF Explorer, EvaluateInPlace, PrintCode, SendPtx, ReceiveCubin, BrokenPipe,
             SetupKernel, Send, Leave, DropEvaluator, WaitPid
      <4>. QED
        BY <2>2, <4>1, BegunKept
    <3>. QED
      BY <3>1, <3>2
  <2>5. dead = {} /\ epc # "panic"
    BY <2>3, <2>4 DEF CauseInv, SoundToolsNeverPanic
  <2>6. dead' = dead
    <3>1. CASE BrokenPipe(w)
      BY <2>3, <3>1 DEF BrokenPipe, CauseInv, JitInv
    <3>2. CASE SetupKernel(w)
      <4>1. dead' = dead \/ slots = 0 \/ Kernel(w) \in failed'
        BY <3>2 DEF SetupKernel, Noted
      <4>2. ASSUME slots = 0 PROVE FALSE
        <5>1. w \in InSetup /\ backend = "mppa"
          BY <3>2 DEF SetupKernel, InSetup
        <5>2. Cardinality(InSetup) # 0
          BY <5>1, SetupFinite, FS_EmptySet
        <5>3. Slots + Cardinality(InSetup) <= slots + Cardinality(Begun)
          BY <5>1 DEF CauseInv, SlotInv
        <5>. QED
          BY <2>4, <4>2, <5>1, <5>2, <5>3, SetupFinite, BegunFinite, BackendAssumption
      <4>. QED
        BY <4>1, <4>2
    <3>3. CASE Send(w)
      <4>1. epc # "gone"
        BY <3>3 DEF Send, StageInv
      <4>. QED
        BY <2>5, <3>3, <4>1 DEF Send
    <3>4. CASE ~BrokenPipe(w) /\ ~SetupKernel(w) /\ ~Send(w)
      BY <2>1, <3>4 DEF Explorer, Begin, EvaluateInPlace, PrintCode, SendPtx, ReceiveCubin,
                        Leave, DropEvaluator, WaitPid
    <3>. QED
      BY <3>1, <3>2, <3>3, <3>4
  <2>. QED
    BY <2>2, <2>5, <2>6
<1>2. CASE ~(\E w \in Worker : Thread(Explorer(w)))
  <2>1. /\ UNCHANGED <<backend, num, dead>> /\ failed = {}
        /\ epc' = "panic" => epc = "panic"
    BY <1>2, OthersKeep
  <2>2. backend = "mppa" => Cardinality(Begun) <= Slots
    BY <2>1, BegunKept
  <2>. QED
    BY <2>1, <2>2 DEF CauseInv, SoundToolsNeverPanic
<1>. QED
  BY <1>1, <1>2

(***************************************************************************)
(* Explorer and evaluation threads panic after a failed compilation or     *)
(* execution only, whatever the interleaving of sends, drops and exiting   *)
(* processes; MPPA keeps this for as many kernels as it has write-back     *)
(* slots, and not for one more.                                            *)
(***************************************************************************)
THEOREM NoPanicWithSoundTools == Spec => []SoundToolsNeverPanic
<1>1. Init => CauseInv
  <2>. SUFFICES ASSUME Init PROVE CauseInv
    OBVIOUS
  <2>1. InSetup = {}
    BY DEF Init, InSetup
  <2>2. Cardinality(InSetup) = 0
    BY <2>1, FS_EmptySet
  <2>3. SlotInv
    BY <2>2, BegunFinite, BackendAssumption DEF Init, SlotInv
  <2>4. JitInv /\ SoundToolsNeverPanic
    BY DEF Init, JitInv, SoundToolsNeverPanic
  <2>. QED
    BY <2>3, <2>4 DEF CauseInv
<1>2. StageInv /\ StageInv' /\ OwnInv /\ CauseInv /\ [Next]_vars => CauseInv'
  BY SlotStep, JitStep, PanicStep DEF CauseInv
<1>3. CauseInv => SoundToolsNeverPanic
  BY DEF CauseInv
<1>. QED
  BY <1>1, <1>2, <1>3, EvaluationSound, PTL DEF Spec
=============================================================================
