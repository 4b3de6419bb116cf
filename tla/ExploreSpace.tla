----------------------------- MODULE ExploreSpace -----------------------------
(***************************************************************************)
(* A whole search (src/explorer/mod.rs, src/explorer/monitor.rs): worker   *)
(* threads take leaves from a candidate store and queue them for           *)
(* evaluation, one evaluation thread times them and checks their results,  *)
(* and the monitor thread keeps the best one, lowers the cut of the store  *)
(* and ends the search.  Workers may agree, at a barrier, to restart the   *)
(* store every few evaluations.                                            *)
(*                                                                         *)
(* The store is the contract of SearchStore, which ParallelList is proved  *)
(* to implement.                                                           *)
(***************************************************************************)
EXTENDS SearchStore, Sequences, FiniteSets

CONSTANTS
    Bound,         \* Bound[l]: the lower bound kept in leaf l
    Time,          \* Time[l]: what evaluating l returns; Inf when it fails
    Valid,         \* the leaves whose results check_result_fn accepts
    NoLeaf,        \* Option::None
    HasCheck,      \* find_best was given a check_result_fn
    CheckAll,      \* config.check_all
    StopBound,     \* config.stop_bound, 0 for None
    Ratio,         \* config.distance_to_best in percent, 0 for None
    MaxEvals,      \* config.max_evaluations, 0 for None
    HasTimeout,    \* config.timeout is set
    RestartModes,  \* whether config.restart_every_n_evals is set
    RestartEvery,  \* and its value
    EvalBuffer     \* EVAL_BUFFER_SIZE, the capacity of the evaluation queue

ASSUME SearchAssumption ==
    /\ Inf \in Nat /\ Bound \in [Leaf -> 0 .. Inf] /\ Reach \in [Leaf -> 0 .. Inf]
    /\ Time \in [Leaf -> 0 .. Inf] /\ Valid \subseteq Leaf /\ NoLeaf \notin Leaf
    /\ Ratio \in 0 .. 99 /\ StopBound \in 0 .. Inf /\ EvalBuffer \in Nat \ {0}
    /\ MaxEvals \in Nat /\ RestartEvery \in Nat /\ RestartModes \subseteq BOOLEAN
    /\ IsFiniteSet(Worker) /\ Worker # {}

(***************************************************************************)
(* The performance model is a lower bound: no bound on the path to a leaf  *)
(* exceeds the time of the leaf.                                           *)
(***************************************************************************)
ASSUME BoundsAreLower ==
    \A l \in Leaf : Bound[l] <= Reach[l] /\ Reach[l] <= Time[l]

VARIABLES
    has_restart,   \* config.restart_every_n_evals.is_some(), never assigned
    wpc,           \* where each worker is in the closure of async_eval
    hand,          \* the leaf a worker is about to queue
    evalq,         \* the bounded channel to the evaluation thread
    epc,           \* the evaluation thread
    job,           \* the leaf it evaluates and the result it obtained
    best,          \* best_mutex; Inf for None
    n_evals, n_restarts, is_leader,
    waiting,       \* workers blocked in barrier.wait
    monq,          \* the channel to the monitor
    mpc,           \* the monitor thread
    status         \* Status: best candidate, its time, num_evaluations

workerVars == <<has_restart, wpc, hand, n_restarts, is_leader, waiting>>
evalVars == <<epc, job, best, n_evals>>
monVars == <<mpc, status>>
searchVars == <<storeVars, workerVars, evalVars, monVars, evalq, monq>>

NumWorkers == Cardinality(Worker)

Init ==
    /\ StoreInit /\ has_restart \in RestartModes
    /\ wpc = [w \in Worker |-> "explore"] /\ hand = [w \in Worker |-> NoLeaf]
    /\ n_restarts = 0 /\ is_leader = 0 /\ waiting = 0
    /\ evalq = <<>> /\ monq = <<>>
    /\ epc = "idle" /\ job = [leaf |-> NoLeaf, eval |-> Inf]
    /\ best = Inf /\ n_evals = 0
    /\ mpc = "run" /\ status = [leaf |-> NoLeaf, eval |-> Inf, num |-> 0]

-----------------------------------------------------------------------------
(* The workers: the closure passed to async_eval.                           *)

Goto(w, next) == wpc' = [wpc EXCEPT ![w] = next]

Explore(w) ==
    /\ wpc[w] = "explore"
    /\ \E l \in open : Give(l) /\ hand' = [hand EXCEPT ![w] = l]
    /\ Goto(w, "add")
    /\ UNCHANGED <<has_restart, n_restarts, is_leader, waiting, evalVars, monVars, evalq, monq>>

Exit(w) ==
    /\ wpc[w] = "explore" /\ Refuse(w)
    /\ Goto(w, "done")
    /\ UNCHANGED <<has_restart, hand, n_restarts, is_leader, waiting, evalVars, monVars, evalq, monq>>

Room == Len(evalq) < EvalBuffer

\* add_kernel blocks while the channel is full.
AddKernel(w) ==
    /\ wpc[w] = "add" /\ Room
    /\ evalq' = Append(evalq, hand[w])
    /\ hand' = [hand EXCEPT ![w] = NoLeaf]
    /\ Goto(w, IF has_restart THEN "check" ELSE "explore")
    /\ UNCHANGED <<has_restart, n_restarts, is_leader, waiting, storeVars, evalVars, monVars, monq>>

RestartDue == n_evals > RestartEvery * n_restarts

CheckRestart(w) ==
    /\ wpc[w] = "check"
    /\ Goto(w, IF RestartDue THEN "arrive" ELSE "explore")
    /\ is_leader' = IF RestartDue THEN is_leader + 1 ELSE is_leader
    /\ UNCHANGED <<has_restart, hand, n_restarts, waiting, storeVars, evalVars, monVars, evalq, monq>>

(***************************************************************************)
(* Barrier::wait: the last of NumWorkers arrivals releases the others.     *)
(***************************************************************************)
Wait(w, at, next) ==
    IF waiting + 1 = NumWorkers
    THEN /\ waiting' = 0
         /\ wpc' = [v \in Worker |-> IF v = w \/ wpc[v] = at THEN next ELSE wpc[v]]
    ELSE /\ waiting' = waiting + 1
         /\ Goto(w, at)

Arrive(w) ==
    /\ wpc[w] = "arrive" /\ Wait(w, "barrier1", "elect")
    /\ UNCHANGED <<has_restart, hand, n_restarts, is_leader, storeVars, evalVars, monVars, evalq, monq>>

\* Mutant of IsLeader: every worker released by the barrier is one.
IsLeaderAlways == is_leader > 0

\* The value fetch_sub returns is the number of workers for one of them only.
IsLeader == is_leader = NumWorkers

Elect(w) ==
    /\ wpc[w] = "elect"
    /\ is_leader' = is_leader - 1
    /\ Goto(w, IF IsLeader THEN "restart" ELSE "leave")
    /\ UNCHANGED <<has_restart, hand, n_restarts, waiting, storeVars, evalVars, monVars, evalq, monq>>

\* Store::restart forgets statistics; what is left to explore is the same.
Restart(w) ==
    /\ wpc[w] = "restart"
    /\ n_restarts' = n_restarts + 1
    /\ Goto(w, "leave")
    /\ UNCHANGED <<has_restart, hand, is_leader, waiting, storeVars, evalVars, monVars, evalq, monq>>

Leave(w) ==
    /\ wpc[w] = "leave" /\ Wait(w, "barrier2", "explore")
    /\ UNCHANGED <<has_restart, hand, n_restarts, is_leader, storeVars, evalVars, monVars, evalq, monq>>

\* The store drops a leaf the cut excludes, at once or later.
Discard ==
    /\ \E l \in open : Prune(cut, {l})
    /\ UNCHANGED <<workerVars, evalVars, monVars, evalq, monq>>

-----------------------------------------------------------------------------
(* The evaluation thread: the callback passed to add_kernel.                *)

EvalStart ==
    /\ epc = "idle" /\ evalq # <<>>
    /\ evalq' = Tail(evalq)
    /\ job' = [leaf |-> Head(evalq), eval |-> Inf]
    /\ n_evals' = n_evals + 1
    /\ epc' = "run"
    /\ UNCHANGED <<best, storeVars, workerVars, monVars, monq>>

\* StableEvaluator::evaluate skips a leaf whose bound the best one beats.
Measured(l) == IF Bound[l] >= best THEN Inf ELSE Time[l]

\* Mutant of Rejected: results are only checked when check_all is set.
RejectedIfAll(l, t) == HasCheck /\ t < Inf /\ CheckAll /\ l \notin Valid

Rejected(l, t) ==
    HasCheck /\ t < Inf /\ (CheckAll \/ t < best) /\ l \notin Valid

\* Mutant of Updated: the time measured is recorded before the check.
UpdatedEarly(t, e) == IF t < best THEN t ELSE best

\* best after a measurement t whose check left e.
Updated(t, e) == IF e < best THEN e ELSE best

EvalRun ==
    /\ epc = "run"
    /\ LET t == Measured(job.leaf)
           e == IF Rejected(job.leaf, t) THEN Inf ELSE t
       IN  /\ job' = [job EXCEPT !.eval = e]
           /\ best' = Updated(t, e)
    /\ epc' = "send"
    /\ UNCHANGED <<n_evals, storeVars, workerVars, monVars, evalq, monq>>

(***************************************************************************)
(* Each message is sent through a fresh clone of the sender, which never   *)
(* waits for room; a monitor that hung up only causes a warning.           *)
(***************************************************************************)
EvalSend ==
    /\ epc = "send"
    /\ \/ /\ mpc = "run"
          /\ monq' = Append(monq, job)
       \/ /\ mpc # "run"
          /\ monq' = monq
    /\ epc' = "idle"
    /\ UNCHANGED <<job, best, n_evals, storeVars, workerVars, monVars, evalq>>

\* Mutant of Drained: what is queued is forgotten.
DrainedOrNot == TRUE

Drained == evalq = <<>>

\* Mutant of SendersDropped: async_eval keeps the sender it cloned from.
SendersKept == FALSE

\* Every sender of the evaluation queue was dropped with its worker.
SendersDropped == \A w \in Worker : wpc[w] = "done"

\* recv fails once the queue is empty and closed.
EvalEnd ==
    /\ epc = "idle" /\ Drained /\ SendersDropped
    /\ epc' = "ended"
    /\ UNCHANGED <<job, best, n_evals, storeVars, workerVars, monVars, evalq, monq>>

-----------------------------------------------------------------------------
(* The monitor thread.                                                      *)

\* A cut is NaN for an infinite time and a distance of 100 percent, which is
\* left out (Ratio < 100).
NewCut(e) ==
    IF e < StopBound THEN 0 ELSE IF e = Inf THEN Inf ELSE ((100 - Ratio) * e) \div 100

\* Mutant of Improves: the last finite evaluation counts as the best.
ImprovesAlways(m) == status.leaf = NoLeaf \/ m.eval < Inf

Improves(m) == status.leaf = NoLeaf \/ status.eval > m.eval

\* num_evaluations once m is handled.
Counted(m) == status.num + (IF m.eval < Inf THEN 1 ELSE 0)

\* Store::update_cut as the monitor sees it: nothing in it compares cuts.
UpdateCut(new) == cut' = new /\ UNCHANGED <<open, given, gone>>

NewBest(m) ==
    IF Improves(m)
    THEN /\ status' = [leaf |-> m.leaf, eval |-> m.eval, num |-> Counted(m)]
         /\ UpdateCut(NewCut(m.eval))
    ELSE /\ status' = [status EXCEPT !.num = Counted(m)]
         /\ UNCHANGED storeVars

Handle ==
    /\ mpc = "run" /\ monq # <<>>
    /\ LET m == Head(monq)
           enough == MaxEvals > 0 /\ m.eval < Inf /\ Counted(m) >= MaxEvals
       IN  /\ NewBest(m)
           /\ monq' = IF enough THEN <<>> ELSE Tail(monq)
           /\ mpc' = IF enough THEN "closed" ELSE "run"
    /\ UNCHANGED <<workerVars, evalVars, evalq>>

\* The timeout future fails: the receiver is dropped with what it holds.
Timeout ==
    /\ HasTimeout /\ mpc = "run"
    /\ mpc' = "closed" /\ monq' = <<>>
    /\ UNCHANGED <<status, storeVars, workerVars, evalVars, evalq>>

\* stop_exploration, whose default is update_cut(0.0).
StopExploration ==
    /\ mpc = "closed"
    /\ UpdateCut(0)
    /\ mpc' = "stopped"
    /\ UNCHANGED <<status, workerVars, evalVars, evalq, monq>>

\* explore_space returned, so the channel is closed and drained.
Exhausted ==
    /\ mpc = "run" /\ monq = <<>> /\ epc = "ended"
    /\ mpc' = "exhausted"
    /\ UNCHANGED <<status, storeVars, workerVars, evalVars, evalq, monq>>

-----------------------------------------------------------------------------
WorkerNext(w) ==
    \/ Explore(w) \/ Exit(w) \/ AddKernel(w)
    \/ CheckRestart(w) \/ Arrive(w) \/ Elect(w) \/ Restart(w) \/ Leave(w)

EvalNext == EvalStart \/ EvalRun \/ EvalSend \/ EvalEnd

MonitorNext == Handle \/ StopExploration \/ Exhausted

Finished ==
    /\ \A w \in Worker : wpc[w] = "done"
    /\ epc = "ended" /\ mpc \in {"stopped", "exhausted"}

Next ==
    \/ \E w \in Worker : WorkerNext(w)
    \/ Discard \/ EvalNext \/ MonitorNext \/ Timeout

SearchSpec == Init /\ [][Next]_searchVars

(***************************************************************************)
(* Each thread keeps running while it can.  Nothing forces the timeout.    *)
(***************************************************************************)
FairSearchSpec ==
    /\ SearchSpec
    /\ \A w \in Worker : WF_searchVars(WorkerNext(w))
    /\ WF_searchVars(EvalNext)
    /\ WF_searchVars(MonitorNext)

-----------------------------------------------------------------------------
JobType == [leaf : Leaf \cup {NoLeaf}, eval : 0 .. Inf]

WorkerPlace ==
    {"explore", "add", "check", "arrive", "barrier1", "elect", "restart",
     "leave", "barrier2", "done"}

(***************************************************************************)
(* The shared counters, channels and thread positions have their types;    *)
(* is_leader is an unsigned counter and never underflows.                  *)
(***************************************************************************)
TypeOK ==
    /\ StoreTypeOK /\ has_restart \in BOOLEAN
    /\ wpc \in [Worker -> WorkerPlace] /\ hand \in [Worker -> Leaf \cup {NoLeaf}]
    /\ n_restarts \in Nat /\ n_evals \in Nat
    /\ is_leader \in 0 .. NumWorkers /\ waiting \in 0 .. NumWorkers
    /\ evalq \in Seq(Leaf) /\ Len(evalq) <= EvalBuffer
    /\ monq \in Seq(JobType)
    /\ epc \in {"idle", "run", "send", "ended"} /\ job \in JobType
    /\ best \in 0 .. Inf
    /\ mpc \in {"run", "closed", "stopped", "exhausted"}
    /\ status \in [leaf : Leaf \cup {NoLeaf}, eval : 0 .. Inf, num : Nat]

(***************************************************************************)
(* The best time the evaluation thread skips candidates against is the     *)
(* best the monitor knows or is about to learn: the two never diverge,     *)
(* although each thread keeps its own copy and messages are in flight.     *)
(***************************************************************************)
InFlight ==
    {monq[i].eval : i \in 1 .. Len(monq)} \cup
    (IF epc = "send" THEN {job.eval} ELSE {})

BestInSync ==
    mpc = "run" =>
        /\ best \in InFlight \cup {status.eval}
        /\ \A e \in InFlight \cup {status.eval} : best <= e

(***************************************************************************)
(* The monitor never raises the cut, so what a store pruned stays pruned:  *)
(* ParallelCandidateList::update_cut overwrites the cut and relies on it.  *)
(***************************************************************************)
CutNeverRises == [][cut' <= cut]_searchVars

(***************************************************************************)
(* A candidate the monitor reports with a finite time ran in that time,    *)
(* and its results passed check_result_fn, although only candidates that   *)
(* beat the evaluation thread's best are checked.                          *)
(***************************************************************************)
BestIsChecked ==
    status.eval < Inf =>
        /\ status.leaf \in Leaf /\ status.eval = Time[status.leaf]
        /\ HasCheck => status.leaf \in Valid

Usable(l) == Time[l] < Inf /\ (HasCheck => l \in Valid)

(***************************************************************************)
(* Branch and bound is exact: when the search ends because no candidate is *)
(* left, no usable candidate beats the cut of the best one (its time, less *)
(* distance_to_best), whatever was pruned, skipped or evaluated out of     *)
(* order in between.                                                       *)
(***************************************************************************)
Optimal ==
    mpc = "exhausted" =>
        \A l \in Leaf : Usable(l) => NewCut(status.eval) <= Time[l]

(***************************************************************************)
(* One worker performs the restart, and while it does no other worker is   *)
(* inside the store or about to enter it.                                  *)
(***************************************************************************)
RestartIsExclusive ==
    \A w \in Worker : wpc[w] = "restart" =>
        \A v \in Worker \ {w} : wpc[v] \in {"elect", "leave", "barrier2"}

(***************************************************************************)
(* launch_search waits for each thread it launched to finish, and each of  *)
(* them does: a full evaluation queue, a monitor that hangs up or an       *)
(* exhausted store never leave a thread blocked.                           *)
(***************************************************************************)
SearchEnds == <>Finished

(***************************************************************************)
(* In a search that does not restart its store every thread does end,      *)
(* however the timeout, the limit of evaluations, failing kernels and a    *)
(* full queue come together.                                               *)
(***************************************************************************)
PlainSearchEnds == ~has_restart => <>Finished
=============================================================================
