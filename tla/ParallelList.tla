---------------------------- MODULE ParallelList ----------------------------
(***************************************************************************)
(* The bound-ordered candidate store of the explorer                       *)
(* (src/explorer/parallel_list.rs): a priority queue of candidates behind  *)
(* a mutex and a condition variable, shared by `num_worker' exploration    *)
(* threads.  A worker pops the candidate with the lowest bound, splits it  *)
(* along its next open choice and inserts the candidates it obtains, until *)
(* it pops a fully specified one, which it returns for evaluation.  The    *)
(* monitor thread concurrently lowers the cut above which candidates are   *)
(* dropped.                                                                *)
(*                                                                         *)
(* One action is one critical section of the mutex.  The mutex itself is   *)
(* therefore implicit; the condition variable is not: a waiting thread is  *)
(* first woken (by notify_all or spuriously) and only later re-acquires    *)
(* the lock.                                                               *)
(***************************************************************************)
EXTENDS Naturals, FiniteSets

CONSTANTS
    Worker,       \* the exploration threads (config.num_workers of them)
    Cand,         \* the candidates of the search tree
    Root,         \* the candidates find_best_ex inserts at the start
    Choices,      \* Choices[c]: the candidates apply_choice obtains from c
    Leaf,         \* the candidates that have no open choice
    Bound,        \* Bound[c]: the lower bound on c's execution time
    Inf,          \* f64::INFINITY, the initial cut
    NoCand        \* Option::None

(***************************************************************************)
(* The candidates form a forest: apply_choice creates new candidates.      *)
(***************************************************************************)
ASSUME WorkerAssumption == IsFiniteSet(Worker) /\ Worker # {}

ASSUME CandAssumption ==
    /\ Root \subseteq Cand /\ Leaf \subseteq Cand /\ NoCand \notin Cand
    /\ Choices \in [Cand -> SUBSET Cand]
    /\ \A c, d \in Cand : Choices[c] \cap Choices[d] # {} => c = d
    /\ \A c \in Cand : Choices[c] \cap Root = {}

ASSUME BoundAssumption == Inf \in Nat /\ Bound \in [Cand -> 0 .. Inf - 1]

VARIABLES
    queue,        \* CandidateList::queue
    cut,          \* CandidateList::cut
    count,        \* the usize of the mutex: workers neither waiting nor gone
    pc,           \* where each worker is
    hold,         \* the candidate a worker popped and has not disposed of
    expanded,     \* history: candidates replaced by their children
    dropped,      \* history: candidates given to drop_candidate
    returned      \* history: leaves returned by explore

histVars == <<expanded, dropped, returned>>
vars == <<queue, cut, count, pc, hold, expanded, dropped, returned>>

(***************************************************************************)
(* "pop": about to call pop; "decide": holds a candidate it popped;        *)
(* "wait": blocked in Condvar::wait; "woken": notified, lock not yet       *)
(* re-acquired; "eval": explore returned a leaf to the caller;             *)
(* "done": explore returned None.                                          *)
(***************************************************************************)
Where == {"pop", "decide", "wait", "woken", "eval", "done"}

Active(w) == pc[w] \in {"pop", "decide", "eval"}

Held == {hold[w] : w \in {v \in Worker : pc[v] = "decide"}}

(***************************************************************************)
(* CandidateList::insert on each candidate of S: those at or above the cut *)
(* are dropped, the others are pushed.                                     *)
(***************************************************************************)
InsertMany(S) ==
    /\ queue' = queue \cup {c \in S : Bound[c] < cut}
    /\ dropped' = dropped \cup {c \in S : Bound[c] >= cut}

Init ==
    /\ cut = Inf
    /\ queue = Root
    /\ count = Cardinality(Worker)
    /\ pc = [w \in Worker |-> "pop"]
    /\ hold = [w \in Worker |-> NoCand]
    /\ expanded = {} /\ dropped = {} /\ returned = {}

\* Mutant of NotifyAll: the notification is forgotten.
NotifyNobody(w, next) == pc' = [pc EXCEPT ![w] = next]

(***************************************************************************)
(* Condvar::notify_all, leaving worker w itself at `next'.                 *)
(***************************************************************************)
NotifyAll(w, next) ==
    pc' = [v \in Worker |->
             IF v = w THEN next ELSE IF pc[v] = "wait" THEN "woken" ELSE pc[v]]

\* Mutant of PopLast: an empty queue is taken for the end of the search.
PopLastEarly(w, n) ==
    /\ queue = {}
    /\ count' = n - 1
    /\ NotifyAll(w, "done")
    /\ UNCHANGED <<queue, hold>>

(***************************************************************************)
(* One turn of the loop of ParallelCandidateList::pop, entered with n      *)
(* workers counted as active, the caller included.                         *)
(***************************************************************************)
PopMin(w, n) ==
    /\ \E c \in queue :
         /\ \A d \in queue : Bound[c] <= Bound[d]
         /\ queue' = queue \ {c}
         /\ hold' = [hold EXCEPT ![w] = c]
    /\ pc' = [pc EXCEPT ![w] = "decide"]
    /\ count' = n

PopLast(w, n) ==
    /\ queue = {} /\ n = 1
    /\ count' = n - 1
    /\ NotifyAll(w, "done")
    /\ UNCHANGED <<queue, hold>>

PopWait(w, n) ==
    /\ queue = {} /\ n # 1
    /\ count' = n - 1
    /\ pc' = [pc EXCEPT ![w] = "wait"]
    /\ UNCHANGED <<queue, hold>>

PopLoop(w, n) ==
    /\ PopMin(w, n) \/ PopLast(w, n) \/ PopWait(w, n)
    /\ UNCHANGED <<cut, histVars>>

\* explore calls pop and acquires the lock.
Pop(w) == pc[w] = "pop" /\ PopLoop(w, count)

\* Mutant of Rewake: the worker forgets to count itself again.
RewakeUncounted(w) == pc[w] = "woken" /\ PopLoop(w, count)

\* The wait of pop returns with the lock: the worker counts itself again.
Rewake(w) == pc[w] = "woken" /\ PopLoop(w, count + 1)

\* Condvar::wait may return without a notification.
SpuriousWake(w) ==
    /\ pc[w] = "wait"
    /\ pc' = [pc EXCEPT ![w] = "woken"]
    /\ UNCHANGED <<queue, cut, count, hold, histVars>>

\* explore applies the first open choice and inserts the outcome.
Expand(w) ==
    /\ pc[w] = "decide" /\ hold[w] \notin Leaf
    /\ InsertMany(Choices[hold[w]])
    /\ expanded' = expanded \cup {hold[w]}
    /\ hold' = [hold EXCEPT ![w] = NoCand]
    /\ NotifyAll(w, "pop")
    /\ UNCHANGED <<cut, count, returned>>

\* No open choice is left: explore returns the candidate.
Return(w) ==
    /\ pc[w] = "decide" /\ hold[w] \in Leaf
    /\ returned' = returned \cup {hold[w]}
    /\ hold' = [hold EXCEPT ![w] = NoCand]
    /\ pc' = [pc EXCEPT ![w] = "eval"]
    /\ UNCHANGED <<queue, cut, count, expanded, dropped>>

\* The exploration loop is back from add_kernel and calls explore again.
Again(w) ==
    /\ pc[w] = "eval"
    /\ pc' = [pc EXCEPT ![w] = "pop"]
    /\ UNCHANGED <<queue, cut, count, hold, histVars>>

\* Mutant of SetCut: candidates just below the cut are dropped too.
SetCutOffByOne(new) ==
    /\ cut' = new
    /\ queue' = {c \in queue : Bound[c] + 1 < new}
    /\ dropped' = dropped \cup {c \in queue : Bound[c] + 1 >= new}
    /\ UNCHANGED <<count, pc, hold, expanded, returned>>

(***************************************************************************)
(* CandidateList::update_cut: the new cut is stored as it is, the          *)
(* candidates at or above it leave the queue, and nobody is notified.      *)
(***************************************************************************)
SetCut(new) ==
    /\ cut' = new
    /\ queue' = {c \in queue : Bound[c] < new}
    /\ dropped' = dropped \cup {c \in queue : Bound[c] >= new}
    /\ UNCHANGED <<count, pc, hold, expanded, returned>>

\* Mutant of UpdateCut: a worse candidate raises the cut again.
UpdateCutAnyhow == \E new \in 0 .. Inf : SetCut(new)

\* The monitor only ever lowers the cut (ExploreSpace!CutNeverRises).
UpdateCut == \E new \in 0 .. Inf : new < cut /\ SetCut(new)

WorkerStep(w) ==
    Pop(w) \/ Rewake(w) \/ Expand(w) \/ Return(w) \/ Again(w)

AllDone == \A w \in Worker : pc[w] = "done"

Next ==
    \/ \E w \in Worker : WorkerStep(w) \/ SpuriousWake(w)
    \/ UpdateCut

Spec == Init /\ [][Next]_vars

(***************************************************************************)
(* Every runnable thread eventually gets the processor and, when it wants  *)
(* it, the mutex.  Nothing is assumed of spurious wakeups or the monitor.  *)
(***************************************************************************)
FairSpec == Spec /\ \A w \in Worker : WF_vars(WorkerStep(w))

-----------------------------------------------------------------------------
(***************************************************************************)
(* The queue, the cut, the counter, the workers and the history have the   *)
(* types of the code.  count is a usize: it never goes below zero.         *)
(***************************************************************************)
TypeOK ==
    /\ queue \subseteq Cand /\ expanded \subseteq Cand
    /\ dropped \subseteq Cand /\ returned \subseteq Cand
    /\ cut \in 0 .. Inf
    /\ count \in 0 .. Cardinality(Worker)
    /\ pc \in [Worker -> Where]
    /\ hold \in [Worker -> Cand \cup {NoCand}]
    /\ \A w \in Worker : pc[w] = "decide" <=> hold[w] # NoCand

(***************************************************************************)
(* The counter next to the queue is exactly the number of workers that can *)
(* still insert candidates, whatever the order of waits, notifications and *)
(* spurious wakeups.  pop's termination test depends on it.                *)
(***************************************************************************)
CountIsActive == count = Cardinality({w \in Worker : Active(w)})

(***************************************************************************)
(* pop returns None only when the whole queue has been processed: once one *)
(* worker has left, the queue is empty and no other worker holds or can    *)
(* still obtain a candidate.                                               *)
(***************************************************************************)
NoEarlyExit ==
    (\E w \in Worker : pc[w] = "done") =>
        /\ queue = {}
        /\ \A w \in Worker : pc[w] \in {"woken", "done"}

(***************************************************************************)
(* A candidate has one owner: it is queued, held by a single worker,       *)
(* expanded, dropped or returned, and never two of these.  So no candidate *)
(* is explored twice and no leaf is evaluated twice.                       *)
(***************************************************************************)
SingleOwner ==
    /\ \A v, w \in Worker : pc[v] = "decide" /\ hold[v] = hold[w] => v = w
    /\ queue \cap (Held \cup expanded \cup dropped \cup returned) = {}
    /\ Held \cap (expanded \cup dropped \cup returned) = {}
    /\ expanded \cap (dropped \cup returned) = {}
    /\ dropped \cap returned = {}

(***************************************************************************)
(* Nothing is lost: the inserted candidates are all accounted for, and a   *)
(* dropped one was not below the current cut.  With NoEarlyExit this says  *)
(* that a finished search returned every leaf that no ancestor's bound cut.*)
(***************************************************************************)
Seen == queue \cup Held \cup expanded \cup dropped \cup returned

NothingLost ==
    /\ Root \subseteq Seen
    /\ \A c \in expanded : Choices[c] \subseteq Seen
    /\ \A c \in dropped : Bound[c] >= cut

(***************************************************************************)
(* A candidate enters the store once, as a root or when its parent is      *)
(* split: no candidate appears before its parent was expanded.             *)
(***************************************************************************)
ParentFirst ==
    \A c \in Seen : c \in Root \/ \E p \in expanded : c \in Choices[p]

(***************************************************************************)
(* The heap never holds a candidate at or above the cut.                   *)
(***************************************************************************)
QueueBelowCut == \A c \in queue : Bound[c] < cut

(***************************************************************************)
(* No wakeup is lost: the worker that finds the store exhausted releases   *)
(* the others, so all of them leave explore.                               *)
(***************************************************************************)
Termination == <>AllDone
=============================================================================
