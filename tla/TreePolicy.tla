----------------------------- MODULE TreePolicy -----------------------------
(***************************************************************************)
(* The tree policies of the MCTS store (src/explorer/mcts.rs) at one node  *)
(* of the explicit tree: round robin, UCT and TAG.  Several threads call   *)
(* pick_child on the same edges while the monitor backpropagates           *)
(* evaluations and children are killed; only the counters are atomic and   *)
(* only the vectors of evaluations are locked.                             *)
(*                                                                         *)
(* Scores in floating point are left out: TAG's heval increases with the   *)
(* successes of a branch and decreases with its trials, so an edge that    *)
(* another one beats in both is not picked; UCT may pick any edge.         *)
(***************************************************************************)
EXTENDS Integers, Sequences, SequencesExt, FiniteSets

CONSTANTS
    Thread,       \* the exploration threads
    Edge,         \* the edges of the node: integers, in index order
    Policies,     \* the tree policies: "rr", "uct", "tag"
    Value,        \* execution times
    TopK,         \* TAGConfig::topk
    MaxDescents,  \* bound on the descents explored
    MaxRestart    \* bound on the restarts explored

ASSUME PolicyAssumption ==
    /\ Edge \subseteq Nat /\ Edge # {} /\ IsFiniteSet(Edge) /\ IsFiniteSet(Thread)
    /\ Policies \subseteq {"rr", "uct", "tag"} /\ Value \subseteq Nat /\ TopK \in Nat

VARIABLES
    policy,       \* config.tree_policy
    live,         \* edges whose node is live and below the cut
    visits,       \* CommonStats::num_visits
    evalns,       \* TAGStats::evaluations
    top, sum,     \* UCTStats::best_evaluation (<<>> for -inf) and sum_evaluations
    pc, view,     \* where each thread is; the children it was given
    todo, snap,   \* edges its loop has not reached; the visits it read
    acc, hits,    \* its evalns, from which the threshold comes; successes
    had,          \* history: how many evaluations it collected from
    due,          \* descents whose evaluation may still be committed
    mpc, msg,     \* the monitor, and the edge and evaluation it commits
    restarts,
    descents,     \* how many descents went through the node
    log           \* history: how often each value was recorded on each edge

statVars == <<visits, evalns, top, sum>>
threadVars == <<pc, view, todo, snap, acc, hits, had>>
monVars == <<due, mpc, msg, log, restarts, descents>>
vars == <<policy, live, statVars, threadVars, monVars>>

Zero == [e \in Edge |-> 0]
Nothing == [e \in Edge |-> <<>>]
NoLog == [e \in Edge |-> [v \in Value |-> 0]]

Total(f, S) == MapThenSumSet(LAMBDA e : f[e], S)

Init ==
    /\ policy \in Policies /\ live = Edge
    /\ visits = Zero /\ evalns = Nothing /\ top = Nothing /\ sum = Zero
    /\ pc = [t \in Thread |-> "idle"] /\ view = [t \in Thread |-> {}]
    /\ todo = [t \in Thread |-> {}] /\ snap = [t \in Thread |-> Zero]
    /\ acc = [t \in Thread |-> <<>>] /\ hits = [t \in Thread |-> Zero]
    /\ had = [t \in Thread |-> 0]
    /\ due = Zero /\ mpc = "recv" /\ msg = <<>> /\ log = NoLog /\ restarts = 0 /\ descents = 0

Goto(t, next) == pc' = [pc EXCEPT ![t] = next]

-----------------------------------------------------------------------------
(* Evaluations, a sorted vector of the best evaluations.                    *)

\* Mutant of Position: the order of the comparison is reversed.
PositionReversed(s, v) == Cardinality({i \in DOMAIN s : s[i] > v})

\* Where binary_search_by finds or would put v.
Position(s, v) == Cardinality({i \in DOMAIN s : s[i] < v})

Record(s, v) ==
    IF Position(s, v) < TopK
    THEN InsertAt(IF Len(s) >= TopK THEN Front(s) ELSE s, Position(s, v) + 1, v)
    ELSE s

CountLte(s, threshold) == Cardinality({i \in DOMAIN s : s[i] <= threshold})

\* Mutant of RecordAll: the loop stops at the first evaluation.
RecordAllFirst(s, evals) == IF evals = <<>> THEN s ELSE Record(s, Head(evals))

\* The loop over a sorted vector bails out at the first value not recorded.
RecordAll(s, evals) ==
    LET Step(a, v) == IF a.on /\ Position(a.s, v) < TopK
                      THEN [s |-> Record(a.s, v), on |-> TRUE]
                      ELSE [a EXCEPT !.on = FALSE]
    IN  FoldLeft(Step, [s |-> s, on |-> TRUE], evals).s

-----------------------------------------------------------------------------
(* TreePolicy::pick_child: an action is one access to an edge's data.       *)

\* NewNodeOrder::into_selector on the unvisited children: any may be drawn.
Unvisited(t) == {e \in view[t] : snap[t][e] = 0}

\* select_intree hands the live children to the policy.
Begin(t) ==
    /\ pc[t] = "idle"
    /\ view' = [view EXCEPT ![t] = live] /\ todo' = [todo EXCEPT ![t] = live]
    /\ Goto(t, "visits")
    /\ UNCHANGED <<policy, live, statVars, snap, acc, hits, had, monVars>>

\* The counters are loaded one after the other.
ReadVisits(t) ==
    /\ pc[t] = "visits" /\ todo[t] # {}
    /\ LET e == Min(todo[t]) IN
         snap' = [snap EXCEPT ![t][e] = visits[e]] /\ todo' = [todo EXCEPT ![t] = @ \ {e}]
    /\ UNCHANGED <<policy, live, statVars, pc, view, acc, hits, had, monVars>>

\* CommonStats::down on the edge selected; the descent goes on below it.
Down(t, e) ==
    /\ descents < MaxDescents /\ descents' = descents + 1
    /\ visits' = [visits EXCEPT ![e] = @ + 1] /\ due' = [due EXCEPT ![e] = @ + 1]
    /\ Goto(t, "idle") /\ view' = [view EXCEPT ![t] = {}]
    /\ snap' = [snap EXCEPT ![t] = Zero] /\ hits' = [hits EXCEPT ![t] = Zero]
    /\ acc' = [acc EXCEPT ![t] = <<>>] /\ had' = [had EXCEPT ![t] = 0]
    /\ UNCHANGED <<policy, live, evalns, top, sum, todo, mpc, msg, log, restarts>>

Loaded(t) == pc[t] = "visits" /\ todo[t] = {}

\* Mutant of LeastVisited: the order of visits is reversed.
LeastVisitedReversed(t) == {e \in view[t] : \A f \in view[t] : snap[t][f] <= snap[t][e]}

\* The child with the highest score of RoundRobinPolicy: max_by returns the last of several.
LeastVisited(t) ==
    {e \in view[t] : \A f \in view[t] :
        snap[t][e] < snap[t][f] \/ (snap[t][e] = snap[t][f] /\ f <= e)}

PickRoundRobin(t) == Loaded(t) /\ policy = "rr" /\ \E e \in LeastVisited(t) : Down(t, e)

\* UCT's value and exploration term: any child may have the highest score.
HighestUCT(t) == view[t]

\* With an infinite cut every child counts as unvisited for UCTPolicy.
PickUCT(t) ==
    /\ Loaded(t) /\ policy = "uct"
    /\ \E infinite \in BOOLEAN :
         \E e \in IF infinite \/ Unvisited(t) = {} THEN HighestUCT(t) ELSE Unvisited(t) :
             Down(t, e)

\* TAGPolicy picks an unvisited child first.
PickUnvisited(t) == Loaded(t) /\ policy = "tag" /\ \E e \in Unvisited(t) : Down(t, e)

\* Then it collects the best evaluations of all edges, each under its lock.
Collect(t) ==
    LET left == IF pc[t] = "visits" THEN view[t] ELSE todo[t]
        e == Min(left)
    IN  /\ \/ Loaded(t) /\ policy = "tag" /\ Unvisited(t) = {}
           \/ pc[t] = "collect"
        /\ acc' = [acc EXCEPT ![t] = RecordAll(@, evalns[e])]
        /\ had' = [had EXCEPT ![t] = @ + Len(evalns[e])]
        /\ todo' = [todo EXCEPT ![t] = IF left = {e} THEN view[t] ELSE left \ {e}]
        /\ Goto(t, IF left = {e} THEN "count" ELSE "collect")
        /\ UNCHANGED <<policy, live, statVars, view, snap, hits, monVars>>

\* Successes against the threshold, infinite when nothing was recorded.
Successes(t, s) == IF acc[t] = <<>> THEN Len(s) ELSE CountLte(s, Last(acc[t]))

\* The vectors are locked a second time; the monitor may have been there.
Count(t) ==
    /\ pc[t] = "count" /\ todo[t] # {}
    /\ LET e == Min(todo[t]) IN
         /\ hits' = [hits EXCEPT ![t][e] = Successes(t, evalns[e])]
         /\ todo' = [todo EXCEPT ![t] = @ \ {e}]
    /\ Goto(t, IF Cardinality(todo[t]) = 1 THEN "score" ELSE "count")
    /\ UNCHANGED <<policy, live, statVars, view, snap, acc, had, monVars>>

\* Mutant of Trials: the counter is loaded again when the score is computed.
TrialsReread(t, e) == visits[e]

\* The trials of a branch, as they were loaded at the start.
Trials(t, e) == snap[t][e]

NodeTrials(t) == Total(snap[t], view[t])

\* f has a higher heval than e.
Beats(t, f, e) ==
    /\ hits[t][f] >= hits[t][e] /\ Trials(t, f) <= Trials(t, e)
    /\ hits[t][f] > hits[t][e] \/ Trials(t, f) < Trials(t, e)

PickScore(t) ==
    /\ pc[t] = "score"
    /\ \E e \in view[t] : (\A f \in view[t] : ~Beats(t, f, e)) /\ Down(t, e)

-----------------------------------------------------------------------------
(* The other threads: kills, the monitor and restarts.                      *)

\* A child dies; with the last one the node itself would.
Kill ==
    /\ \E e \in live : live # {e} /\ live' = live \ {e}
    /\ UNCHANGED <<policy, statVars, threadVars, monVars>>

\* UCTPolicy::reward, with Reward::NegTime.
Reward(v) == -v

\* UCTStats::up keeps the highest reward.
Best(e, v) == IF top[e] = <<>> \/ Reward(v) > top[e][1] THEN <<Reward(v)>> ELSE top[e]

\* commit_evaluation finds the evaluation to be of this restart.
Commit ==
    /\ mpc = "recv"
    /\ \E e \in Edge : due[e] > 0 /\ due' = [due EXCEPT ![e] = @ - 1] /\ msg' = <<e>>
    /\ mpc' = "up"
    /\ UNCHANGED <<policy, live, statVars, threadVars, log, restarts, descents>>

\* TreePolicy::backpropagate: TAGStats::up, or the first lock of UCTStats::up.
Up ==
    /\ mpc = "up"
    /\ \E e \in {msg[1]}, v \in Value :
         /\ log' = [log EXCEPT ![e][v] = IF policy = "rr" THEN @ ELSE @ + 1]
         /\ evalns' = [evalns EXCEPT ![e] = IF policy = "tag" THEN Record(@, v) ELSE @]
         /\ top' = [top EXCEPT ![e] = IF policy = "uct" THEN Best(e, v) ELSE @]
         /\ msg' = IF policy = "uct" THEN <<e, v>> ELSE <<>>
    /\ mpc' = IF policy = "uct" THEN "sum" ELSE "recv"
    /\ UNCHANGED <<policy, live, visits, sum, threadVars, due, restarts, descents>>

\* The second lock of UCTStats::up.
UpSum ==
    /\ mpc = "sum"
    /\ sum' = [sum EXCEPT ![msg[1]] = @ + Reward(msg[2])]
    /\ mpc' = "recv" /\ msg' = <<>>
    /\ UNCHANGED <<policy, live, visits, evalns, top, threadVars, due, log, restarts,
                   descents>>

Reset == visits' = Zero /\ evalns' = Nothing /\ top' = Nothing /\ sum' = Zero

\* Store::restart, with every thread at the barrier; old evaluations lapse.
Restart ==
    /\ restarts < MaxRestart /\ \A t \in Thread : pc[t] = "idle"
    /\ Reset /\ restarts' = restarts + 1
    /\ due' = Zero /\ log' = NoLog
    /\ UNCHANGED <<policy, live, threadVars, mpc, msg, descents>>

-----------------------------------------------------------------------------
ThreadNext(t) ==
    \/ Begin(t) \/ ReadVisits(t) \/ PickRoundRobin(t) \/ PickUCT(t) \/ PickUnvisited(t)
    \/ Collect(t) \/ Count(t) \/ PickScore(t)

Next ==
    \/ \E t \in Thread : ThreadNext(t)
    \/ Kill \/ Commit \/ Up \/ UpSum \/ Restart

Spec == Init /\ [][Next]_vars

-----------------------------------------------------------------------------
(***************************************************************************)
(* The counters, vectors and threads have the types of the code; a vector  *)
(* of evaluations never outgrows topk.                                     *)
(***************************************************************************)
TypeOK ==
    /\ policy \in Policies /\ live \subseteq Edge
    /\ visits \in [Edge -> 0 .. MaxDescents] /\ due \in [Edge -> 0 .. MaxDescents]
    /\ \A e \in Edge : Len(evalns[e]) <= TopK /\ Len(top[e]) <= 1 /\ sum[e] <= 0
    /\ pc \in [Thread -> {"idle", "visits", "collect", "count", "score"}]
    /\ mpc \in {"recv", "up", "sum"}
    /\ \A t \in Thread : view[t] \subseteq Edge /\ todo[t] \subseteq view[t]

(***************************************************************************)
(* Evaluations::record keeps, in order, exactly the topk best evaluations  *)
(* backpropagated since the last restart: below every threshold the vector *)
(* holds as many as were recorded, up to topk.                             *)
(***************************************************************************)
TopkOfHistory ==
    policy = "tag" => \A e \in Edge :
        /\ \A i \in 1 .. Len(evalns[e]) - 1 : evalns[e][i] <= evalns[e][i + 1]
        /\ \A v \in Value :
             LET n == Total(log[e], {u \in Value : u <= v})
             IN  CountLte(evalns[e], v) = IF n < TopK THEN n ELSE TopK

(***************************************************************************)
(* The threshold TAG computes from a first pass over the evaluations gives *)
(* topk successes (or all there are) in the second pass, although the      *)
(* monitor records and evicts evaluations between the two.                 *)
(***************************************************************************)
SuccessesReachTopk ==
    \A t \in Thread : pc[t] = "score" =>
        Total(hits[t], view[t]) >= (IF had[t] < TopK THEN had[t] ELSE TopK)

(***************************************************************************)
(* heval divides by the trials of a branch and asserts that they do not    *)
(* exceed those of the node, while other threads go on visiting.           *)
(***************************************************************************)
HevalDefined ==
    \A t \in Thread : pc[t] = "score" =>
        \A e \in view[t] : Trials(t, e) > 0 /\ Trials(t, e) <= NodeTrials(t)

(***************************************************************************)
(* Round robin selects the least visited child: two live children are      *)
(* never more visits apart than there are threads with a stale view.       *)
(***************************************************************************)
RoundRobinBalanced ==
    policy = "rr" => \A e, f \in live : visits[e] - visits[f] <= Cardinality(Thread)

=============================================================================
