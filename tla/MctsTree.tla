------------------------------ MODULE MctsTree ------------------------------
(***************************************************************************)
(* The search tree of the MCTS store (src/explorer/mcts.rs), shared by the *)
(* exploration threads and the monitor without a global lock.  A thread    *)
(* descends from the root: in the explicit tree it selects an unexpanded   *)
(* child, expands it and goes on with a rollout down to an implementation; *)
(* nodes at or above the cut, or without live children, are killed on the  *)
(* way.                                                                    *)
(*                                                                         *)
(* An action is one access to shared memory: an atomic flag, or a critical *)
(* section of the lock of an edge, of a candidate or of `expanded'.  A     *)
(* thread that has marked a node dead still has to clear its candidate     *)
(* (`pend').  Statistics and policies only choose among live children and  *)
(* are nondeterministic.                                                   *)
(***************************************************************************)
EXTENDS Naturals, FiniteSets

CONSTANTS
    Thread,       \* the exploration threads
    Node,         \* the nodes of the tree: integers, in creation order
    Root,
    Kids,         \* Kids[n]: the nodes behind the edges of n, in index order
    Parent,       \* Parent[n], for every node but the root
    Failing,      \* the nodes whose action constraint propagation refuses
    Bound,        \* Bound[n]: the bound of the performance model
    Time,         \* Time[l]: the evaluation of implementation l
    Inf,          \* f64::INFINITY
    InitCut,      \* config.initial_cut, Inf for None
    None,         \* no node, no thread
    Backtrack,    \* config.backtrack_deadends
    CanStop,      \* the monitor may call stop_exploration
    MaxRestart    \* bound on the restarts explored

Impl == {n \in Node : Kids[n] = {} /\ n \notin Failing}

\* Sets of nodes that have the parent of each of their nodes.
Rooted == {S \in SUBSET Node : \A n \in S \ {Root} : Parent[n] \in S}

\* The nodes on the path from the root to n.
Path(n) == {a \in Node : \A S \in Rooted : n \in S => a \in S}

ASSUME TreeAssumption ==
    /\ Node \subseteq Nat /\ Root \in Node \ Failing /\ None \notin Node \cup Thread
    /\ Kids \in [Node -> SUBSET Node]
    /\ Parent \in [Node \ {Root} -> Node]
    /\ \A n \in Node : n \in Failing => Kids[n] = {}
    /\ \A n \in Node, k \in Node : k \in Kids[n] <=> k # Root /\ Parent[k] = n
    /\ \A n \in Node : Root \in Path(n)
    /\ Inf \in Nat /\ Bound \in [Node -> 0 .. Inf - 1]
    /\ Time \in [Impl -> 0 .. Inf] /\ InitCut \in 0 .. Inf

VARIABLES
    made,         \* nodes published on their edge
    dead,         \* Node::dead
    cand,         \* nodes whose candidate field is Some
    expanded,     \* Node::expanded
    xlock,        \* the thread inside the write lock of `expanded', or None
    cut, epoch, stop, restart_id,
    stats,        \* stats[n]: restart ids of the evaluations on n's parent edge
    pc,           \* where each thread is
    cur,          \* the node its cursor points to
    base,         \* the node its rollout started from
    ccut, cepoch, \* NodeCursor::cut and cut_epoch
    todo,         \* children its iterator has not reached
    seen, fresh,  \* live children found: expanded (or any, in a rollout), unexpanded
    pend,         \* killed node whose candidate it has not cleared yet
    evals,        \* history: how often explore returned each implementation
    mail,         \* evaluations on their way to the monitor
    mpc, msg,     \* the monitor and the evaluation it commits
    mbest,        \* the best evaluation it knows; Inf + 1 for None
    rpc           \* where restart is

treeVars == <<made, dead, cand, expanded, xlock>>
globVars == <<cut, epoch, stop, restart_id, rpc, stats>>
scanVars == <<todo, seen, fresh>>
curVars == <<cur, base, ccut, cepoch>>
monVars == <<mpc, msg, mbest>>
vars == <<treeVars, globVars, scanVars, curVars, monVars, pc, pend, evals, mail>>

NoMsg == [leaf |-> None, base |-> None, rid |-> 0]

Live(n) == n \notin dead

\* The next child of an iterator over the edges.
NextKid(S) == CHOOSE k \in S : \A j \in S : k <= j

Goto(t, next) == pc' = [pc EXCEPT ![t] = next]

Ready(t, at) == pc[t] = at /\ pend[t] = None

Init ==
    /\ made = {Root} /\ dead = {} /\ cand = {Root} /\ expanded = {}
    /\ xlock = [n \in Node |-> None]
    /\ cut = InitCut /\ epoch = 0 /\ stop = FALSE /\ restart_id = 0
    /\ stats = [n \in Node |-> {}]
    /\ pc = [t \in Thread |-> "idle"] /\ cur = [t \in Thread |-> Root]
    /\ base = [t \in Thread |-> None]
    /\ ccut = [t \in Thread |-> InitCut] /\ cepoch = [t \in Thread |-> 0]
    /\ todo = [t \in Thread |-> {}] /\ seen = [t \in Thread |-> {}]
    /\ fresh = [t \in Thread |-> {}] /\ pend = [t \in Thread |-> None]
    /\ evals = [n \in Impl |-> 0]
    /\ mail = {} /\ mpc = "recv" /\ msg = NoMsg
    /\ mbest = Inf + 1 /\ rpc = "none"

-----------------------------------------------------------------------------
(* Node::kill: the dead flag first, the candidate in a later step.          *)

\* Mutant of Kill: the flag is never set.
KillForgets(t, n) == pend' = [pend EXCEPT ![t] = n] /\ UNCHANGED dead

Kill(t, n) == dead' = dead \cup {n} /\ pend' = [pend EXCEPT ![t] = n]

\* Mutant of Taken: the candidate is cloned instead of taken.
TakenCloned(n) == cand

\* take_candidate leaves nothing behind.
Taken(n) == cand \ {n}

Clear(t) ==
    /\ pend[t] # None
    /\ cand' = Taken(pend[t])
    /\ pend' = [pend EXCEPT ![t] = None]
    /\ UNCHANGED <<made, dead, expanded, xlock, globVars, scanVars, curVars, monVars,
                   pc, evals, mail>>

\* Mutant of Below: a node just below the cut is cut too.
BelowOffByOne(n, c) == Bound[n] + 1 < c

Below(n, c) == Bound[n] < c

(***************************************************************************)
(* NodeCursor::cut_node with cut c: the thread goes to `alive' when n is   *)
(* live and below c, and to `gone' otherwise.                              *)
(***************************************************************************)
CutNode(t, n, c, alive, gone) ==
    \/ Live(n) /\ Below(n, c) /\ Goto(t, alive) /\ UNCHANGED <<dead, pend>>
    \/ Live(n) /\ ~Below(n, c) /\ Goto(t, gone) /\ Kill(t, n)
    \/ ~Live(n) /\ Goto(t, gone) /\ UNCHANGED <<dead, pend>>

-----------------------------------------------------------------------------
(* MctsStore::explore                                                       *)

\* cursor() reads the cut, and only then the epoch of the cut.
ReadCut(t) ==
    /\ Ready(t, "idle") \/ Ready(t, "start")
    /\ rpc = "none"
    /\ ccut' = [ccut EXCEPT ![t] = cut]
    /\ Goto(t, "epoch")
    /\ UNCHANGED <<treeVars, globVars, scanVars, monVars, cur, base, cepoch, pend, evals, mail>>

ReadEpoch(t) ==
    /\ Ready(t, "epoch")
    /\ cepoch' = [cepoch EXCEPT ![t] = epoch]
    /\ Goto(t, "root")
    /\ UNCHANGED <<treeVars, globVars, scanVars, monVars, cur, base, ccut, pend, evals, mail>>

\* A dead root ends the exploration.
CutRoot(t) ==
    /\ Ready(t, "root")
    /\ CutNode(t, Root, ccut[t], "rootexp", "done")
    /\ UNCHANGED <<made, cand, expanded, xlock, globVars, scanVars, curVars, monVars, evals, mail>>

RootExpanded(t) ==
    /\ Ready(t, "rootexp") /\ xlock[Root] = None
    /\ Goto(t, IF Root \in expanded THEN "enter" ELSE "expand")
    /\ UNCHANGED <<treeVars, globVars, scanVars, curVars, monVars, pend, evals, mail>>

-----------------------------------------------------------------------------
(* NodeCursor::expand, on the node the cursor points to.                    *)

\* Where the thread goes on when expand returns None.
Unexpandable(t) == IF cur[t] = Root THEN "enter" ELSE "retry"

ExpandCheck(t) ==
    /\ Ready(t, "expand")
    /\ \/ ~Live(cur[t]) \/ ~Below(cur[t], ccut[t])
       \/ xlock[cur[t]] = None
    /\ CutNode(t, cur[t], ccut[t],
               IF cur[t] \in expanded THEN Unexpandable(t) ELSE "xlock", Unexpandable(t))
    /\ UNCHANGED <<made, cand, expanded, xlock, globVars, scanVars, curVars, monVars, evals, mail>>

\* Mutant of Beaten: `expanded' is not read again under the lock.
BeatenUnread(n) == FALSE

\* Somebody may have been faster.
Beaten(n) == n \in expanded

\* The write lock is taken; a node without a candidate must be dead.
ExpandLock(t) ==
    LET n == cur[t] IN
    /\ Ready(t, "xlock") /\ xlock[n] = None
    /\ \/ /\ Beaten(n)
          /\ Goto(t, Unexpandable(t)) /\ UNCHANGED <<cand, xlock, todo>>
       \/ /\ ~Beaten(n) /\ n \in cand
          /\ cand' = Taken(n) /\ xlock' = [xlock EXCEPT ![n] = t]
          /\ todo' = [todo EXCEPT ![t] = Kids[n]]
          /\ Goto(t, "xvisit")
       \/ /\ ~Beaten(n) /\ n \notin cand
          /\ Goto(t, IF Live(n) THEN "panic" ELSE Unexpandable(t))
          /\ UNCHANGED <<cand, xlock, todo>>
    /\ UNCHANGED <<made, dead, expanded, globVars, curVars, monVars, seen, fresh, pend, evals, mail>>

DeadOnArrival(t, k) == k \in Failing \/ ~Below(k, ccut[t])

\* Tree::node applies the action; the node is cut before it is published.
Create(t, k) ==
    /\ made' = made \cup {k}
    /\ dead' = IF DeadOnArrival(t, k) THEN dead \cup {k} ELSE dead

(***************************************************************************)
(* live_children_iter_with_candidates on the next child: it is created     *)
(* when missing, and cut when its bound is at or above the cursor's cut.   *)
(***************************************************************************)
Visit(t, k) ==
    \/ k \notin made /\ Create(t, k) /\ UNCHANGED pend
    \/ /\ k \in made /\ Live(k) /\ ~Below(k, ccut[t])
       /\ Kill(t, k) /\ UNCHANGED made
    \/ /\ k \in made /\ (Live(k) => Below(k, ccut[t]))
       /\ UNCHANGED <<made, dead, pend>>

\* What the iterator yields: the child was live when it was visited.
Yields(t, k) == k \notin dead'

ExpandVisit(t) ==
    /\ Ready(t, "xvisit") /\ todo[t] # {}
    /\ LET k == NextKid(todo[t]) IN
         /\ Visit(t, k)
         /\ IF Yields(t, k) THEN Goto(t, "xstore") /\ UNCHANGED todo
            ELSE todo' = [todo EXCEPT ![t] = @ \ {k}] /\ UNCHANGED pc
    /\ UNCHANGED <<cand, expanded, xlock, globVars, curVars, monVars, seen, fresh, evals, mail>>

ExpandStore(t) ==
    /\ Ready(t, "xstore")
    /\ LET k == NextKid(todo[t]) IN
         cand' = cand \cup {k} /\ todo' = [todo EXCEPT ![t] = @ \ {k}]
    /\ Goto(t, "xvisit")
    /\ UNCHANGED <<made, dead, expanded, xlock, globVars, curVars, monVars, seen, fresh,
                   pend, evals, mail>>

ExpandDone(t) ==
    /\ Ready(t, "xvisit") /\ todo[t] = {}
    /\ expanded' = expanded \cup {cur[t]}
    /\ xlock' = [xlock EXCEPT ![cur[t]] = None]
    /\ base' = [base EXCEPT ![t] = cur[t]]
    /\ Goto(t, "walk")
    /\ UNCHANGED <<made, dead, cand, globVars, scanVars, cur, ccut, cepoch, monVars,
                   pend, evals, mail>>

-----------------------------------------------------------------------------
(* NodeCursor::check_stop, and where a dead end leads.                      *)

\* The cursor is dropped: the next one starts from the root.
Home(t) == cur' = [cur EXCEPT ![t] = Root] /\ base' = [base EXCEPT ![t] = None]

\* Mutant of DeadEnd: explore takes any error for the end of the search.
DeadEndGivesUp(t) == Goto(t, "done") /\ Home(t)

\* With backtracking the parent's loop goes on, otherwise explore starts over.
DeadEnd(t) ==
    IF Backtrack /\ cur[t] # Root
    THEN /\ cur' = [cur EXCEPT ![t] = Parent[cur[t]]]
         /\ base' = [base EXCEPT ![t] = IF cur[t] = base[t] THEN None ELSE @]
         /\ Goto(t, IF cur[t] = base[t] \/ base[t] = None THEN "iloop" ELSE "wloop")
    ELSE Goto(t, "start") /\ Home(t)

CheckStop(t, at, next) ==
    /\ Ready(t, at)
    /\ \/ /\ stop /\ Goto(t, "done") /\ Home(t)
          /\ UNCHANGED <<dead, pend, ccut, cepoch, scanVars>>
       \/ /\ ~stop
          /\ cepoch' = [cepoch EXCEPT ![t] = epoch]
          /\ ccut' = [ccut EXCEPT ![t] = IF cepoch[t] # epoch THEN cut ELSE @]
          /\ LET over == cepoch[t] # epoch /\ ~Below(cur[t], cut) IN
             \/ /\ Live(cur[t]) /\ ~over
                /\ Goto(t, next)
                /\ todo' = [todo EXCEPT ![t] = Kids[cur[t]]]
                /\ UNCHANGED <<cur, base, dead, pend, seen, fresh>>
             \/ /\ Live(cur[t]) /\ over
                /\ Kill(t, cur[t]) /\ DeadEnd(t) /\ UNCHANGED scanVars
             \/ /\ ~Live(cur[t])
                /\ DeadEnd(t) /\ UNCHANGED <<dead, pend, scanVars>>
    /\ UNCHANGED <<made, cand, expanded, xlock, globVars, monVars, evals, mail>>

-----------------------------------------------------------------------------
(* PolicyWalker::walk, the rollout.                                         *)

\* An implementation is evaluated unless the cut or another thread killed it.
WalkEnter(t) ==
    /\ Ready(t, "walk")
    /\ \/ /\ cur[t] \notin Impl
          /\ Goto(t, "wloop") /\ UNCHANGED <<dead, pend, cur, base>>
       \/ /\ cur[t] \in Impl /\ Live(cur[t]) /\ Below(cur[t], ccut[t])
          /\ Goto(t, "found") /\ UNCHANGED <<dead, pend, cur, base>>
       \/ /\ cur[t] \in Impl /\ Live(cur[t]) /\ ~Below(cur[t], ccut[t])
          /\ Kill(t, cur[t]) /\ DeadEnd(t)
       \/ /\ cur[t] \in Impl /\ ~Live(cur[t])
          /\ DeadEnd(t) /\ UNCHANGED <<dead, pend>>
    /\ UNCHANGED <<made, cand, expanded, xlock, globVars, scanVars, ccut, cepoch, monVars,
                   evals, mail>>

\* The implementation is marked as dead and returned with its trace.
Found(t) ==
    /\ Ready(t, "found")
    /\ Kill(t, cur[t])
    /\ evals' = [evals EXCEPT ![cur[t]] = IF @ < 2 THEN @ + 1 ELSE @]
    /\ mail' = mail \cup {[leaf |-> cur[t], base |-> base[t], rid |-> restart_id]}
    /\ Goto(t, "idle") /\ Home(t)
    /\ UNCHANGED <<made, cand, expanded, xlock, globVars, scanVars, ccut, cepoch, monVars>>

WalkVisit(t) ==
    /\ Ready(t, "wscan") /\ todo[t] # {}
    /\ LET k == NextKid(todo[t]) IN
         /\ Visit(t, k)
         /\ todo' = [todo EXCEPT ![t] = @ \ {k}]
         /\ seen' = [seen EXCEPT ![t] = IF Yields(t, k) THEN @ \cup {k} ELSE @]
    /\ UNCHANGED <<cand, expanded, xlock, globVars, curVars, monVars, pc, fresh, evals, mail>>

\* What a policy may pick: its order and weights only matter below the cut.
PickChild(S, c) == {k \in S : Below(k, c)}

\* Without a child to pick the node is killed; a live child must not be left.
NoChild(t, S, loop) ==
    /\ PickChild(S, ccut[t]) = {} /\ UNCHANGED cur
    /\ IF \E k \in S : Live(k)
       THEN Goto(t, "panic") /\ UNCHANGED <<dead, pend>>
       ELSE Goto(t, loop) /\ Kill(t, cur[t])

WalkPick(t) ==
    /\ Ready(t, "wscan") /\ todo[t] = {}
    /\ \/ /\ \E k \in PickChild(seen[t], ccut[t]) : cur' = [cur EXCEPT ![t] = k]
          /\ Goto(t, "walk") /\ UNCHANGED <<dead, pend>>
       \/ NoChild(t, seen[t], "wloop")
    /\ seen' = [seen EXCEPT ![t] = {}]
    /\ UNCHANGED <<made, cand, expanded, xlock, globVars, todo, fresh, base, ccut, cepoch, monVars,
                   evals, mail>>

-----------------------------------------------------------------------------
(* MctsWalker::select_intree                                                *)

\* The two assertions at the entry of select_intree.
Enter(t) ==
    /\ Ready(t, "enter") /\ xlock[cur[t]] = None
    /\ Goto(t, IF cur[t] \in expanded /\ cur[t] \notin Impl THEN "iloop" ELSE "panic")
    /\ UNCHANGED <<treeVars, globVars, scanVars, curVars, monVars, pend, evals, mail>>

\* An edge without a node fails the expect("missing in-tree child").
TreeVisit(t) ==
    /\ Ready(t, "iscan") /\ todo[t] # {}
    /\ LET k == NextKid(todo[t]) IN
         /\ k \in made /\ Live(k) /\ Below(k, ccut[t]) => xlock[k] = None
         /\ IF k \notin made
            THEN Goto(t, "panic") /\ UNCHANGED <<dead, pend>>
            ELSE CutNode(t, k, ccut[t], "iscan", "iscan")
         /\ todo' = [todo EXCEPT ![t] = @ \ {k}]
         /\ seen' = [seen EXCEPT ![t] =
                       IF Yields(t, k) /\ k \in expanded THEN @ \cup {k} ELSE @]
         /\ fresh' = [fresh EXCEPT ![t] =
                       IF Yields(t, k) /\ k \notin expanded THEN @ \cup {k} ELSE @]
    /\ UNCHANGED <<made, cand, expanded, xlock, globVars, curVars, monVars, evals, mail>>

(***************************************************************************)
(* An unexpanded child is expanded first; else the tree policy picks an    *)
(* expanded one, and the node is entered, or tried again when it is an     *)
(* implementation another thread is evaluating.                            *)
(***************************************************************************)
TreePick(t) ==
    /\ Ready(t, "iscan") /\ todo[t] = {}
    /\ \/ /\ \E k \in PickChild(fresh[t], ccut[t]) : cur' = [cur EXCEPT ![t] = k]
          /\ Goto(t, "expand") /\ UNCHANGED <<dead, pend>>
       \/ /\ PickChild(fresh[t], ccut[t]) = {}
          /\ \E k \in PickChild(seen[t], ccut[t]) :
               IF k \in Impl
               THEN Goto(t, "iloop") /\ UNCHANGED cur
               ELSE Goto(t, "enter") /\ cur' = [cur EXCEPT ![t] = k]
          /\ UNCHANGED <<dead, pend>>
       \/ /\ PickChild(fresh[t], ccut[t]) = {}
          /\ NoChild(t, fresh[t] \cup seen[t], "iloop")
    /\ seen' = [seen EXCEPT ![t] = {}] /\ fresh' = [fresh EXCEPT ![t] = {}]
    /\ UNCHANGED <<made, cand, expanded, xlock, globVars, todo, base, ccut, cepoch, monVars,
                   evals, mail>>

\* expand returned None: the checkpoint puts the cursor back on the parent.
Retry(t) ==
    /\ Ready(t, "retry")
    /\ cur' = [cur EXCEPT ![t] = Parent[cur[t]]]
    /\ Goto(t, "iloop")
    /\ UNCHANGED <<treeVars, globVars, scanVars, base, ccut, cepoch, monVars, pend, evals, mail>>

-----------------------------------------------------------------------------
(* The monitor: commit_evaluation, update_cut, stop_exploration.            *)

\* commit_evaluation discards the evaluations of an earlier restart.
CommitCheck ==
    /\ mpc = "recv"
    /\ \E m \in mail :
         /\ mail' = mail \ {m} /\ msg' = m
         /\ mpc' = IF restart_id > m.rid THEN "cut" ELSE "backprop"
    /\ UNCHANGED <<treeVars, globVars, scanVars, curVars, mbest, pc, pend, evals>>

\* The edges the tree policy selected are those above the rollout's parent.
BanditEdges(m) == Path(m.base) \ {Root, m.base}

\* The policy records the evaluation on the edges whose parent is expanded.
Backpropagate ==
    /\ mpc = "backprop"
    /\ \A n \in BanditEdges(msg) : xlock[Parent[n]] = None
    /\ stats' = [n \in Node |->
                   IF n \in BanditEdges(msg) /\ Parent[n] \in expanded
                   THEN stats[n] \cup {msg.rid} ELSE stats[n]]
    /\ mpc' = "cut"
    /\ UNCHANGED <<treeVars, cut, epoch, stop, restart_id, rpc, scanVars, curVars, msg, mbest,
                   pc, pend, evals, mail>>

\* Mutant of UpdateCut: the new cut is stored as it is.
UpdateCutBlindly(new) == cut' = new /\ epoch' = epoch + 1

\* update_cut keeps the minimum and bumps the epoch under the write lock.
UpdateCut(new) ==
    /\ cut' = IF new < cut THEN new ELSE cut
    /\ epoch' = epoch + 1

\* handle_message lowers the cut when the evaluation is a new best.
NewBest ==
    /\ mpc = "cut"
    /\ \/ /\ Time[msg.leaf] < mbest
          /\ mbest' = Time[msg.leaf] /\ UpdateCut(Time[msg.leaf])
       \/ /\ Time[msg.leaf] >= mbest
          /\ UNCHANGED <<cut, epoch, mbest>>
    /\ mpc' = "recv" /\ msg' = NoMsg
    /\ UNCHANGED <<treeVars, stop, restart_id, rpc, stats, scanVars, curVars, pc, pend, evals, mail>>

StopExploration ==
    /\ CanStop /\ ~stop /\ mpc = "recv"
    /\ stop' = TRUE
    /\ UNCHANGED <<treeVars, cut, epoch, restart_id, rpc, stats, scanVars, curVars, monVars,
                   pc, pend, evals, mail>>

-----------------------------------------------------------------------------
(* MctsStore::restart, called by the leader while every worker is at the    *)
(* barrier of explore_space (ExploreSpace!RestartIsExclusive).              *)

RestartBump ==
    /\ restart_id < MaxRestart /\ rpc = "none"
    /\ \A t \in Thread : Ready(t, "idle")
    /\ restart_id' = restart_id + 1
    /\ rpc' = "reset"
    /\ UNCHANGED <<treeVars, cut, epoch, stop, stats, scanVars, curVars, monVars, pc, pend,
                   evals, mail>>

\* Mutant of Reset: the nodes are brought back to life.
ResetRevives == expanded' = {} /\ dead' = {} /\ stats' = [n \in Node |-> {}]

\* Node::reset, on the whole tree: the dead stay dead.
Reset == expanded' = {} /\ stats' = [n \in Node |-> {}] /\ UNCHANGED dead

RestartReset ==
    /\ rpc = "reset"
    /\ Reset /\ cand' = {Root}
    /\ rpc' = "none"
    /\ UNCHANGED <<made, xlock, cut, epoch, stop, restart_id, scanVars, curVars, monVars,
                   pc, pend, evals, mail>>

-----------------------------------------------------------------------------
ThreadNext(t) ==
    \/ Clear(t) \/ ReadCut(t) \/ ReadEpoch(t) \/ CutRoot(t) \/ RootExpanded(t)
    \/ ExpandCheck(t) \/ ExpandLock(t) \/ ExpandVisit(t) \/ ExpandStore(t) \/ ExpandDone(t)
    \/ CheckStop(t, "wloop", "wscan") \/ WalkEnter(t) \/ Found(t) \/ WalkVisit(t) \/ WalkPick(t)
    \/ CheckStop(t, "iloop", "iscan") \/ Enter(t) \/ TreeVisit(t) \/ TreePick(t) \/ Retry(t)

MonitorNext == CommitCheck \/ Backpropagate \/ NewBest

Next ==
    \/ \E t \in Thread : ThreadNext(t)
    \/ MonitorNext \/ StopExploration
    \/ RestartBump \/ RestartReset

Spec == Init /\ [][Next]_vars

(***************************************************************************)
(* Every thread keeps taking steps while it can, and locks are granted; a  *)
(* restart that began ends.                                                *)
(***************************************************************************)
FairSpec == Spec /\ WF_vars(RestartReset) /\ \A t \in Thread : WF_vars(ThreadNext(t))

-----------------------------------------------------------------------------
Place ==
    {"idle", "start", "epoch", "root", "rootexp", "expand", "xlock", "xvisit", "xstore", "walk",
     "found", "wloop", "wscan", "enter", "iloop", "iscan", "retry", "done", "panic"}

(***************************************************************************)
(* The flags, cursors and messages have the types of the code.             *)
(***************************************************************************)
TypeOK ==
    /\ made \subseteq Node /\ dead \subseteq made /\ cand \subseteq made
    /\ expanded \subseteq made /\ xlock \in [Node -> Thread \cup {None}]
    /\ cut \in 0 .. Inf /\ epoch \in Nat /\ stop \in BOOLEAN /\ restart_id \in Nat
    /\ stats \in [Node -> SUBSET Nat] /\ rpc \in {"none", "reset"}
    /\ pc \in [Thread -> Place] /\ cur \in [Thread -> Node]
    /\ base \in [Thread -> Node \cup {None}]
    /\ ccut \in [Thread -> 0 .. Inf] /\ cepoch \in [Thread -> Nat]
    /\ todo \in [Thread -> SUBSET Node] /\ seen \in [Thread -> SUBSET Node]
    /\ fresh \in [Thread -> SUBSET Node] /\ pend \in [Thread -> Node \cup {None}]
    /\ evals \in [Impl -> 0 .. 2] /\ mpc \in {"recv", "backprop", "cut"}
    /\ mbest \in 0 .. Inf + 1

(***************************************************************************)
(* No assertion of the descent fails, whatever the other threads kill,     *)
(* expand or create in between: a live unexpanded node always has its      *)
(* candidate, select_intree only enters expanded nodes that are not        *)
(* implementations, and their children exist.                              *)
(***************************************************************************)
NoPanic == \A t \in Thread : pc[t] # "panic"

(***************************************************************************)
(* A node is killed for a reason that still holds: constraint propagation  *)
(* refused it, its bound is at or above the cut (threads work with stale   *)
(* copies of it), it was returned for evaluation, or it has no live child. *)
(***************************************************************************)
DeadForAReason ==
    \A n \in dead :
        \/ n \in Failing
        \/ Bound[n] >= cut
        \/ n \in Impl /\ evals[n] > 0
        \/ n \notin Impl /\ Kids[n] \subseteq dead

(***************************************************************************)
(* When explore answers None without having been stopped, every            *)
(* implementation was returned, or it is below a node that the constraints *)
(* or the cut exclude: no live part of the tree is forgotten.              *)
(***************************************************************************)
Exhaustive ==
    (\E t \in Thread : pc[t] = "done") /\ ~stop =>
        \A l \in Impl : \/ evals[l] > 0
                        \/ \E n \in Path(l) : n \in Failing \/ Bound[n] >= cut

(***************************************************************************)
(* The copy of the cut a thread prunes with is never below the store's.    *)
(***************************************************************************)
StaleCutIsHigh == \A t \in Thread : ccut[t] >= cut

(***************************************************************************)
(* A node is never resurrected, not even by a restart.                     *)
(***************************************************************************)
DeadStaysDead == [][dead \subseteq dead']_vars

(***************************************************************************)
(* In the explicit tree every child exists, and nothing is expanded while  *)
(* its candidate is still to be used.                                      *)
(***************************************************************************)
ExplicitTree ==
    /\ \A n \in expanded : Kids[n] \subseteq made
    /\ expanded \cap cand = {}

(***************************************************************************)
(* Every thread leaves the exploration: the tree is exhausted or stopped,  *)
(* and no thread spins forever on nodes that others expand or kill, also   *)
(* when the store restarts (a failed assertion, excluded by NoPanic when   *)
(* there is no restart, ends the thread too).                              *)
(***************************************************************************)
ExplorationEnds == <>(\A t \in Thread : pc[t] \in {"done", "panic"})
=============================================================================
