# A TLA+ model of Telamon

Telamon searches for the fastest implementation of a linear-algebra kernel. The
author of a kernel builds a *function* of an intermediate representation. Its
*search space* has a domain for every open choice (how a dimension is realised, how
statements are ordered, where values live), kept consistent by constraint
propagation. A *candidate* is a search space with a lower bound on the execution
time of everything below it. Worker threads refine candidates; fully specified ones
are turned into code, compiled and timed by a backend; and the best time found cuts
the parts of the tree whose bound is not better.

The modules in this directory follow that path in two halves: the concurrent search
(stores, workers, monitor, evaluation queues), and what it searches (domains and
propagation, the IR, code generation, the generated code as it runs, and the bound).

Paths below are relative to the repository; `src/explorer/mcts.rs` is the file of
that name in it.

## 1. Inventory

| Component | State | Operations | Interacts with |
|---|---|---|---|
| Bound-ordered list, `src/explorer/parallel_list.rs` | interval heap, cut, counter of active workers, condition variable | `explore`, `pop`, `insert_many`, `update_cut` | workers (calls), monitor (`update_cut`) |
| MCTS tree, `src/explorer/mcts.rs` | nodes with `dead`, `expanded`, `candidate`; edges; statistics; cut, cut epoch, restart id, stop flag | `explore` (descent, expansion, rollout), `commit_evaluation`, `update_cut`, `restart`, `stop_exploration` | workers, monitor, restart leader |
| Store contract, `src/explorer/store.rs` | none of its own | the `Store` trait | implemented by the two above |
| Search driver, `src/explorer/mod.rs` | best time, number of evaluations and restarts, leader counter, barrier | `launch_search`, `explore_space`, the evaluation callback | store, evaluation queue, monitor channel |
| Monitor, `src/explorer/monitor.rs` | `Status` (best candidate, number of evaluations), timeout | `monitor`, `handle_message`, `get_new_cut`, `timeout` | messages from the callback; calls into the store; logger |
| Stabilised evaluation, `src/device/context.rs` | the repetitions to average, thresholds | `StableEvaluator::evaluate` | called by the callback |
| Evaluation queues, `backend/{x86,cuda,mppa}/src/context.rs`, `src/device/fake.rs` | bounded channel, evaluation thread; JIT daemons (CUDA), write-back slots (MPPA) | `async_eval`, `add_dyn_kernel` | run the workers' closure |
| Candidates, choices, `src/explorer/{candidate,choice,local_selection,impact}.rs` | search space, bound, actions | `apply_choice`, `apply_decision`, choice orders, rollouts | search space, performance model |
| Choice domains, `telamon-gen/src/print/runtime` | ranges, half ranges, bit sets over a universe | comparisons, intersections, restrictions | filters, counters |
| Filter generator, `telamon-gen/src/{ir,flat_filter,truth_table,constraint}` | constraints, filters | from a constraint to one decision tree per choice | the generated code |
| Propagation, `telamon-gen/src/print`, `src/search_space` | domains, diff of changes, counters | `apply_decisions`, `on_change`, filters, triggers and lowerings | candidates, IR |
| IR, `src/ir` | function: instructions, dimensions, variables, memory | builders, `lower_layout`, `lower_dim_map`, merging | search space, code generation |
| Performance model, `src/model` | pressures of statements and levels | `bound` | candidates |
| Code generation, `src/codegen` | control-flow tree, names, low-level instructions | `Function::build`, `Printer` | backends |
| Kernel library, `src/helper`, `kernels/src` | builder, tensors, signatures | `Axpy`, `MatVec`, `FusedMM`, ... with their expected outputs | IR, evaluation |
| Utilities, `telamon-utils/src` | sorted vectors, arrays and views, iterators, graphs of orders | `VecSet`, `NDArray`, `ViewMut`, `NDRange`, `PartialPermutations`, `Dag` | IR, performance model, search space |
| Configuration, logger, event log, offline analysis, command line, C and Python APIs | files | parsing and output | the explorer |

Two things are hard in it. The first is concurrency. Any number of workers, the
evaluation thread, the monitor, a timeout thread and (at restarts) a leader share
a store. The list's termination test depends on a counter maintained around a
condition variable. The MCTS tree has no global lock at all: threads create, cut,
kill and expand the same nodes, each with its own copy of the cut. The best time
exists in three copies (callback, monitor, store) with messages in between. The
restart barrier assumes that every worker is still there. CUDA compiles in processes
that may die. The second is that the output of the whole machinery must compute what
the author wrote, for every implementation: a decision runs through filters
generated from constraints, through counters kept by differences, and through
lowerings that rewrite the function; code generation relies on the propagation having
left no inconsistent order; and the generated threads share memory.

What makes each part correct:

* **List.** The counter is exact; `None` means that the search is over; no
  candidate is lost, duplicated or dropped below the cut; every worker leaves.
* **Store contract.** When `explore` returns `None`, each leaf was handed out or is
  excluded by a bound at or above the cut.
* **Driver and monitor.** Every thread ends. The reported candidate was measured
  and checked. An exhausted search found the optimum (up to `distance_to_best`).
  The cut only decreases, which the list relies on.
* **MCTS tree.** No assertion of the descent fails; nodes die only for a reason
  that remains valid; `None` means exhausted or stopped; no thread spins forever.
* **Tree policies.** Visits and evaluations agree with what was committed since the
  last restart; the successes TAG counts on all branches reach the number it built
  its threshold from; round robin keeps the visits of live edges within the number of
  threads of each other.
* **Backends.** A callback gets the kernel of its own candidate, whatever fails;
  while the tools do their work no thread panics, on MPPA as long as the write-back
  slots last; `async_eval` ends and leaves no process behind.
* **Domains, filters, propagation.** The operators on domains agree with sets; a
  filter means its constraint; a decision never removes a solution; propagation ends
  in a fixpoint; counters are exact.
* **IR to code.** For each implementation the search can reach, code generation does
  not panic and the code, under any interleaving of its threads, stores what the
  function means, and each cell once.
* **Performance model.** The bound of a candidate is below what each implementation
  below it costs: `ExploreSpace` assumes it for the optimality of the search.
* **Kernel library.** The body an author builds computes the output the author
  expects, for every size of the tiles.
* **Utilities.** An operation on a `VecSet` is the operation on sets, and its unsafe
  code may be unwound; a view covers its part of the array and no other; permutations
  and graphs are complete. A rollout with backtracking fails only where nothing is left.

`PROJECT.json` lists the hazards line by line, with the properties for each.

## 2. Modules

| Module | Models | Depends on |
|---|---|---|
| `SearchStore` | the `Store` contract, abstractly | |
| `ParallelList` | `parallel_list.rs` | |
| `ParallelListRefinement` | the mapping from the list to the contract | `ParallelList`, instance of `SearchStore` |
| `ExploreSpace` | `explore_space`, evaluation thread, monitor, restart barrier, over any store that keeps the contract | `SearchStore` |
| `MctsTree` | `mcts.rs`: tree, descents, monitor's commits, restart | |
| `TreePolicy` | `mcts.rs`: the tree policies at one node and the statistics on its edges | |
| `EvalBackend` | `async_eval` of the x86, CUDA, MPPA and fake contexts, CUDA's JIT processes | |
| `NumDomains` | the integer domains of the generated code | |
| `FilterGen` | from constraints to filters | `NumDomains` |
| `Propagation` | the domain store, filters, counters and triggers at run time | `FilterGen` |
| `Llir` | typed operators and registers, `codegen/llir.rs` | |
| `Ir` | `src/ir`: building and lowering functions | `Llir` |
| `KernelSpace` | choices of a function, constraints of the `.exh` files, default order | `Ir` |
| `PerfModel` | the throughput side of the bound, `src/model` | `KernelSpace` |
| `Codegen` | from an implementation to a control-flow graph | `KernelSpace` |
| `KernelPrinter` | names and printed instructions | `Codegen` |
| `KernelMeaning` | what a function means, independently of its implementation | `Codegen` |
| `KernelLib`, `KernelLinalg` | the builder and tensors; the linear algebra kernels | `KernelMeaning` |
| `KernelRun` | composition: author, candidates, code, threads of a device | `KernelPrinter`, `KernelMeaning`, `PerfModel` |
| `VecSet` | `telamon-utils/src/vec_set.rs` | |
| `Helpers` | arrays, views, permutations and graphs of `telamon-utils`; rollouts, `local_selection.rs` | |
| `SearchStoreProofs`, `ParallelListProofs`, `ExploreSpaceProofs`, `MctsTreeProofs`, `TreePolicyProofs`, `EvalBackendProofs`, `PropagationProofs`, `VecSetProofs` | theorems | the modules they name |
| `MCParallelList`, `MCExploreSpace`, `MCMctsTree`, `MCTreePolicy`, `MCEvalBackend`, `MCSpace`, `MCKernel`, `MCHelpers` | instances for TLC | the modules they name |

### ParallelList

`queue` and `cut` are the fields of `CandidateList`, `count` is the `usize` next to
it in the mutex, `pc` and `hold` say where each worker is and which candidate it
popped. `expanded`, `dropped` and `returned` are history. One action is one
critical section: the mutex is implicit, while the condition variable is explicit,
because a thread that was notified (`woken`) has yet to win the lock, and because
`wait` may return spuriously. `pop`'s loop is `PopLoop`, entered by `Pop` from
`explore` and by `Rewake` after a wait; its three branches are `PopMin`, `PopLast`
and `PopWait`. `Expand` is `apply_choice` and `insert_many`, including the
`notify_all` at its end. `UpdateCut` is the monitor's call.

The tree is data: `Choices[c]` are the candidates that `apply_choice` obtains from
`c` (none at a dead end), `Bound` their bounds. Nothing is assumed of bounds along
a path, because `apply_decision` accepts a bound below its parent's.

### SearchStore and the refinement

`open` is the set of leaves that are neither handed out nor pruned. A step hands a
leaf out, refuses a worker when nothing is open, or lowers the cut and prunes
leaves with a bound at or above it on their path (`Reach`). In the mapping, the open
leaves of the list are those under a queued or held candidate.

### ExploreSpace

Workers run the closure given to `async_eval`: `Explore` or `Exit`, `AddKernel`
(which blocks while the queue holds `EVAL_BUFFER_SIZE` candidates), and, with
`restart_every_n_evals`, the restart section in the steps of its atomics and its
two barrier waits. The evaluation thread runs the callback: `EvalStart` takes a
candidate and counts it, `EvalRun` measures it (or skips it, when the best time
beats its bound), checks it and updates the best time, `EvalSend` reports it. The
monitor handles messages one at a time and stops on the limit of evaluations or on
the timeout, after which the receiver is gone and sends fail with a warning. The
channel to the monitor never blocks: each message goes through a fresh clone of
the sender, and a clone may always send once.

`has_restart` says whether the configuration has `restart_every_n_evals`; it is chosen
in the initial state from `RestartModes` and never changes.

`BoundsAreLower` is the assumption on the performance model: no bound on the path
to a leaf exceeds the time measured for it.

### MctsTree

Here an action is one access to shared memory, or one critical section of a node's
locks. `made`, `dead`, `cand`, `expanded` are the nodes' fields, `xlock` the write
lock held for the whole of `expand`. A thread has a position (`pc`), the node under
its cursor, where its rollout began (`base`), its copy of the cut, and the children
its iterator has still to visit and those it has found live. `Node::kill` is two
steps, `Kill` (within the action that decides it) and `Clear`.

`NodeCursor::checkpoint` and the recursion of `walk` and `select_intree` become
`DeadEnd`: with `backtrack_deadends` the loop of the parent goes on, in the
rollout's `walk` or in `select_intree`, depending on `base`; otherwise `explore`
starts over. Failed assertions lead to the position `panic`.

Which child a policy picks is nondeterministic (`PickChild`): the properties hold
for every policy that picks one of the live children it is shown. That the policies
do so is the subject of `TreePolicy`. Statistics are reduced to
the restart ids of the evaluations recorded on an edge. The evaluation itself is the
set `mail`: messages reach the monitor in any order. `restart` is taken while every
worker waits at the barrier, which is `RestartIsExclusive` of `ExploreSpace`.

Two things are merged: `check_stop` reads flag, epoch, cut and liveness in one
step, and `commit_evaluation` updates the edges of one trace in one step.

### TreePolicy

Several threads run `pick_child` at one node of the explicit tree while the monitor
backpropagates. An action is one access to the data of one edge, in the order of the
code: the visit counts first, then (for TAG) the locked vectors of evaluations, once
to build the threshold and once to count successes, then the increment of the chosen
edge. `view` is the list of children a thread was given, which may have died since:
`Kill` removes an edge from `live` at any time, except the last, since the node
itself would then be dead. `restart` resets the statistics as it does the nodes.

`Record`, `RecordAll` and `CountLte` are the operations of `Evaluations`, a sorted
vector of the `topk` best values. Scores are floating point and are left out: TAG
never picks an edge that another one beats in both successes and trials, which is
all that monotonicity of `heval` gives, and UCT may pick any edge. `log` and `had`
are history, against which the statistics are compared.

### EvalBackend

`wpc` and `num` are the explorer threads, `epc` and `cur` the evaluation thread,
`main` the caller of `async_eval`. A worker goes through the steps of its evaluator:
on CUDA it asks the spawner for a JIT process, writes PTX to it and reads the answer;
on MPPA it sets the kernel up, with a write-back slot that is never given back; then it
sends, blocking while `evalq` holds `QueueSize` kernels. `Fault` chooses whether a
kernel may fail, and each step that can fail then may: the JIT process exits, generating
arguments panics (and is caught by `add_dyn_kernel`), one of the unwrapped calls of
MPPA's `setup_kernel` fails before or after the slot is taken and panics the explorer
thread, an execution panics the evaluation thread. Dropping a sender is part of the step
in which its owner leaves. Kernels are run and their callbacks called in the order of
the queue, on MPPA too. `calls` and `failed` are history: the kernel each callback got,
by candidate, and the kernels whose compilation, set-up or execution failed.

`SoundToolsNeverPanic` says that while `failed` is empty no thread panics, whatever the
order of sends, exits and drops. On MPPA it holds until more kernels were begun than
there are slots: the next one finds none and panics, in the code after 32 kernels
(section 5).

### NumDomains, FilterGen and Propagation

`NumDomains` keeps the encodings: a numeric set is a bit set over positions in a
sorted universe, so that each comparison is by position and extremes, and differs from
the set operation it stands for. `Gamma` gives the set, against which
`DomainsSound` compares.

`FilterGen` follows a constraint through the generator: normalisation (with the
inversion of antisymmetric choices), one rule per mentioned choice, merging of rules
on the same inputs, the truth table and the decision tree it is flattened to, and the
evaluation of the tree on domains. Fragile values and set constraints are left out
(section 6). `Propagation` first compiles a system of
constraints with it, one action per stage, then makes every sequence of decisions.
`diff` is `DomainDiff`; popping an entry runs `on_change`, that is, the counter
update, the filters that read the choice and the triggers, in registration order. The
state a handler threads through its steps is a record, so that an action is a whole
handler with its early return on an empty domain.

### From the IR to code

`Ir`, `Codegen`, `KernelPrinter` and `PerfModel` are sequential code and are
operators named after the functions they translate. Data is reduced to what the
properties distinguish: identifiers are numbers, registers are named by what they hold
(the name generators never reuse a name), text is a sequence of instructions. A
constructor whose checks fail sets `err`; a step that would panic makes a result that
is not `ok`, which `NeverPanics` excludes: fused dimensions that differ, an induction
variable over dimensions that are not nested, blocks without an order, threads without a
mapping, events that cannot be compared. Where the code only meets the panic for the
pairs its sort compares, the model asks it of every pair.

`KernelSpace` states each constraint of the `.exh` files that concerns the modelled
choices as a predicate on domains, takes choices in the order of
`explorer/choice.rs`, and lowers layouts and dimension maps where the triggers do.
How a decision reaches its fixpoint is the subject of `Propagation`.

`KernelMeaning` is the reference: the value of an instruction at a point of its
iteration dimensions, defined from operands, reductions and memory accesses alone.
Numbers are integers; what has no integer value (an exponential, a quotient) is a
term, so that equal outputs mean equal computations.

`KernelRun` composes these. `Get` runs the author; `Decide` makes a choice and raises
the bound as `Candidate::apply_decision` does (`DecideSize` only makes the choices of
sizes, for the library's kernels); `Compile` is code generation; then the threads of the
grid run (`RunThread`). A thread's local instructions are
merged with its next access to shared memory, at which threads interleave, and
barriers make the threads of a block wait for each other. The device is external: its
instructions do what their names say.

`PerfModel` uses a GPU on which a wrap is one thread and every instruction uses its
units once, so that the pressures of an implementation are the counts of what its
threads execute, which `BoundIsLower` compares with. The levels are those of
`level::generate`: the nestings of statements and of dimension maps, the minimal graph
of the order between them, and for each edge the dimensions it adds, of several only the
ones that are loops unless they become blocks. For each level `throughput_bounds` has
what its body costs a thread, times the iterations of its loops, and, for a level of
threads only, what it costs a block; both are scaled to the grid. The code takes the
longest path through a graph with these figures and with latencies as edges: the figures
are modelled and compared one by one, the latencies and the sums along a path are not.

`KernelLib` and `KernelLinalg` build the library's kernels with the helpers, and
`BodyComputesExpected` compares their meaning with `get_expected_output`, for each
choice of tile sizes.

### VecSet and Helpers

`VecSet` is the life of one sorted vector on which operations are called with others
as arguments. A loop takes one step per comparison, because the loops are what could
be wrong: cursors that pass each other, an element pushed twice, a tail forgotten.
`relative_difference` works in place with unsafe code. There the model has the buffers
as they are, with holes and moved elements, the lengths the destructors would use, and
the set of the elements that were dropped; a comparison may panic at any step.

`Helpers` has one action per call of an iterator (`NextOfView`, `NextPermutation`), per
split of a view, per node a graph search visits and per level a rollout descends.
`use.pinned` is history: which index each split chose.

## 3. Runs

`tree_policy` takes about three minutes with two TLC workers, the others two or less.

| Run | Instance | Shows |
|---|---|---|
| `parallel_list` | 3 workers, 7 candidates with a dead end and a decreasing bound, every sequence of cuts | the list is correct, live, and implements the contract |
| `search` | 3 workers, 4 leaves (one fails its check, one fails to run), queue of 2, limit of 2 evaluations, timeout, 25% tolerance, with and without restarts after every evaluation | without restarts the search ends; its best is checked and in step; exhausted searches are optimal; a restart happens while nobody uses the store |
| `search_hang` | 2 workers, restarts | **violated**: a worker waits at the barrier for one that has left |
| `mcts_tree` | 2 threads, 5 nodes, initial cut, backtracking | no assertion fails; deaths are justified; exhaustive |
| `mcts_live` | 2 threads, 3 nodes with exact bounds, no backtracking, one restart | both threads leave; a restart revives nothing |
| `mcts_restart_panic` | the same with backtracking | **violated**: `select_intree` on an unexpanded root |
| `tree_policy` | 2 threads, 2 edges, three policies, 4 descents, one restart | round robin stays balanced; the statistics of TAG agree with the evaluations |
| `eval_backends` | 2 workers, 2 kernels each, four backends, queue of 1, 3 slots, any failures | callbacks get their own kernel, no panic while nothing fails and the slots last, everything ends |
| `space` | 52 systems of constraints over 2 to 3 objects: an order, merged classes, numbers, additive and multiplicative counters of each visibility, lowerings | propagation keeps solutions, ends in a fixpoint, and its counters are exact |
| `kernel` | all implementations of seven small functions, run by all interleavings; the six linear algebra kernels for all tile sizes | code is generated and computes the function; the bound is below the cost; the library's kernels are what they claim |
| `helpers` | all sequences of operations on subsets of 4 elements; arrays of up to 3 dimensions, k of up to 4 values, up to 3 sets to order, a tree of 6 nodes with all bounds | operations on vectors are those on sets and may be unwound; the helpers agree with definitions that do not use their algorithms |
| `tmp_mem_race` | one function with two nests inside a thread dimension | **violated**: threads share a temporary array |

The violated ones are the disagreements between code and comments that
`PROJECT.json` records under `findings`.

**Bounds.** Three workers are the smallest number for which one worker can wait,
one be woken and a third hold the last candidate. The tree of `parallel_list` has
depth three, two roots and a dead end. In `search` the limit of evaluations is
reached in some behaviours and not in others, and the queue fills. Two threads are
enough for each of the races of the MCTS tree, all of which are between a thread
that looks and a thread that kills or expands; its 5-node instance has an inner
node, a refused action, an implementation that gets cut and one whose evaluation
fails. `MaxRestart` bounds the restarts explored, and `MaxDescents` the descents of
`tree_policy`: four exceed `topk` and let each thread pass twice. Time, cuts and
bounds are small integers up to `Inf`, which stands for `f64::INFINITY`; `Ratio`, the
`distance_to_best`, is below 100, at which the cut of an infinite time is NaN.

In `eval_backends`, `QueueSize` 1 makes a second kernel block, and 3 slots for 4
kernels run out on MPPA, as 32 do after 32 kernels; `MaxKernels` bounds the kernels
of a worker. In `space`, three objects are what transitivity needs, `MaxObj` bounds
lowerings (each adds one object), and the limits 2, 4 and 6 of the counters are
reached, exceeded and unreachable; `U32Max` and `MaxLen` stand for `u32::MAX` and the
bits of a numeric set. In `kernel`, dimensions have two points and there are at most
three of them, which is enough for each pair of kinds to be nested, ordered or merged,
for a loop inside threads and for threads that idle; tiles of size 4 with divisors
give every library kernel more than one size per tile. The larger kernels are not
compiled: their implementation spaces are out of reach, their bodies are not.

In `helpers` four elements give vectors that interleave in each way two loops can meet
them, with two elements dropped before one is moved; zero-sized dimensions, k above n
and duplicate nodes are among the inputs.

Runs with two interchangeable threads use symmetry, except where a temporal property
is checked. Deadlock checking is off where the model may legitimately stop: a search
ends, an iterator is exhausted, a panic unwinds. That nothing stops *too early* is
what `Termination`, `PlainSearchEnds`, `ExplorationEnds`, `EvaluationEnds` and
`PropagationEnds` check. `kernel` checks deadlocks: its final phases stutter
explicitly, so a thread waiting at a barrier that nobody else reaches is an error.

**Fairness.** Weak fairness of each thread's next step: an operating-system thread
that can run eventually runs, and a mutex is eventually granted to a thread that
waits for it while others only hold it for bounded sections. The same is assumed of
the processes of the CUDA backend, and of `RestartReset`, the second half of a call
to `restart` that has begun. `PropagationEnds` needs no fairness: it is stated as a
measure that every step of the propagation lowers. Nothing is assumed of
spurious wakeups, of the monitor's cuts in `ParallelList` and `MctsTree`, of the
timeout, or of failures.

**Mutants.** Definitions whose comment begins with "Mutant of" are versions of the
next definition with a plausible bug. They are used nowhere in the specifications;
substituting one for its original must make a property fail, and `PROJECT.json`
says which one.

## 4. Proofs

TLC shows a property on one instance; the theorems below show it for every value of the
constants that satisfies the named assumptions. The assumptions are what the code or
its callers guarantee, and TLC evaluates them in the runs.

| Module | Theorems (and the property each states) | For every |
|---|---|---|
| `SearchStoreProofs` | `StoreExhaustive` | set of leaves and bounds |
| `ParallelListProofs` | `ListTypeCorrect`, `CounterCorrect` (`CountIsActive`), `NoWorkerLeavesEarly` (`NoEarlyExit`), `NoCandidateLostOrDuplicated` (`NothingLost`), `ListImplementsStore` (`ImplementsStore`), `ListExhaustive` (`ExhaustiveList`) | finite nonempty set of workers, forest of candidates |
| `ExploreSpaceProofs` | `RestartExclusive` (`RestartIsExclusive`), `SearchTypeCorrect`, `BestAgrees` (`BestInSync`), `BestChecked` (`BestIsChecked`), `CutFalls` (`CutNeverRises`), `SearchOptimal` (`Optimal`) | finite nonempty set of workers, set of leaves with times, configuration, queue capacity |
| `MctsTreeProofs` | `TreeTypeCorrect`, `NoResurrection` (`DeadStaysDead`), `CutCopiesAreHigh` (`StaleCutIsHigh`), `DeathsAreJustified` (`DeadForAReason`), `NothingForgotten` (`Exhaustive`), `TreeIsExplicit` (`ExplicitTree`), `DescentNeverPanics` (`NoPanic`) | set of threads, tree, bounds, number of restarts (none for `NoPanic`) |
| `EvalBackendProofs` | `CallbacksGetTheirKernel` (`OwnKernel`), `NoPanicWithSoundTools` (`SoundToolsNeverPanic`) | finite nonempty set of workers, number of kernels, queue size, number of slots |
| `TreePolicyProofs` | `RoundRobinStaysBalanced` (`RoundRobinBalanced`), `EvaluationsAreTheBest` (`TopkOfHistory`), `ThresholdReached` (`SuccessesReachTopk`), `HevalAssertionHolds` (`HevalDefined`) | finite sets of threads and edges, `topk`, number of descents and restarts |
| `PropagationProofs` | `FilterDomainsSound` (`DomainsSound`), `DomainOpsAreSound`, `MaskOverflows` | universe that leaves two bits of a mask free, range, half range, constant, slice |
| | `AdditiveCounterExact` (`CounterExact`), `PropagationKeepsSolutions` (`SolutionsKept`), `PropagationReachesFixpoint` (`FixpointReached`) | description without lowering whose counter adds: objects, values, filters, increments, limits |
| `VecSetProofs` | `VecSetsAreSets` (`ResultIsSetOp`), `UnwindingIsSafe` (`SafeToUnwind`) | vectors of any length over a total order, sequence of operations |

**The list.** The inductive invariant has three layers. `ControlInv` is about workers
only: the type invariant, the exactness of the counter, and `NoEarlyExit`. They need
each other: that `pop` may conclude from `count = 1` that nobody else can insert is the
exactness of the counter, and that exactness survives `PopLast` because the leaving
worker was the only active one. The counting argument is a lemma on cardinalities of
the set of active workers when one of them becomes active or inactive. `DataInv`
relates the queue, the workers' hands and the history; it needs `ParentFirst` (a
candidate is only ever seen after its parent was expanded), which with the forest
assumption makes inserted children new. `FrontierDisjoint` says that the subtrees of
the frontier do not overlap, so that handing a leaf out removes exactly that leaf
from `open`; it uses the assumption that `Under` partitions.

**The search.** `BarrierInv` says that the workers cross the barrier together: they are
all outside the restart section or all inside it, `waiting` counts the blocked ones and
`is_leader` those that registered and were not yet told whether they lead. The last of
them is told so, hence there is one leader. That the set of workers is not empty is
needed for the last arrival to exist; `num_workers` is the number of threads of a
context, at least one. `MonitorInv` is about the messages the monitor has not read,
the one about to be sent included: the evaluation thread's best is the least of their
times and the monitor's, each of them is measured and checked or beaten by one before
it (a candidate that is not better is reported without a check), and the store's cut
is the one computed from the monitor's best. `BestInSync`, `BestIsChecked`
and `CutNeverRises` are read off it. `LeafInv` accounts for each leaf: it is open in the
store, has a bound at or above the cut, is on its way to the evaluation thread, or is no
better than the best time if it is usable; a worker leaves only when nothing is open,
and the evaluation thread only after every worker. When the monitor finds all senders
gone nothing is on its way, and `Optimal` is what is left of `LeafInv`;
`BoundsAreLower` is what turns a bound into a time.

**The MCTS tree.** `TypeInv` holds where each cursor is and what each iteration has
still to visit. `DeadInv` has a reason for every dead node and, for a thread in the
middle of an iteration, what it may already conclude: the children it has passed
without keeping them are dead (`ScanSound`). Without that, killing a node "without live
children" on the evidence of an iteration that others overtake could not be justified.
The reasons survive because cuts fall and deaths are final. `Exhaustive` then follows
along the path of an implementation: if nothing on it is excluded and it was not
returned, its live nodes form a set closed under parents, which has the root in it by
the assumption that every node has; but the root is dead. `TreeInv` says which
nodes exist, are expanded or have a candidate, and where in the explicit tree the
cursors of the phases are; `StartInv` what the threads at the root may rely on.
`NoPanic` is proved under `PlainStore`: no restart (`mcts_restart_panic` shows that it
fails with one) and a root that is not already an implementation (section 5).

**The evaluation queues.** `StageInv` orders the life of `async_eval`; `PipeInv` says
that the pipes of a worker's JIT process hold nothing but the kernel that worker waits
for; `TokenInv` that each kernel a worker began is in exactly one place: with the
worker, in the queue, in the evaluation thread or in `calls`. `OwnKernel` follows with
`EndInv`, which has the places empty when the caller returns. For
`SoundToolsNeverPanic`, `SlotInv` counts the slots that are gone against the kernels
begun, less those still being set up, so that a set-up within the limit finds one; and
`JitInv` has a JIT process exit, unasked, only after a failure.

**Round robin.** A pair of edges may drift apart because a thread counts its visit
after it read the counters. `GapInv` bounds this for every level `k`: when a live edge
has at most `k` visits, another one exceeds `k` by at most the number of threads that
can no longer pick it on the evidence of at most `k` visits. It is the quantifier over
`k` that makes it inductive.

**TAG.** The statistics are sums over edges and counts over sorted vectors, so the
first part of `TreePolicyProofs` is about those: a recursive function over the subsets of
a finite set exists and does not depend on the order of its choices, a sum changes by
what one term changes, and a count after an insertion and a truncation is the count
before, plus one, up to `topk`. The inductive invariant `TagInv` has a part about the
record (`RecordInv`: the vector against the history of the edge, and no more evaluations
than visits) and a part per thread (`ThreadInv`), which says what a thread that has read
some of the edges may rely on while the others go on. Visits only grow and the evaluations
below a threshold never become fewer: that is what carries the threshold of the first pass
to the second, and the trials of a branch below those of its node.

**Integer domains.** Each domain is reduced to its bounds: a comparison is decided by
them alone, so its soundness is transitivity. The binary search returns the number of
smaller values of the universe, and the masks made from two such positions are intervals
of bits. The constructors for other sets walk both universes with two cursors; `WalkIs`
gives the closed form of what the walk has kept when it is at a given pair of positions.
`UniverseAssumption` asks for a universe that leaves two bits free. The code does not
check it: `into_num_set` shifts by the number of values plus one, and `MaskOverflows`
shows that with one bit less every value is lost. `infer_pattern` takes universes of up
to 16 values, the width of the set, so that tilings with 15 or 16 divisors are outside of
what is proved.

**Counters.** Every handler is a chain of loops over filters, objects or actions, and
each loop a fold. `LoopTrace` turns a fold into its sequence of states, so that an
invariant of one iteration is one of the loop. An iteration restricts a domain and records
it in the diff (`Narrowed`): what was last propagated stays as it is, and the counter
with it. The counter is a sum over the objects (`Tally`, which does not depend on the
order) of a share that the propagated domains of the flag and of the amount determine;
popping an entry changes the share of one object, and `incr_counter` and
`update_counter` move the counter by just that. In `init_domain` the counter is computed
before its own restrictions and filters are applied, and one of the actions of the second
round corrects it: `ActsCounted` finds it wherever it is among the others. The theorem
takes from `FiltersFaithful` only that compiled filters restrict choices that exist.
It is about counters that add in spaces without lowering because it is false otherwise
(section 5). `SystemsAssumption` is what the checker of the descriptions ensures.

**Solutions.** A solution that agrees with the decisions is never lost. `KeptInv` says it
of the current domains: each solution is an assignment of one value per choice, and each
of its values is in the domain of its choice; after a failure there is no solution. A step
can lose a value in three ways. A filter may restrict a choice: `FiltersSound` says that
a compiled filter keeps the value of a solution when its inputs hold the solution's, and
`AssignmentsAre` and `SameFilters` carry this from the domains of a fresh store to those
that the propagation has reached. A counter may be clamped, and its limit may restrict a
flag or an amount: the count of an assignment lies between the bounds of the counter,
object by object (`CountHolds`, `TallyGap`), which is where exactness is needed: were the
minimum too high, the limit would refuse a flag that fits. And an empty domain fails the
propagation: then no solution is left. The theorem takes `FiltersTyped`, `InputsTyped` and
`FiltersSound` of the compiled filters as hypotheses: `FiltersFaithful` is what TLC checks
of every description of the run, and the theorem carries it from the filters, one call at a
time, to whole propagations.

**Fixpoint.** A handler runs only the filters that read the choice it has popped, and the
restrictions they make are themselves only entries of the diff. `Calm` is what makes this
enough: a call of a filter either reads a domain whose change is still in the diff, or
what it restricts is already within its answer. A restriction disturbs no calm call: the
domain it restricts becomes pending for its readers, and as long as nothing a call reads
is pending its answer is the one it gave before (`CalmCloser`). Popping a choice disturbs
the calls that read it, and `on_change` makes each of them: `CallOccurs` finds every such
call in the nested loops over filters, inputs and, for a symmetric choice, both
orientations, although only the lower triangle is filtered. `init_domain` is the other
half: its first round records no change, so nothing would wake the readers of what it
restricts; the second round compares every choice with what all its filters ask and
queues the difference as an action, and `ActsSettle` finds it wherever it is applied. With
an empty diff no call is left that would restrict anything; on a decided space that is
what `FiltersComplete` turns into the constraints, and the counter's minimum, which
`Limited` keeps within the limit unless the counter is pending, is then the count. The
theorem takes `FiltersTyped`, `InputsTyped` and `FiltersComplete` of the compiled filters
as hypotheses, from the same `FiltersFaithful`.

None of these arguments uses an induction theorem of the library. Where one is needed, the
least counterexample is picked with `WFMin` and shown to have a smaller one.

**Sorted vectors.** Every loop keeps what was taken of one vector below what is left
of the other (`Apart`; `WeaklyApart` where the last element taken may still be met), so
the elements produced are the operation on what was taken (`BuiltInv`). For
`relative_difference`, `Compacted` says where each surviving element lies in a buffer
with holes. The theorem is what entitles the other modules to write these vectors as
sets.

**Only model-checked.** Liveness (`Termination`, `PlainSearchEnds`, `ExplorationEnds`,
`EvaluationEnds`): fairness is outside the proof system's reach. Of `Propagation`,
`FiltersFaithful`, which is about what decision trees compiled from any list of constraints
compute; and `CounterExact`, `SolutionsKept` and `FixpointReached` of counters that multiply
and of spaces with lowering, of which the first holds of the systems of the run only. `KernelRun` and `Helpers` use
recursive operators: what these compute for every input is an induction over data, which
is out of its reach as well.

## 5. What was seen on the way

Besides the findings, reading the code for the models showed the following. None of
them has a run of its own: each is a single line, a heuristic or a panic that an
author meets at once.

* `explorer/mod.rs:330`: the first restart is due after the first evaluation,
  whatever `restart_every_n_evals`.
* `explorer/mcts.rs:1330`: an evaluation committed while a restart resets the tree
  counts in the new tree. `mcts.rs:1863`: the best reward and the sum of UCT are
  updated under two locks. `mcts.rs:991`: two rollouts may evaluate one implementation
  twice.
* `explorer/mcts.rs:1081`: a search space given fully specified makes the root an
  implementation, and the second thread fails an assertion.
* `explorer/candidate.rs:108`: a bound below its parent's is accepted with a message.
* `device/context.rs:280`: the first measurement is compared with the bound where the
  comment says best time, so most candidates are measured once.
* `backend/mppa/src/context.rs:239`: only the synchronous evaluation gives write-back
  slots back; an asynchronous search panics at its 33rd kernel.
* `backend/cuda`: a kernel whose PTX does not compile ends its JIT process, and the
  exploration with it.
* `telamon-gen/src/print/counter.rs:71`: the bound of a multiplicative counter divides
  integers: with values that do not divide each other it excludes one that fits.
  `runtime/range.rs:46`: so does the correction of such a counter when a space is
  created: with the amounts 1 and 3 left of 1, 3 and 4 its maximum stays 4 instead of 3,
  an overestimate that excludes nothing. The sizes of the run are powers of two.
* `telamon-gen/src/print/template/main.rs:111`: a lowering adds the greatest amount of a new
  object to a counter whose maximum is hidden before the filters restrict that amount,
  and the change is not recorded: with a filter that does, the maximum is overestimated.
* `telamon-gen/src/print/runtime/integer_set.rs:64`: the comment has sets of up to 16 values, but the masks overflow
  with 15 (`MaskOverflows`).
* `helper/mod.rs:122`, `ir/dimension.rs:105`: `infer_pattern` of a size without
  divisors gives a tiling without a factor, which a static dimension refuses.
* `ir/variable.rs:141`: the last value of a variable over a dimension that becomes a
  thread is not one the code can read; `LastVariable` keeps to loops, as its callers do.
* `ir/operator.rs`: `check` accepts comparisons of floats that `llir.rs` refuses.
* `codegen/size.rs:50`: `as_int` leaves the divisor out. `codegen/dimension.rs:311` and
  `model/mod.rs:213` have a FIXME on levels and a fallback that no modelled kernel meets.
* `kernels/src/linalg.rs`: the expected output of `Gesummv` with m # n, of `BatchMM`
  with a reused or transposed operand, and of `FusedMM` with a stride above 1 panics.

## 6. Not modelled

* **Explorer.** Event traces and logs, the floating-point scores of the tree policies,
  `gen_space`, the averaging of `StableEvaluator`, the values of the weights in rollouts
  and the impact ordering. Memory ordering is sequentially consistent: the relaxed accesses to the
  epoch and the stop flag may in addition be delayed, which the model covers by
  letting a thread take its step late. Panics of one thread poisoning the locks of
  others are not modelled; `panic` is a final position.
* **Search space.** The lexer, parser and type checker of `.exh` files and the printing
  of Rust text. In `FilterGen`, fragile values (`restrict_fragile`, which a filter lets
  through and the truth table skips) and set constraints (the sets of objects a filter
  applies to, which also keep filters from merging). In `KernelSpace`, the choices that the run's functions do not have:
  caches beyond their flags, and the limits of a device far above the sizes used.
* **Performance model.** The latency graph: the floating-point latencies between code
  points and the longest path that adds them to the figures of the levels; and memory
  replays.
* **Backends.** The text of the printers, parameters and arrays, CUDA's memory model
  and micro-benchmarks, Telajax: formatting, foreign calls and numbers that are
  measured.
* **Around it.** Configuration, logger, event log, offline analysis, command line, C
  and Python interfaces, the cache, the multimap and the record files of the utilities.
  Telajax is foreign calls; its `let _ = MEM_MUTEX.lock()` (`telajax/src/lib.rs:46`)
  releases the lock at once, and the calls it should serialise may overlap.

## 7. Plan

1. *(done)* The contract, the bound-ordered list, its refinement and proofs; the
   search around a store; the MCTS tree and its policies.
2. *(done)* The backends' queues; domains, filters and propagation; from the IR to
   running code; the throughput bound; the kernel library.
3. *(done)* The search over any store that keeps the contract, the MCTS tree, the
   evaluation queues, round robin and the sorted vectors, proved for every value of
   their constants; the utilities modelled.
4. *(done)* The statistics of TAG, the integer domains, the additive counters and, for
   filters that mean what the constraints say, the propagation, proved.
5. Compose: `ExploreSpace` over the list itself, through the refinement, to carry
   `Optimal` to the concrete store.
6. The same for counters that multiply, once their corrections are exact, and for
   lowering: what a new object adds to the calls and to the counter.
