-------------------------- MODULE ExploreSpaceProofs --------------------------
(***************************************************************************)
(* A search is correct for any number of workers, any leaves and any       *)
(* configuration: restarts are exclusive, the best candidate was checked,  *)
(* the cut only falls, and a search that ran out of candidates has the     *)
(* best one.                                                               *)
(***************************************************************************)
EXTENDS ExploreSpace, FiniteSetTheorems, TLAPS

-----------------------------------------------------------------------------
(* The restart barrier.                                                     *)

Running == {"explore", "add", "check", "arrive", "barrier1", "done"}
Restarting == {"elect", "restart", "leave", "barrier2"}
Blocked == {"barrier1", "barrier2"}
Candidate == {"arrive", "barrier1", "elect"}

At(S) == {w \in Worker : wpc[w] \in S}

(***************************************************************************)
(* The workers cross the barrier together, waiting counts the blocked      *)
(* ones, is_leader those that asked for a restart and were not yet told    *)
(* whether they lead it, and at most one leads it.                         *)
(***************************************************************************)
BarrierInv ==
    /\ wpc \in [Worker -> WorkerPlace]
    /\ At(Running) = Worker \/ At(Restarting) = Worker
    /\ waiting = Cardinality(At(Blocked))
    /\ is_leader = Cardinality(At(Candidate))
    /\ \A v, w \in Worker : wpc[v] = "restart" /\ wpc[w] = "restart" => v = w

(***************************************************************************)
(* How the number of workers in a set of places changes when one moves.    *)
(***************************************************************************)
LEMMA MoveCount ==
    ASSUME wpc \in [Worker -> WorkerPlace], NEW w \in Worker, NEW q \in WorkerPlace,
           wpc' = [wpc EXCEPT ![w] = q], NEW S
    PROVE  Cardinality(At(S)') =
             IF q \in S /\ wpc[w] \notin S THEN Cardinality(At(S)) + 1
             ELSE IF q \notin S /\ wpc[w] \in S THEN Cardinality(At(S)) - 1
             ELSE Cardinality(At(S))
<1>. USE DEF At
<1>1. IsFiniteSet(At(S))
  BY SearchAssumption, FS_Subset
<1>2. CASE q \in S /\ wpc[w] \notin S
  <2>1. At(S)' = At(S) \cup {w} /\ w \notin At(S)
    BY <1>2
  <2>. QED
    BY <1>1, <1>2, <2>1, FS_AddElement
<1>3. CASE q \notin S /\ wpc[w] \in S
  <2>1. At(S)' = At(S) \ {w} /\ w \in At(S)
    BY <1>3
  <2>. QED
    BY <1>1, <1>3, <2>1, FS_RemoveElement
<1>4. CASE q \in S <=> wpc[w] \in S
  <2>1. At(S)' = At(S)
    BY <1>4
  <2>. QED
    BY <1>4, <2>1
<1>. QED
  BY <1>2, <1>3, <1>4

LEMMA NumWorkersPositive == NumWorkers \in Nat /\ NumWorkers > 0
<1>1. NumWorkers \in Nat /\ NumWorkers # 0
  BY SearchAssumption, FS_CardinalityType, FS_EmptySet DEF NumWorkers
<1>. QED
  BY <1>1

(***************************************************************************)
(* When one worker more than the blocked ones makes NumWorkers, the others *)
(* are all blocked.                                                        *)
(***************************************************************************)
LEMMA LastArrival ==
    ASSUME BarrierInv, NEW w \in Worker, wpc[w] \notin Blocked,
           waiting + 1 = NumWorkers
    PROVE  \A v \in Worker \ {w} : wpc[v] \in Blocked
<1>1. IsFiniteSet(At(Blocked))
  BY SearchAssumption, FS_Subset DEF At
<1>2. /\ Cardinality(At(Blocked) \cup {w}) = Cardinality(At(Blocked)) + 1
      /\ At(Blocked) \cup {w} \in SUBSET Worker
  BY <1>1, FS_AddElement DEF At
<1>3. At(Blocked) \cup {w} = Worker
  BY <1>2, SearchAssumption, FS_Subset DEF NumWorkers, BarrierInv
<1>. QED
  BY <1>3 DEF At

LEMMA WholeAndNone ==
    /\ \A S : At(S) = Worker => Cardinality(At(S)) = NumWorkers
    /\ \A S : At(S) = {} => Cardinality(At(S)) = 0
  BY FS_EmptySet DEF NumWorkers

LEMMA BarrierInit == Init => BarrierInv
<1>. SUFFICES ASSUME Init PROVE BarrierInv
  OBVIOUS
<1>1. At(Blocked) = {} /\ At(Candidate) = {} /\ At(Running) = Worker
  BY DEF Init, At, Blocked, Candidate, Running
<1>. QED
  BY <1>1, WholeAndNone DEF Init, BarrierInv, WorkerPlace

\* Worker w goes to place q of its phase, and the counters follow it.
Moves(w, q) ==
    /\ wpc' = [wpc EXCEPT ![w] = q]
    /\ wpc[w] \in Running <=> q \in Running
    /\ q = "restart" => is_leader = NumWorkers
    /\ waiting' = IF q \in Blocked /\ wpc[w] \notin Blocked THEN waiting + 1
                  ELSE waiting
    /\ wpc[w] \in Blocked => q \in Blocked
    /\ is_leader' = IF q \in Candidate /\ wpc[w] \notin Candidate
                    THEN is_leader + 1
                    ELSE IF q \notin Candidate /\ wpc[w] \in Candidate
                    THEN is_leader - 1 ELSE is_leader

(***************************************************************************)
(* A move within the phase preserves the invariant of the barrier.         *)
(***************************************************************************)
LEMMA MoveInPhase ==
    ASSUME BarrierInv, NEW w \in Worker, NEW q \in WorkerPlace, Moves(w, q)
    PROVE  BarrierInv'
<1>. USE DEF BarrierInv, Moves
<1>t. waiting \in Nat /\ is_leader \in Nat
  BY SearchAssumption, FS_Subset, FS_CardinalityType DEF At
<1>1. wpc' \in [Worker -> WorkerPlace]
  OBVIOUS
<1>2. At(Running)' = Worker \/ At(Restarting)' = Worker
  BY DEF At, Running, Restarting, WorkerPlace
<1>3. waiting' = Cardinality(At(Blocked)')
  BY <1>t, MoveCount
<1>4. is_leader' = Cardinality(At(Candidate)')
  BY <1>t, MoveCount
<1>5. ASSUME q = "restart" PROVE \A v \in Worker : wpc[v] # "restart"
  <2>1. At(Candidate) = Worker
    BY <1>5, SearchAssumption, FS_Subset DEF At, NumWorkers
  <2>. QED
    BY <2>1 DEF At, Candidate
<1>6. \A v, u \in Worker : wpc'[v] = "restart" /\ wpc'[u] = "restart" => v = u
  BY <1>5
<1>. QED
  BY <1>1, <1>2, <1>3, <1>4, <1>6

LEMMA BarrierStep == BarrierInv /\ [Next]_searchVars => BarrierInv'
<1>. SUFFICES ASSUME BarrierInv, [Next]_searchVars PROVE BarrierInv'
  OBVIOUS
<1>. USE DEF Goto, Moves, Running, Blocked, Candidate
<1>p. \A w \in Worker : wpc[w] \in WorkerPlace
  BY DEF BarrierInv
<1>t. waiting \in Nat /\ is_leader \in Nat
  BY SearchAssumption, FS_Subset, FS_CardinalityType DEF BarrierInv, At
<1>1. ASSUME NEW w \in Worker, Explore(w) PROVE BarrierInv'
  <2>1. Moves(w, "add")
    BY <1>1 DEF Explore
  <2>. QED
    BY <2>1, MoveInPhase DEF WorkerPlace
<1>2. ASSUME NEW w \in Worker, Exit(w) PROVE BarrierInv'
  <2>1. Moves(w, "done")
    BY <1>2 DEF Exit
  <2>. QED
    BY <2>1, MoveInPhase DEF WorkerPlace
<1>3. ASSUME NEW w \in Worker, AddKernel(w) PROVE BarrierInv'
  <2>1. Moves(w, "check") \/ Moves(w, "explore")
    BY <1>3 DEF AddKernel
  <2>. QED
    BY <2>1, MoveInPhase DEF WorkerPlace
<1>4. ASSUME NEW w \in Worker, CheckRestart(w) PROVE BarrierInv'
  <2>1. Moves(w, "arrive") \/ Moves(w, "explore")
    BY <1>4 DEF CheckRestart
  <2>. QED
    BY <2>1, MoveInPhase DEF WorkerPlace
<1>5. ASSUME NEW w \in Worker, Arrive(w) PROVE BarrierInv'
  <2>1. CASE waiting + 1 = NumWorkers
    <3>1. \A v \in Worker \ {w} : wpc[v] \in Blocked
      BY <1>5, <2>1, LastArrival DEF Arrive, Blocked
    <3>2. \A v \in Worker \ {w} : wpc[v] = "barrier1"
      BY <1>5, <3>1 DEF Arrive, Blocked, BarrierInv, At, Running, Restarting
    <3>3. waiting' = 0 /\ is_leader' = is_leader /\ wpc' = [v \in Worker |-> "elect"]
      BY <1>5, <2>1, <3>2 DEF Arrive, Wait
    <3>4. /\ At(Candidate) = Worker /\ At(Candidate)' = Worker
          /\ At(Blocked)' = {} /\ At(Restarting)' = Worker
      BY <1>5, <3>2, <3>3 DEF Arrive, At, Candidate, Blocked, Restarting
    <3>. QED
      BY <3>3, <3>4, FS_EmptySet DEF BarrierInv, WorkerPlace
  <2>2. CASE waiting + 1 # NumWorkers
    <3>1. Moves(w, "barrier1")
      BY <1>5, <2>2 DEF Arrive, Wait
    <3>. QED
      BY <3>1, MoveInPhase DEF WorkerPlace
  <2>. QED
    BY <2>1, <2>2
<1>6. ASSUME NEW w \in Worker, Elect(w) PROVE BarrierInv'
  <2>1. Moves(w, "restart") \/ Moves(w, "leave")
    BY <1>6 DEF Elect, IsLeader
  <2>. QED
    BY <2>1, MoveInPhase DEF WorkerPlace
<1>7. ASSUME NEW w \in Worker, Restart(w) PROVE BarrierInv'
  <2>1. Moves(w, "leave")
    BY <1>7 DEF Restart
  <2>. QED
    BY <2>1, MoveInPhase DEF WorkerPlace
<1>8. ASSUME NEW w \in Worker, Leave(w) PROVE BarrierInv'
  <2>1. CASE waiting + 1 = NumWorkers
    <3>1. \A v \in Worker \ {w} : wpc[v] \in Blocked
      BY <1>8, <2>1, LastArrival DEF Leave, Blocked
    <3>2. \A v \in Worker \ {w} : wpc[v] = "barrier2"
      BY <1>8, <3>1 DEF Leave, Blocked, BarrierInv, At, Running, Restarting
    <3>3. waiting' = 0 /\ is_leader' = is_leader /\ wpc' = [v \in Worker |-> "explore"]
      BY <1>8, <2>1, <3>2 DEF Leave, Wait
    <3>4. /\ At(Candidate) = {} /\ At(Candidate)' = {}
          /\ At(Blocked)' = {} /\ At(Running)' = Worker
      BY <1>8, <3>2, <3>3 DEF Leave, At, Candidate, Blocked, Running
    <3>. QED
      BY <3>3, <3>4, FS_EmptySet DEF BarrierInv, WorkerPlace
  <2>2. CASE waiting + 1 # NumWorkers
    <3>1. Moves(w, "barrier2")
      BY <1>8, <2>2 DEF Leave, Wait
    <3>. QED
      BY <3>1, MoveInPhase DEF WorkerPlace
  <2>. QED
    BY <2>1, <2>2
<1>9. ASSUME UNCHANGED <<wpc, waiting, is_leader>> PROVE BarrierInv'
  BY <1>9 DEF BarrierInv, At
<1>10. CASE Discard \/ EvalNext \/ MonitorNext \/ Timeout
  BY <1>9, <1>10
     DEF Discard, EvalNext, EvalStart, EvalRun, EvalSend, EvalEnd, MonitorNext,
         Handle, StopExploration, Exhausted, Timeout, workerVars
<1>11. CASE UNCHANGED searchVars
  BY <1>9, <1>11 DEF searchVars, workerVars
<1>. QED
  BY <1>1, <1>2, <1>3, <1>4, <1>5, <1>6, <1>7, <1>8, <1>10, <1>11
     DEF Next, WorkerNext

(***************************************************************************)
(* However the workers interleave around the barrier, one of them performs *)
(* the restart and no other one is in the store or on its way there.       *)
(***************************************************************************)
THEOREM RestartExclusive == SearchSpec => []RestartIsExclusive
<1>1. BarrierInv => RestartIsExclusive
  BY DEF BarrierInv, RestartIsExclusive, At, Running, Restarting
<1>. QED
  BY <1>1, BarrierInit, BarrierStep, PTL DEF SearchSpec

-----------------------------------------------------------------------------
(* The cut the monitor computes.                                            *)

LEMMA ProductMonotone ==
    ASSUME NEW k \in Nat, NEW a \in Nat, NEW b \in Nat, a <= b
    PROVE  k * a <= k * b
<1>1. k * b = k * a + k * (b - a)
  OBVIOUS
<1>2. k * (b - a) >= 0 /\ k * a \in Nat
  OBVIOUS
<1>. QED
  BY <1>1, <1>2

LEMMA QuotientMonotone ==
    ASSUME NEW a \in Nat, NEW b \in Nat, a <= b
    PROVE  a \div 100 \in Nat /\ a \div 100 <= b \div 100
  OBVIOUS

(***************************************************************************)
(* The cut is a time, at most the one it is computed from, and grows with  *)
(* it, for every stop_bound and every distance_to_best.                    *)
(***************************************************************************)
LEMMA NewCutMonotone ==
    /\ \A e \in 0 .. Inf : NewCut(e) \in 0 .. Inf /\ NewCut(e) <= e
    /\ \A d, e \in 0 .. Inf : d <= e => NewCut(d) <= NewCut(e)
    /\ NewCut(Inf) = Inf
<1>. DEFINE k == 100 - Ratio
<1>1. k \in Nat /\ k <= 100
  BY SearchAssumption
<1>. HIDE DEF k
<1>2. \A e \in Nat : k * e \in Nat /\ k * e <= 100 * e
  <2>. TAKE e \in Nat
  <2>1. e * k <= e * 100
    BY <1>1, ProductMonotone
  <2>. QED
    BY <1>1, <2>1
<1>3. \A e \in Nat : (k * e) \div 100 \in Nat /\ (k * e) \div 100 <= e
  <2>. TAKE e \in Nat
  <2>1. (k * e) \div 100 \in Nat /\ (k * e) \div 100 <= (100 * e) \div 100
    BY <1>2, QuotientMonotone
  <2>. QED
    BY <2>1
<1>4. \A d, e \in Nat : d <= e => (k * d) \div 100 <= (k * e) \div 100
  <2>. TAKE d, e \in Nat
  <2>. HAVE d <= e
  <2>1. k * d <= k * e
    BY <1>1, ProductMonotone
  <2>. QED
    BY <1>2, <2>1, QuotientMonotone
<1>5. \A e : NewCut(e) = IF e < StopBound THEN 0
                         ELSE IF e = Inf THEN Inf ELSE (k * e) \div 100
  BY DEF NewCut, k
<1>6. \A e \in 0 .. Inf : e \in Nat
  BY SearchAssumption
<1>7. \A e \in 0 .. Inf : NewCut(e) \in 0 .. Inf /\ NewCut(e) <= e
  <2>. TAKE e \in 0 .. Inf
  <2>1. (k * e) \div 100 \in Nat /\ (k * e) \div 100 <= e
    BY <1>3, <1>6
  <2>. QED
    BY <1>5, <2>1, SearchAssumption
<1>8. \A d, e \in 0 .. Inf : d <= e => NewCut(d) <= NewCut(e)
  <2>. TAKE d, e \in 0 .. Inf
  <2>. HAVE d <= e
  <2>1. d \in Nat /\ e \in Nat /\ (k * d) \div 100 <= (k * e) \div 100
    BY <1>4, <1>6
  <2>2. NewCut(d) <= d /\ NewCut(e) >= 0 /\ d <= Inf
    BY <1>7, SearchAssumption
  <2>3. CASE e = Inf
    BY <1>5, <2>1, <2>2, <2>3, <1>7, SearchAssumption
  <2>4. CASE e # Inf
    BY <1>5, <2>1, <2>2, <2>4, SearchAssumption
  <2>. QED
    BY <2>3, <2>4
<1>9. NewCut(Inf) = Inf
  BY <1>5, SearchAssumption
<1>. QED
  BY <1>7, <1>8, <1>9

-----------------------------------------------------------------------------
(* Types.                                                                   *)

(***************************************************************************)
(* A worker that queues a leaf holds one, and the evaluation thread times  *)
(* a leaf: NoLeaf never enters the queue.                                  *)
(***************************************************************************)
HoldsLeaf ==
    /\ \A w \in Worker : wpc[w] = "add" => hand[w] \in Leaf
    /\ epc \in {"run", "send"} => job.leaf \in Leaf

TypeInv == BarrierInv /\ TypeOK /\ HoldsLeaf

LEMMA BarrierCounts == BarrierInv => is_leader \in 0 .. NumWorkers /\ waiting \in 0 .. NumWorkers
<1>1. \A S : At(S) \in SUBSET Worker
  BY DEF At
<1>2. \A S : Cardinality(At(S)) \in Nat /\ Cardinality(At(S)) <= NumWorkers
  BY <1>1, SearchAssumption, FS_Subset, FS_CardinalityType DEF NumWorkers
<1>. QED
  BY <1>2, NumWorkersPositive DEF BarrierInv

LEMMA TypeInit == Init => TypeInv
<1>. SUFFICES ASSUME Init PROVE TypeInv
  OBVIOUS
<1>1. BarrierInv
  BY BarrierInit
<1>2. HoldsLeaf
  BY DEF Init, HoldsLeaf
<1>3. StoreTypeOK
  BY SearchAssumption DEF Init, StoreInit, StoreTypeOK
<1>4. TypeOK
  BY <1>1, <1>3, BarrierCounts, SearchAssumption DEF Init, TypeOK, BarrierInv, JobType
<1>. QED
  BY <1>1, <1>2, <1>4 DEF TypeInv

LEMMA HeadTailTyped ==
    ASSUME NEW S, NEW s \in Seq(S), s # <<>>
    PROVE  Head(s) \in S /\ Tail(s) \in Seq(S) /\ Len(Tail(s)) = Len(s) - 1
  OBVIOUS

LEMMA AppendTyped ==
    ASSUME NEW S, NEW s \in Seq(S), NEW x \in S
    PROVE  Append(s, x) \in Seq(S) /\ Len(Append(s, x)) = Len(s) + 1
  OBVIOUS

LEMMA RecordFields ==
    /\ \A m \in JobType : m.leaf \in Leaf \cup {NoLeaf} /\ m.eval \in 0 .. Inf
    /\ \A l \in Leaf \cup {NoLeaf}, e \in 0 .. Inf :
         [leaf |-> l, eval |-> e] \in JobType
    /\ TypeOK => status.num \in Nat /\ status.eval \in 0 .. Inf
  BY DEF JobType, TypeOK

LEMMA TypeStep == TypeInv /\ [Next]_searchVars => TypeInv'
<1>. SUFFICES ASSUME TypeInv, [Next]_searchVars PROVE TypeInv'
  OBVIOUS
<1>b. BarrierInv' /\ wpc' \in [Worker -> WorkerPlace]
  BY BarrierStep DEF TypeInv, BarrierInv
<1>c. is_leader' \in 0 .. NumWorkers /\ waiting' \in 0 .. NumWorkers
  <2>1. /\ \A S : At(S)' \in SUBSET Worker
        /\ is_leader' = Cardinality(At(Candidate)') /\ waiting' = Cardinality(At(Blocked)')
    BY <1>b DEF At, BarrierInv
  <2>2. \A S : Cardinality(At(S)') \in Nat /\ Cardinality(At(S)') <= NumWorkers
    BY <2>1, SearchAssumption, FS_Subset, FS_CardinalityType DEF NumWorkers
  <2>. QED
    BY <2>1, <2>2, NumWorkersPositive
<1>. USE SearchAssumption DEF TypeInv, TypeOK, HoldsLeaf, StoreTypeOK
<1>1. ASSUME NEW w \in Worker, Explore(w) PROVE TypeOK' /\ HoldsLeaf'
  BY <1>1, <1>b, <1>c DEF Explore, Give, Goto, evalVars, monVars
<1>2. ASSUME NEW w \in Worker, Exit(w) PROVE TypeOK' /\ HoldsLeaf'
  BY <1>2, <1>b, <1>c DEF Exit, Refuse, Goto, evalVars, monVars
<1>3. ASSUME NEW w \in Worker, AddKernel(w) PROVE TypeOK' /\ HoldsLeaf'
  <2>1. evalq' \in Seq(Leaf) /\ Len(evalq') <= EvalBuffer
    BY <1>3 DEF AddKernel, Room
  <2>. QED
    BY <1>3, <1>b, <1>c, <2>1 DEF AddKernel, Goto, evalVars, monVars, storeVars
<1>4. ASSUME NEW w \in Worker, CheckRestart(w) PROVE TypeOK' /\ HoldsLeaf'
  BY <1>4, <1>b, <1>c DEF CheckRestart, Goto, evalVars, monVars, storeVars
<1>5. ASSUME NEW w \in Worker, Arrive(w) PROVE TypeOK' /\ HoldsLeaf'
  BY <1>5, <1>b, <1>c DEF Arrive, Wait, Goto, evalVars, monVars, storeVars
<1>6. ASSUME NEW w \in Worker, Elect(w) PROVE TypeOK' /\ HoldsLeaf'
  BY <1>6, <1>b, <1>c DEF Elect, Goto, evalVars, monVars, storeVars
<1>7. ASSUME NEW w \in Worker, Restart(w) PROVE TypeOK' /\ HoldsLeaf'
  BY <1>7, <1>b, <1>c DEF Restart, Goto, evalVars, monVars, storeVars
<1>8. ASSUME NEW w \in Worker, Leave(w) PROVE TypeOK' /\ HoldsLeaf'
  BY <1>8, <1>b, <1>c DEF Leave, Wait, Goto, evalVars, monVars, storeVars
<1>9. CASE Discard
  BY <1>9, <1>b, <1>c DEF Discard, Prune, evalVars, monVars, workerVars
<1>10. CASE EvalStart
  <2>1. evalq' \in Seq(Leaf) /\ Len(evalq') <= EvalBuffer /\ Head(evalq) \in Leaf
    BY <1>10, HeadTailTyped DEF EvalStart
  <2>2. job' \in JobType /\ job'.leaf \in Leaf
    BY <1>10, <2>1, RecordFields DEF EvalStart
  <2>3. n_evals' \in Nat /\ epc' = "run" /\ UNCHANGED <<best, storeVars, workerVars, monVars, monq>>
    BY <1>10 DEF EvalStart
  <2>. QED
    BY <1>b, <1>c, <2>1, <2>2, <2>3 DEF monVars, workerVars, storeVars
<1>11. CASE EvalRun
  <2>. DEFINE t == Measured(job.leaf)
              e == IF Rejected(job.leaf, t) THEN Inf ELSE t
  <2>1. t \in 0 .. Inf /\ e \in 0 .. Inf
    <3>1. Time[job.leaf] \in 0 .. Inf
      BY <1>11 DEF EvalRun
    <3>. QED
      BY <3>1 DEF Measured
  <2>2. job' = [job EXCEPT !.eval = e] /\ best' = Updated(t, e)
    BY <1>11 DEF EvalRun
  <2>3. job' \in JobType /\ job'.leaf = job.leaf /\ best' \in 0 .. Inf
    BY <2>1, <2>2 DEF Updated, JobType
  <2>. QED
    BY <1>11, <1>b, <1>c, <2>3 DEF EvalRun, monVars, workerVars, storeVars
<1>12. CASE EvalSend
  <2>1. monq' \in Seq(JobType)
    <3>1. Append(monq, job) \in Seq(JobType)
      BY AppendTyped
    <3>. QED
      BY <1>12, <3>1 DEF EvalSend
  <2>. QED
    BY <1>12, <1>b, <1>c, <2>1 DEF EvalSend, monVars, workerVars, storeVars
<1>13. CASE EvalEnd
  BY <1>13, <1>b, <1>c DEF EvalEnd, monVars, workerVars, storeVars
<1>14. CASE Handle
  <2>. DEFINE m == Head(monq)
  <2>1. m \in JobType /\ monq' \in Seq(JobType)
    BY <1>14, HeadTailTyped DEF Handle
  <2>2. m.leaf \in Leaf \cup {NoLeaf} /\ m.eval \in 0 .. Inf /\ Counted(m) \in Nat
    <3>1. m.leaf \in Leaf \cup {NoLeaf} /\ m.eval \in 0 .. Inf /\ status.num \in Nat
      BY <2>1, RecordFields
    <3>. QED
      BY <3>1 DEF Counted
  <2>. HIDE DEF m
  <2>3. NewCut(m.eval) \in 0 .. Inf
    BY <2>2, NewCutMonotone
  <2>4. NewBest(m)
    BY <1>14 DEF Handle, m
  <2>5. status' \in [leaf : Leaf \cup {NoLeaf}, eval : 0 .. Inf, num : Nat]
    <3>1. CASE Improves(m)
      BY <2>2, <2>4, <3>1 DEF NewBest
    <3>2. CASE ~Improves(m)
      BY <2>2, <2>4, <3>2 DEF NewBest
    <3>. QED
      BY <3>1, <3>2
  <2>6. StoreTypeOK'
    BY <2>3, <2>4 DEF NewBest, UpdateCut, storeVars
  <2>. QED
    BY <1>14, <1>b, <1>c, <2>1, <2>5, <2>6 DEF Handle, evalVars, workerVars
<1>15. CASE Timeout
  BY <1>15, <1>b, <1>c DEF Timeout, evalVars, workerVars, storeVars
<1>16. CASE StopExploration
  BY <1>16, <1>b, <1>c DEF StopExploration, UpdateCut, evalVars, workerVars
<1>17. CASE Exhausted
  BY <1>17, <1>b, <1>c DEF Exhausted, evalVars, workerVars, storeVars
<1>18. CASE UNCHANGED searchVars
  BY <1>18, <1>b, <1>c DEF searchVars, evalVars, monVars, workerVars, storeVars
<1>19. TypeOK' /\ HoldsLeaf'
  BY <1>1, <1>2, <1>3, <1>4, <1>5, <1>6, <1>7, <1>8, <1>9, <1>10, <1>11, <1>12,
     <1>13, <1>14, <1>15, <1>16, <1>17, <1>18
     DEF Next, WorkerNext, EvalNext, MonitorNext
<1>. QED
  BY <1>b, <1>19

(***************************************************************************)
(* The state of a search is well typed for every configuration: in         *)
(* particular is_leader never underflows and the evaluation queue never    *)
(* exceeds its capacity.                                                   *)
(***************************************************************************)
THEOREM SearchTypeCorrect == SearchSpec => []TypeOK
<1>1. TypeInv => TypeOK
  BY DEF TypeInv
<1>. QED
  BY <1>1, TypeInit, TypeStep, PTL DEF SearchSpec

-----------------------------------------------------------------------------
(* What the evaluation thread told the monitor and what the monitor knows.  *)

\* The messages the monitor has not handled, the one being sent included.
Unread == IF epc = "send" THEN Append(monq, job) ELSE monq

Sound(l, e) == e < Inf => l \in Leaf /\ e = Time[l] /\ (HasCheck => l \in Valid)

\* Message i reports a time that something sent before it already beats.
Beaten(i) ==
    \/ status.eval <= Unread[i].eval
    \/ \E j \in 1 .. i - 1 : Unread[j].eval <= Unread[i].eval

(***************************************************************************)
(* The evaluation thread's best is the minimum of what the monitor knows   *)
(* and has not read, and every unread message that could become the best   *)
(* candidate carries a checked time.  Once the monitor has closed the      *)
(* channel, nothing of this is needed.                                     *)
(***************************************************************************)
MonitorInv ==
    /\ status.leaf = NoLeaf => status.eval = Inf
    /\ Sound(status.leaf, status.eval)
    /\ mpc # "stopped" => cut = NewCut(status.eval)
    /\ mpc = "run" =>
         /\ \/ best = status.eval
            \/ \E i \in 1 .. Len(Unread) : best = Unread[i].eval
         /\ best <= status.eval
         /\ \A i \in 1 .. Len(Unread) :
              /\ best <= Unread[i].eval
              /\ Sound(Unread[i].leaf, Unread[i].eval) \/ Beaten(i)
    /\ mpc = "exhausted" => best = status.eval /\ epc = "ended"

LEMMA UnreadTyped == TypeInv => Unread \in Seq(JobType)
  BY AppendTyped DEF TypeInv, TypeOK, Unread

LEMMA MonitorInit == Init => MonitorInv
<1>. SUFFICES ASSUME Init PROVE MonitorInv
  OBVIOUS
<1>1. Unread = <<>> /\ Len(Unread) = 0
  BY DEF Init, Unread
<1>. QED
  BY <1>1, NewCutMonotone, SearchAssumption DEF Init, StoreInit, MonitorInv, Sound

LEMMA MonitorStep ==
    TypeInv /\ TypeInv' /\ MonitorInv /\ [Next]_searchVars => MonitorInv'
<1>. SUFFICES ASSUME TypeInv, TypeInv', MonitorInv, [Next]_searchVars
              PROVE  MonitorInv'
  OBVIOUS
<1>t. /\ Unread \in Seq(JobType) /\ Inf \in Nat
      /\ status.eval \in 0 .. Inf /\ best \in 0 .. Inf /\ cut \in 0 .. Inf
      /\ \A i \in 1 .. Len(Unread) : Unread[i].eval \in 0 .. Inf
  <2>1. /\ Unread \in Seq(JobType) /\ Inf \in Nat
        /\ status.eval \in 0 .. Inf /\ best \in 0 .. Inf /\ cut \in 0 .. Inf
    BY UnreadTyped, RecordFields, SearchAssumption DEF TypeInv, TypeOK, StoreTypeOK
  <2>2. \A i \in 1 .. Len(Unread) : Unread[i] \in JobType
    BY <2>1
  <2>. QED
    BY <2>1, <2>2, RecordFields
<1>1. ASSUME UNCHANGED <<Unread, status, cut, mpc, best>>, epc = "ended" => epc' = "ended"
      PROVE  MonitorInv'
  BY <1>1 DEF MonitorInv, Beaten, Sound
<1>2. ASSUME NEW w \in Worker, WorkerNext(w) PROVE MonitorInv'
  <2>1. UNCHANGED <<epc, job, best, mpc, status, monq, cut>>
    BY <1>2 DEF WorkerNext, Explore, Exit, AddKernel, CheckRestart, Arrive, Elect,
                Restart, Leave, evalVars, monVars, storeVars, Give, Refuse
  <2>. QED
    BY <1>1, <2>1 DEF Unread
<1>3. CASE Discard
  BY <1>1, <1>3 DEF Discard, Prune, evalVars, monVars, Unread
<1>4. CASE EvalStart
  BY <1>1, <1>4 DEF EvalStart, monVars, storeVars, Unread
<1>5. CASE EvalRun
  <2>. DEFINE l == job.leaf
              t == Measured(l)
              e == IF Rejected(l, t) THEN Inf ELSE t
  <2>n. PICK n \in Nat : n = Len(Unread)
    BY <1>t
  <2>1. l \in Leaf /\ Time[l] \in 0 .. Inf /\ epc = "run" /\ epc' = "send"
    BY <1>5, SearchAssumption DEF EvalRun, TypeInv, HoldsLeaf
  <2>2. /\ job' = [leaf |-> l, eval |-> e] /\ best' = Updated(t, e)
        /\ UNCHANGED <<status, cut, mpc, monq>>
    BY <1>5 DEF EvalRun, TypeInv, TypeOK, JobType, monVars, storeVars
  <2>3. e \in 0 .. Inf /\ (Sound(l, e) \/ best <= e)
    BY <2>1, <1>t DEF Measured, Rejected, Sound
  <2>4. job'.leaf = l /\ job'.eval = e
    BY <2>2
  <2>. HIDE DEF l, e, t
  <2>5. best' <= best /\ best' <= e /\ (best' = best \/ best' = e)
    BY <2>2, <2>3, <1>t DEF Updated
  <2>6. Unread' = Append(Unread, job')
    BY <2>1, <2>2 DEF Unread
  <2>7. /\ n \in Nat /\ Len(Unread') = n + 1 /\ Unread'[n + 1] = job'
        /\ \A i \in 1 .. n : Unread'[i] = Unread[i]
    BY <2>6, <2>n, <1>t
  <2>8. \A i \in 1 .. n : Beaten(i) => Beaten(i)'
    BY <2>2, <2>7 DEF Beaten
  <2>9. mpc = "run" => Sound(l, e) \/ Beaten(n + 1)'
    <3>. SUFFICES ASSUME mpc = "run", best <= e PROVE Beaten(n + 1)'
      BY <2>3
    <3>1. Unread'[n + 1].eval = e /\ (n + 1) - 1 = n
      BY <2>4, <2>7
    <3>2. CASE best = status.eval
      BY <2>2, <3>1, <3>2 DEF Beaten
    <3>3. ASSUME NEW j \in 1 .. n, best = Unread[j].eval PROVE Beaten(n + 1)'
      BY <2>7, <3>1, <3>3 DEF Beaten
    <3>. QED
      BY <2>n, <3>2, <3>3 DEF MonitorInv
  <2>10. mpc = "run" => \A i \in 1 .. n + 1 :
           /\ best' <= Unread'[i].eval
           /\ Sound(Unread'[i].leaf, Unread'[i].eval) \/ Beaten(i)'
    <3>1. ASSUME mpc = "run", NEW i \in 1 .. n
          PROVE  /\ best' <= Unread'[i].eval
                 /\ Sound(Unread'[i].leaf, Unread'[i].eval) \/ Beaten(i)'
      <4>1. best <= Unread[i].eval /\ (Sound(Unread[i].leaf, Unread[i].eval) \/ Beaten(i))
        BY <2>n, <3>1 DEF MonitorInv
      <4>2. Unread[i].eval \in 0 .. Inf /\ best' \in 0 .. Inf
        BY <1>t, <2>n, <2>3, <2>5
      <4>. QED
        BY <4>1, <4>2, <1>t, <2>5, <2>7, <2>8
    <3>2. ASSUME mpc = "run"
          PROVE  /\ best' <= Unread'[n + 1].eval
                 /\ \/ Sound(Unread'[n + 1].leaf, Unread'[n + 1].eval)
                    \/ Beaten(n + 1)'
      BY <3>2, <2>4, <2>5, <2>7, <2>9
    <3>3. \A i \in 1 .. n + 1 : i \in 1 .. n \/ i = n + 1
      BY <2>7
    <3>. QED
      BY <3>1, <3>2, <3>3
  <2>11. mpc = "run" => \/ best' = status'.eval
                        \/ \E i \in 1 .. n + 1 : best' = Unread'[i].eval
    <3>1. CASE best' = e
      BY <3>1, <2>4, <2>7
    <3>2. CASE best' = best
      BY <3>2, <2>n, <2>2, <2>7 DEF MonitorInv
    <3>. QED
      BY <3>1, <3>2, <2>5
  <2>12. mpc = "run" => best' <= status'.eval
    BY <2>2, <2>3, <2>5, <1>t DEF MonitorInv
  <2>. QED
    BY <2>1, <2>2, <2>7, <2>10, <2>11, <2>12 DEF MonitorInv, Sound
<1>6. CASE EvalSend
  <2>1. CASE mpc = "run"
    BY <1>1, <1>6, <2>1 DEF EvalSend, monVars, storeVars, Unread
  <2>2. CASE mpc # "run"
    BY <1>6, <2>2 DEF EvalSend, monVars, storeVars, MonitorInv, Sound
  <2>. QED
    BY <2>1, <2>2
<1>7. CASE EvalEnd
  BY <1>1, <1>7 DEF EvalEnd, monVars, storeVars, Unread
<1>8. CASE Handle
  <2>. DEFINE m == Head(monq)
              n == Len(Unread')
  <2>1. /\ monq \in Seq(JobType) /\ monq # <<>> /\ mpc = "run"
        /\ mpc' = "run" \/ mpc' = "closed"
        /\ mpc' = "run" => monq' = Tail(monq)
        /\ NewBest(m) /\ UNCHANGED <<epc, job, best>>
    BY <1>8 DEF Handle, evalVars, TypeInv, TypeOK
  <2>2. Unread[1] = m /\ 1 \in 1 .. Len(Unread)
    BY <2>1 DEF Unread, TypeInv, TypeOK
  <2>3. mpc' = "run" =>
          /\ n \in Nat /\ Len(Unread) = n + 1
          /\ \A i \in 1 .. n : Unread'[i] = Unread[i + 1]
    <3>. SUFFICES ASSUME mpc' = "run"
                  PROVE  /\ n \in Nat /\ Len(Unread) = n + 1
                         /\ \A i \in 1 .. n : Unread'[i] = Unread[i + 1]
      OBVIOUS
    <3>1. CASE epc = "send"
      <4>1. Unread = Append(monq, job) /\ Unread' = Append(Tail(monq), job) /\ job \in JobType
        BY <2>1, <3>1 DEF Unread, TypeInv, TypeOK
      <4>. QED
        BY <2>1, <4>1
    <3>2. CASE epc # "send"
      <4>1. Unread = monq /\ Unread' = Tail(monq)
        BY <2>1, <3>2 DEF Unread
      <4>. QED
        BY <2>1, <4>1
    <3>. QED
      BY <3>1, <3>2
  <2>4. m.eval \in 0 .. Inf /\ best <= m.eval /\ best <= status.eval
    BY <2>1, <2>2, <1>t DEF MonitorInv
  <2>5. Sound(m.leaf, m.eval) \/ status.eval <= m.eval
    BY <2>1, <2>2 DEF MonitorInv, Beaten
  <2>. HIDE DEF m, n
  <2>6. /\ status'.eval <= status.eval /\ status'.eval <= m.eval
        /\ status'.eval = status.eval \/ status'.eval = m.eval
    <3>1. status'.eval = IF Improves(m) THEN m.eval ELSE status.eval
      BY <2>1 DEF NewBest, TypeInv, TypeOK
    <3>. QED
      BY <2>4, <3>1, <1>t DEF Improves, MonitorInv
  <2>7. /\ status'.leaf = NoLeaf => status'.eval = Inf
        /\ Sound(status'.leaf, status'.eval)
        /\ cut' = NewCut(status'.eval)
    <3>1. CASE Improves(m)
      <4>1. Sound(m.leaf, m.eval)
        BY <2>4, <2>5, <3>1, <1>t DEF Improves, MonitorInv, Sound
      <4>2. status'.leaf = m.leaf /\ status'.eval = m.eval /\ cut' = NewCut(m.eval)
        BY <2>1, <3>1 DEF NewBest, UpdateCut
      <4>. QED
        BY <2>4, <4>1, <4>2, SearchAssumption DEF Sound
    <3>2. CASE ~Improves(m)
      <4>1. status'.leaf = status.leaf /\ status'.eval = status.eval /\ cut' = cut
        BY <2>1, <3>2 DEF NewBest, storeVars, TypeInv, TypeOK
      <4>. QED
        BY <2>1, <4>1 DEF MonitorInv
    <3>. QED
      BY <3>1, <3>2
  <2>8. status'.eval \in 0 .. Inf
    BY <2>4, <2>6, <1>t
  <2>9. ASSUME mpc' = "run"
        PROVE  /\ best = status'.eval \/ \E i \in 1 .. n : best = Unread'[i].eval
               /\ best <= status'.eval
    <3>1. CASE best = status'.eval
      BY <3>1, <2>8
    <3>2. CASE best # status'.eval
      <4>1. best # m.eval /\ best # status.eval
        BY <3>2, <2>4, <2>6, <1>t
      <4>2. PICK i \in 1 .. n + 1 : best = Unread[i].eval
        BY <4>1, <2>1, <2>3, <2>9 DEF MonitorInv
      <4>3. i # 1 /\ i - 1 \in 1 .. n
        BY <4>1, <4>2, <2>2, <2>3, <2>9
      <4>. QED
        BY <4>2, <4>3, <2>3, <2>4, <2>6, <2>8, <2>9, <1>t
    <3>. QED
      BY <3>1, <3>2
  <2>10. ASSUME mpc' = "run", NEW i \in 1 .. n
         PROVE  /\ best <= Unread'[i].eval
                /\ Sound(Unread'[i].leaf, Unread'[i].eval) \/ Beaten(i)'
    <3>1. i + 1 \in 1 .. Len(Unread) /\ Unread'[i] = Unread[i + 1]
      BY <2>3, <2>10
    <3>2. /\ best <= Unread[i + 1].eval /\ Unread[i + 1].eval \in 0 .. Inf
          /\ Sound(Unread[i + 1].leaf, Unread[i + 1].eval) \/ Beaten(i + 1)
      BY <3>1, <2>1, <1>t DEF MonitorInv
    <3>3. ASSUME Beaten(i + 1) PROVE Beaten(i)'
      <4>1. CASE status.eval <= Unread[i + 1].eval
        BY <4>1, <3>1, <3>2, <2>6, <2>8, <1>t DEF Beaten
      <4>2. ASSUME NEW j \in 1 .. i, Unread[j].eval <= Unread[i + 1].eval
            PROVE  Beaten(i)'
        <5>1. CASE j = 1
          BY <4>2, <5>1, <3>1, <3>2, <2>2, <2>4, <2>6, <2>8, <1>t DEF Beaten
        <5>2. CASE j # 1
          <6>1. j - 1 \in 1 .. i - 1 /\ j - 1 \in 1 .. n /\ Unread'[j - 1] = Unread[j]
            BY <5>2, <2>3, <2>10
          <6>. QED
            BY <4>2, <6>1, <3>1 DEF Beaten
        <5>. QED
          BY <5>1, <5>2
      <4>. QED
        BY <3>3, <4>1, <4>2, <2>3, <2>10 DEF Beaten
    <3>. QED
      BY <3>1, <3>2, <3>3
  <2>. QED
    BY <2>1, <2>7, <2>9, <2>10 DEF MonitorInv, Sound, n
<1>9. CASE Timeout
  BY <1>9 DEF Timeout, evalVars, storeVars, MonitorInv, Sound
<1>10. CASE StopExploration
  BY <1>10 DEF StopExploration, evalVars, UpdateCut, MonitorInv, Sound
<1>11. CASE Exhausted
  <2>1. Unread = <<>> /\ Len(Unread) = 0
    BY <1>11 DEF Exhausted, Unread
  <2>. QED
    BY <1>11, <2>1 DEF Exhausted, evalVars, storeVars, MonitorInv, Sound
<1>12. CASE UNCHANGED searchVars
  BY <1>1, <1>12 DEF searchVars, evalVars, monVars, storeVars, Unread
<1>. QED
  BY <1>2, <1>3, <1>4, <1>5, <1>6, <1>7, <1>8, <1>9, <1>10, <1>11, <1>12
     DEF Next, EvalNext, MonitorNext

LEMMA SearchInv == SearchSpec => [](TypeInv /\ MonitorInv)
  BY TypeInit, TypeStep, MonitorInit, MonitorStep, PTL DEF SearchSpec

LEMMA InFlightUnread ==
    ASSUME TypeInv
    PROVE  InFlight = {Unread[i].eval : i \in 1 .. Len(Unread)}
<1>1. CASE epc = "send"
  <2>1. /\ Unread = Append(monq, job) /\ Len(Unread) = Len(monq) + 1
        /\ Len(monq) \in Nat /\ Unread[Len(monq) + 1] = job
        /\ \A i \in 1 .. Len(monq) : Unread[i] = monq[i]
    BY <1>1 DEF Unread, TypeInv, TypeOK
  <2>2. \A i \in 1 .. Len(Unread) : i \in 1 .. Len(monq) \/ i = Len(monq) + 1
    BY <2>1
  <2>. QED
    BY <1>1, <2>1, <2>2 DEF InFlight
<1>2. CASE epc # "send"
  BY <1>2 DEF Unread, InFlight
<1>. QED
  BY <1>1, <1>2

(***************************************************************************)
(* While the monitor listens, the evaluation thread skips candidates       *)
(* against the best time the monitor knows or has in its channel.          *)
(***************************************************************************)
THEOREM BestAgrees == SearchSpec => []BestInSync
<1>1. TypeInv /\ MonitorInv => BestInSync
  BY InFlightUnread DEF MonitorInv, BestInSync
<1>. QED
  BY <1>1, SearchInv, PTL

(***************************************************************************)
(* The best candidate the monitor holds was timed and its results checked, *)
(* although the evaluation thread checks only the times that beat its own  *)
(* best and may check nothing once the monitor is behind.                  *)
(***************************************************************************)
THEOREM BestChecked == SearchSpec => []BestIsChecked
<1>1. MonitorInv => BestIsChecked
  BY DEF MonitorInv, BestIsChecked, Sound
<1>. QED
  BY <1>1, SearchInv, PTL

LEMMA CutStep == TypeInv /\ MonitorInv /\ [Next]_searchVars => cut' <= cut
<1>. SUFFICES ASSUME TypeInv, MonitorInv, [Next]_searchVars PROVE cut' <= cut
  OBVIOUS
<1>1. cut \in 0 .. Inf /\ Inf \in Nat
  BY SearchAssumption DEF TypeInv, TypeOK, StoreTypeOK
<1>2. CASE Handle
  <2>. DEFINE m == Head(monq)
  <2>1. m.eval \in 0 .. Inf /\ status.eval \in 0 .. Inf /\ NewBest(m)
    BY <1>2, HeadTailTyped, RecordFields DEF Handle, TypeInv, TypeOK
  <2>2. CASE Improves(m)
    <3>1. m.eval <= status.eval
      BY <1>1, <2>1, <2>2 DEF Improves, MonitorInv
    <3>2. NewCut(m.eval) <= NewCut(status.eval)
      BY <2>1, <3>1, NewCutMonotone
    <3>. QED
      BY <1>2, <2>1, <2>2, <3>2 DEF Handle, NewBest, UpdateCut, MonitorInv
  <2>3. CASE ~Improves(m)
    BY <1>1, <2>1, <2>3 DEF NewBest, storeVars
  <2>. QED
    BY <2>2, <2>3
<1>3. CASE StopExploration
  BY <1>1, <1>3 DEF StopExploration, UpdateCut
<1>4. ASSUME cut' = cut PROVE cut' <= cut
  BY <1>1, <1>4
<1>5. ASSUME NEW w \in Worker, WorkerNext(w) PROVE cut' = cut
  BY <1>5 DEF WorkerNext, Explore, Exit, AddKernel, CheckRestart, Arrive, Elect,
              Restart, Leave, storeVars, Give, Refuse
<1>6. CASE Discard \/ EvalNext \/ Timeout \/ Exhausted \/ UNCHANGED searchVars
  <2>1. cut' = cut
    BY <1>6 DEF Discard, Prune, EvalNext, EvalStart, EvalRun, EvalSend, EvalEnd,
                Timeout, Exhausted, searchVars, storeVars
  <2>. QED
    BY <1>4, <2>1
<1>. QED
  BY <1>2, <1>3, <1>4, <1>5, <1>6 DEF Next, MonitorNext

(***************************************************************************)
(* No step raises the cut of the store, for any stop_bound and             *)
(* distance_to_best.                                                       *)
(***************************************************************************)
THEOREM CutFalls == SearchSpec => CutNeverRises
  BY CutStep, SearchInv, PTL DEF SearchSpec, CutNeverRises

-----------------------------------------------------------------------------
(* Where every leaf is.                                                     *)

\* The store handed l out and nobody has timed it yet.
Pending(l) ==
    \/ \E w \in Worker : wpc[w] = "add" /\ hand[w] = l
    \/ \E i \in 1 .. Len(evalq) : evalq[i] = l
    \/ epc = "run" /\ job.leaf = l

(***************************************************************************)
(* A leaf is open, above the cut, on its way to the evaluation thread, or  *)
(* no better than the best time; a worker leaves only when nothing is      *)
(* open, and the evaluation thread only after every worker.                *)
(***************************************************************************)
LeafInv ==
    /\ Accounted
    /\ \A l \in given : Pending(l) \/ (Usable(l) => best <= Time[l])
    /\ \A w \in Worker : wpc[w] = "done" => open = {}
    /\ epc = "ended" => evalq = <<>> /\ \A w \in Worker : wpc[w] = "done"

LEMMA LeafInit == Init => LeafInv
  BY DEF Init, StoreInit, LeafInv, Accounted

LEMMA LeafStep ==
    TypeInv /\ MonitorInv /\ LeafInv /\ [Next]_searchVars => LeafInv'
<1>. SUFFICES ASSUME TypeInv, MonitorInv, LeafInv, [Next]_searchVars PROVE LeafInv'
  OBVIOUS
<1>t. /\ cut \in 0 .. Inf /\ Inf \in Nat /\ Reach \in [Leaf -> 0 .. Inf]
      /\ Time \in [Leaf -> 0 .. Inf] /\ best \in 0 .. Inf
      /\ open \subseteq Leaf /\ given \subseteq Leaf /\ evalq \in Seq(Leaf)
      /\ wpc \in [Worker -> WorkerPlace] /\ hand \in [Worker -> Leaf \cup {NoLeaf}]
  BY SearchAssumption DEF TypeInv, TypeOK, StoreTypeOK
<1>s. ASSUME UNCHANGED <<open, given>> PROVE Accounted'
  <2>1. cut' <= cut
    BY CutStep
  <2>2. cut' \in 0 .. Inf
    BY TypeStep DEF TypeInv, TypeOK, StoreTypeOK
  <2>. QED
    BY <1>s, <1>t, <2>1, <2>2 DEF LeafInv, Accounted
<1>1. ASSUME NEW w \in Worker, Explore(w) PROVE LeafInv'
  <2>1. PICK l \in open : Give(l) /\ hand' = [hand EXCEPT ![w] = l]
    BY <1>1 DEF Explore
  <2>2. /\ wpc[w] = "explore" /\ wpc' = [wpc EXCEPT ![w] = "add"]
        /\ UNCHANGED <<epc, job, best, evalq>>
    BY <1>1 DEF Explore, Goto, evalVars
  <2>3. Accounted'
    BY <2>1 DEF Give, LeafInv, Accounted
  <2>4. ASSUME NEW k \in given' PROVE Pending(k)' \/ (Usable(k) => best' <= Time[k])
    <3>1. CASE k = l
      BY <3>1, <2>1, <2>2, <1>t DEF Pending
    <3>2. CASE k # l
      BY <3>2, <2>1, <2>2, <2>4, <1>t DEF Pending, Give, LeafInv
    <3>. QED
      BY <3>1, <3>2
  <2>5. \A v \in Worker : wpc'[v] = "done" => open' = {}
    BY <2>1, <2>2, <1>t DEF LeafInv, Give
  <2>6. epc' # "ended"
    BY <2>2 DEF LeafInv
  <2>. QED
    BY <2>3, <2>4, <2>5, <2>6 DEF LeafInv, Usable
<1>2. ASSUME NEW w \in Worker, Exit(w) PROVE LeafInv'
  <2>1. /\ wpc[w] = "explore" /\ wpc' = [wpc EXCEPT ![w] = "done"] /\ open = {}
        /\ UNCHANGED <<open, given, hand, epc, job, best, evalq>>
    BY <1>2 DEF Exit, Refuse, Goto, evalVars
  <2>2. \A l : Pending(l) => Pending(l)'
    BY <2>1, <1>t DEF Pending
  <2>. QED
    BY <2>1, <2>2, <1>s, <1>t DEF LeafInv, Usable
<1>3. ASSUME NEW w \in Worker, AddKernel(w) PROVE LeafInv'
  <2>1. /\ wpc[w] = "add" /\ wpc' = [wpc EXCEPT ![w] = IF has_restart THEN "check" ELSE "explore"]
        /\ evalq' = Append(evalq, hand[w]) /\ hand' = [hand EXCEPT ![w] = NoLeaf]
        /\ UNCHANGED <<open, given, epc, job, best>>
    BY <1>3 DEF AddKernel, Goto, evalVars, storeVars
  <2>2. \A i \in 1 .. Len(evalq) : evalq'[i] = evalq[i] /\ i \in 1 .. Len(evalq')
    BY <2>1, <1>t
  <2>3. evalq'[Len(evalq) + 1] = hand[w] /\ Len(evalq) + 1 \in 1 .. Len(evalq')
    BY <2>1, <1>t
  <2>4. \A l : Pending(l) => Pending(l)'
    BY <2>1, <2>2, <2>3, <1>t DEF Pending
  <2>5. epc # "ended"
    BY <2>1 DEF LeafInv
  <2>. QED
    BY <2>1, <2>4, <2>5, <1>s, <1>t DEF LeafInv, Usable
<1>4. ASSUME NEW w \in Worker,
             CheckRestart(w) \/ Arrive(w) \/ Elect(w) \/ Restart(w) \/ Leave(w)
      PROVE  LeafInv'
  <2>1. /\ wpc[w] \in {"check", "arrive", "elect", "restart", "leave"}
        /\ UNCHANGED <<open, given, hand, epc, job, best, evalq>>
        /\ \A v \in Worker : /\ wpc'[v] = "done" => wpc[v] = "done"
                             /\ wpc[v] = "add" => wpc'[v] = "add"
    BY <1>4, <1>t DEF CheckRestart, Arrive, Elect, Restart, Leave, Wait, Goto,
                      evalVars, storeVars
  <2>2. \A l : Pending(l) => Pending(l)'
    BY <2>1 DEF Pending
  <2>3. epc # "ended"
    BY <2>1 DEF LeafInv
  <2>. QED
    BY <2>1, <2>2, <2>3, <1>s DEF LeafInv, Usable
<1>5. CASE Discard
  <2>1. PICK l \in open : Prune(cut, {l})
    BY <1>5 DEF Discard
  <2>2. UNCHANGED <<given, wpc, hand, epc, job, best, evalq>>
    BY <1>5 DEF Discard, Prune, workerVars, evalVars
  <2>3. Accounted'
    BY <2>1 DEF Prune, LeafInv, Accounted
  <2>. QED
    BY <2>1, <2>2, <2>3 DEF Prune, LeafInv, Usable, Pending
<1>6. CASE EvalStart
  <2>1. /\ epc = "idle" /\ evalq # <<>> /\ evalq' = Tail(evalq) /\ epc' = "run"
        /\ job'.leaf = Head(evalq) /\ UNCHANGED <<open, given, wpc, hand, best>>
    BY <1>6 DEF EvalStart, workerVars, storeVars
  <2>2. \A i \in 1 .. Len(evalq) :
          \/ evalq[i] = Head(evalq)
          \/ i - 1 \in 1 .. Len(evalq') /\ evalq'[i - 1] = evalq[i]
    BY <2>1, <1>t
  <2>3. \A l : Pending(l) => Pending(l)'
    BY <2>1, <2>2 DEF Pending
  <2>. QED
    BY <2>1, <2>3, <1>s DEF LeafInv, Usable
<1>7. CASE EvalRun
  <2>. DEFINE l == job.leaf
              t == Measured(l)
              e == IF Rejected(l, t) THEN Inf ELSE t
  <2>1. /\ l \in Leaf /\ epc = "run" /\ epc' = "send" /\ best' = Updated(t, e)
        /\ UNCHANGED <<open, given, wpc, hand, evalq>>
    BY <1>7 DEF EvalRun, TypeInv, HoldsLeaf, workerVars, storeVars
  <2>2. /\ Bound[l] \in 0 .. Inf /\ Time[l] \in 0 .. Inf /\ Reach[l] \in 0 .. Inf
        /\ Bound[l] <= Reach[l] /\ Reach[l] <= Time[l]
    BY <2>1, SearchAssumption, BoundsAreLower
  <2>3. e \in 0 .. Inf /\ (Usable(l) => e = Time[l] \/ best <= Time[l])
    BY <2>2, <1>t DEF Measured, Rejected, Usable
  <2>. HIDE DEF e, t
  <2>4. best' \in 0 .. Inf /\ best' <= best /\ best' <= e
    BY <2>1, <2>3, <1>t DEF Updated
  <2>5. \A k \in given : Pending(k) => Pending(k)' \/ k = l
    BY <2>1 DEF Pending
  <2>6. ASSUME NEW k \in given' PROVE Pending(k)' \/ (Usable(k) => best' <= Time[k])
    <3>1. CASE k = l
      BY <3>1, <2>2, <2>3, <2>4, <1>t
    <3>2. CASE k # l
      <4>1. k \in given /\ Time[k] \in 0 .. Inf
        BY <2>1, <2>6, <1>t
      <4>. QED
        BY <3>2, <4>1, <2>4, <2>5, <1>t DEF LeafInv
    <3>. QED
      BY <3>1, <3>2
  <2>. QED
    BY <2>1, <2>6, <1>s DEF LeafInv, Usable
<1>8. CASE EvalSend
  <2>1. epc' = "idle" /\ epc = "send" /\ UNCHANGED <<open, given, wpc, hand, evalq, job, best>>
    BY <1>8 DEF EvalSend, workerVars, storeVars
  <2>. QED
    BY <2>1, <1>s DEF LeafInv, Usable, Pending
<1>9. CASE EvalEnd
  <2>1. /\ epc' = "ended" /\ epc = "idle" /\ UNCHANGED <<open, given, wpc, hand, evalq, job, best>>
        /\ evalq = <<>> /\ \A w \in Worker : wpc[w] = "done"
    BY <1>9 DEF EvalEnd, Drained, SendersDropped, workerVars, storeVars
  <2>. QED
    BY <2>1, <1>s DEF LeafInv, Usable, Pending
<1>10. ASSUME UNCHANGED <<open, given, wpc, hand, evalq, epc, job, best>> PROVE LeafInv'
  BY <1>10, <1>s DEF LeafInv, Usable, Pending
<1>11. CASE MonitorNext \/ Timeout
  BY <1>10, <1>11 DEF MonitorNext, Handle, NewBest, UpdateCut, StopExploration,
     Exhausted, Timeout, workerVars, evalVars, storeVars
<1>12. CASE UNCHANGED searchVars
  BY <1>10, <1>12 DEF searchVars, workerVars, evalVars, storeVars
<1>. QED
  BY <1>1, <1>2, <1>3, <1>4, <1>5, <1>6, <1>7, <1>8, <1>9, <1>11, <1>12
     DEF Next, WorkerNext, EvalNext

(***************************************************************************)
(* Branch and bound is exact for every search tree, every timing and every *)
(* number of workers: a search that ran out of candidates holds one that   *)
(* no usable candidate beats by more than distance_to_best.                *)
(***************************************************************************)
THEOREM SearchOptimal == SearchSpec => []Optimal
<1>1. TypeInv /\ MonitorInv /\ LeafInv => Optimal
  <2>. SUFFICES ASSUME TypeInv, MonitorInv, LeafInv, mpc = "exhausted",
                       NEW l \in Leaf, Usable(l)
                PROVE  NewCut(status.eval) <= Time[l]
    BY DEF Optimal
  <2>1. open = {} /\ evalq = <<>> /\ \A w \in Worker : wpc[w] = "done"
    BY SearchAssumption DEF MonitorInv, LeafInv
  <2>2. ~Pending(l)
    BY <2>1 DEF Pending, MonitorInv
  <2>3. /\ Time[l] \in 0 .. Inf /\ Reach[l] \in 0 .. Inf /\ Reach[l] <= Time[l]
        /\ status.eval \in 0 .. Inf /\ Inf \in Nat
    BY SearchAssumption, BoundsAreLower, RecordFields DEF TypeInv
  <2>4. NewCut(status.eval) \in 0 .. Inf /\ NewCut(status.eval) <= status.eval
    BY <2>3, NewCutMonotone
  <2>5. CASE l \in given
    BY <2>2, <2>3, <2>4, <2>5 DEF LeafInv, MonitorInv
  <2>6. CASE l \notin given
    BY <2>1, <2>3, <2>4, <2>6 DEF LeafInv, MonitorInv, Accounted
  <2>. QED
    BY <2>5, <2>6
<1>. QED
  BY <1>1, SearchInv, LeafInit, LeafStep, PTL DEF SearchSpec
=============================================================================
