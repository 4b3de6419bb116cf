------------------------- MODULE ParallelListProofs -------------------------
(***************************************************************************)
(* Proofs about ParallelCandidateList for any number of workers and any    *)
(* search tree.  The inductive invariant has two layers: ControlInv about  *)
(* the counter and the condition variable, which only needs the workers'   *)
(* positions, and DataInv about where each candidate is.                   *)
(***************************************************************************)
EXTENDS ParallelListRefinement, FiniteSetTheorems, TLAPS

ActiveSet == {w \in Worker : Active(w)}

ControlInv == TypeOK /\ CountIsActive /\ NoEarlyExit

DataInv == SingleOwner /\ NothingLost /\ QueueBelowCut /\ ParentFirst

(***************************************************************************)
(* A set of workers is finite and no larger than num_worker.               *)
(***************************************************************************)
LEMMA WorkerSubset ==
    ASSUME NEW S \in SUBSET Worker
    PROVE  IsFiniteSet(S) /\ Cardinality(S) \in 0 .. Cardinality(Worker)
<1>1. IsFiniteSet(S) /\ Cardinality(S) <= Cardinality(Worker)
  BY WorkerAssumption, FS_Subset
<1>2. Cardinality(S) \in Nat /\ Cardinality(Worker) \in Nat
  BY <1>1, WorkerAssumption, FS_CardinalityType
<1>. QED
  BY <1>1, <1>2

(***************************************************************************)
(* The initial state satisfies the control invariant.                      *)
(***************************************************************************)
LEMMA InitControl == Init => ControlInv
<1>. SUFFICES ASSUME Init PROVE ControlInv
  OBVIOUS
<1>1. ActiveSet = Worker
  BY DEF ActiveSet, Active, Init
<1>2. Cardinality(Worker) \in 0 .. Cardinality(Worker)
  BY WorkerSubset
<1>3. TypeOK
  BY <1>2, CandAssumption, BoundAssumption DEF TypeOK, Init, Where
<1>4. CountIsActive
  BY <1>1 DEF CountIsActive, ActiveSet, Init
<1>5. NoEarlyExit
  BY DEF NoEarlyExit, Init
<1>. QED
  BY <1>3, <1>4, <1>5 DEF ControlInv

(***************************************************************************)
(* One turn of the loop of pop keeps the control invariant, both when pop  *)
(* is called (d = 0, the worker is counted) and when Condvar::wait returns *)
(* (d = 1, the worker counts itself again).                                *)
(***************************************************************************)
LEMMA PopLoopControl ==
    ASSUME ControlInv, NEW w \in Worker, NEW n \in Nat,
           \/ pc[w] = "pop" /\ n = count
           \/ pc[w] = "woken" /\ n = count + 1,
           PopLoop(w, n)
    PROVE  ControlInv'
<1>. DEFINE others == ActiveSet \ {w}
<1>1. /\ IsFiniteSet(ActiveSet) /\ IsFiniteSet(others)
      /\ Cardinality(ActiveSet) \in Nat /\ Cardinality(others) \in Nat
  BY WorkerSubset DEF ActiveSet
<1>2. count = Cardinality(ActiveSet) /\ count \in Nat
  BY <1>1 DEF ControlInv, CountIsActive, ActiveSet
<1>3. n = Cardinality(others) + 1
  <2>1. CASE pc[w] = "pop" /\ n = count
    <3>1. w \in ActiveSet
      BY <2>1 DEF ActiveSet, Active
    <3>. QED
      BY <3>1, <2>1, <1>1, <1>2, FS_RemoveElement
  <2>2. CASE pc[w] = "woken" /\ n = count + 1
    <3>1. w \notin ActiveSet /\ others = ActiveSet
      BY <2>2 DEF ActiveSet, Active
    <3>. QED
      BY <3>1, <2>2, <1>1, <1>2
  <2>. QED
    BY <2>1, <2>2
<1>4. Cardinality(others \cup {w}) = Cardinality(others) + 1
  BY <1>1, FS_AddElement
<1>5. pc \in [Worker -> Where] /\ hold \in [Worker -> Cand \cup {NoCand}]
  BY DEF ControlInv, TypeOK
<1>6. CASE PopMin(w, n)
  <2>1. PICK c \in queue : /\ queue' = queue \ {c}
                           /\ hold' = [hold EXCEPT ![w] = c]
    BY <1>6 DEF PopMin
  <2>2. pc' = [pc EXCEPT ![w] = "decide"] /\ count' = n
    BY <1>6 DEF PopMin
  <2>3. ActiveSet' = others \cup {w}
    BY <1>5, <2>2 DEF ActiveSet, Active, Where
  <2>4. CountIsActive'
    BY <1>3, <1>4, <2>2, <2>3 DEF CountIsActive, ActiveSet
  <2>5. count' \in 0 .. Cardinality(Worker)
    BY <2>4, WorkerSubset DEF CountIsActive
  <2>6. TypeOK'
    BY <1>5, <2>1, <2>2, <2>5, CandAssumption DEF PopLoop, histVars, ControlInv, TypeOK, Where
  <2>7. NoEarlyExit'
    BY <1>5, <2>1, <2>2 DEF ControlInv, NoEarlyExit, Where
  <2>. QED
    BY <2>4, <2>6, <2>7 DEF ControlInv
<1>7. CASE PopLast(w, n)
  <2>1. others = {}
    <3>1. Cardinality(others) = 0
      BY <1>1, <1>3, <1>7 DEF PopLast
    <3>. QED
      BY <1>1, <3>1, FS_EmptySet
  <2>2. /\ pc' = [v \in Worker |-> IF v = w THEN "done"
                           ELSE IF pc[v] = "wait" THEN "woken" ELSE pc[v]]
        /\ count' = 0 /\ queue' = queue /\ hold' = hold /\ queue = {}
    BY <1>7 DEF PopLast, NotifyAll
  <2>3. \A v \in Worker : pc'[v] \in {"woken", "done"}
    BY <1>5, <2>1, <2>2 DEF ActiveSet, Active, Where
  <2>4. ActiveSet' = {}
    BY <2>3 DEF ActiveSet, Active
  <2>5. CountIsActive'
    BY <2>2, <2>4, FS_EmptySet DEF CountIsActive, ActiveSet
  <2>6. count' \in 0 .. Cardinality(Worker)
    BY <2>5, WorkerSubset DEF CountIsActive
  <2>7. \A v \in Worker : hold[v] = NoCand
    <3>1. pc[w] # "decide"
      OBVIOUS
    <3>. QED
      BY <1>5, <2>1, <3>1 DEF ControlInv, TypeOK, ActiveSet, Active, Where
  <2>8. TypeOK'
    BY <1>5, <2>2, <2>3, <2>6, <2>7 DEF PopLoop, histVars, ControlInv, TypeOK, Where
  <2>9. NoEarlyExit'
    BY <2>2, <2>3 DEF NoEarlyExit
  <2>. QED
    BY <2>5, <2>8, <2>9 DEF ControlInv
<1>8. CASE PopWait(w, n)
  <2>1. /\ pc' = [pc EXCEPT ![w] = "wait"]
        /\ count' = n - 1 /\ queue' = queue /\ hold' = hold /\ n # 1
    BY <1>8 DEF PopWait
  <2>2. ActiveSet' = others
    BY <1>5, <2>1 DEF ActiveSet, Active, Where
  <2>3. CountIsActive'
    BY <1>1, <1>3, <2>1, <2>2 DEF CountIsActive, ActiveSet
  <2>4. count' \in 0 .. Cardinality(Worker)
    BY <2>3, WorkerSubset DEF CountIsActive
  <2>5. TypeOK'
    BY <1>5, <2>1, <2>4 DEF PopLoop, histVars, ControlInv, TypeOK, Where
  <2>6. PICK v \in others : TRUE
    <3>1. Cardinality(others) # 0
      BY <1>1, <1>3, <2>1
    <3>. QED
      BY <1>1, <3>1, FS_EmptySet
  <2>7. pc[v] \notin {"woken", "done"} /\ v # w /\ v \in Worker
    BY <2>6 DEF ActiveSet, Active
  <2>8. NoEarlyExit'
    BY <1>5, <2>1, <2>7 DEF ControlInv, NoEarlyExit, Where
  <2>. QED
    BY <2>3, <2>5, <2>8 DEF ControlInv
<1>. QED
  BY <1>6, <1>7, <1>8 DEF PopLoop

(***************************************************************************)
(* Every step of the store preserves the control invariant.                *)
(***************************************************************************)
LEMMA NextControl == ControlInv /\ [Next]_vars => ControlInv'
<1>. SUFFICES ASSUME ControlInv, [Next]_vars PROVE ControlInv'
  OBVIOUS
<1>. USE DEF ControlInv
<1>1. count \in Nat
  BY WorkerSubset DEF CountIsActive
<1>2. ASSUME UNCHANGED <<queue, cut, count, pc, hold, expanded, dropped, returned>>
      PROVE  ControlInv'
  BY <1>2 DEF TypeOK, CountIsActive, NoEarlyExit, Active
<1>3. ASSUME NEW w \in Worker, Pop(w) PROVE ControlInv'
  BY <1>1, <1>3, PopLoopControl DEF Pop
<1>4. ASSUME NEW w \in Worker, Rewake(w) PROVE ControlInv'
  BY <1>1, <1>4, PopLoopControl DEF Rewake
<1>5. ASSUME ActiveSet' = ActiveSet, count' = count PROVE CountIsActive'
  BY <1>5 DEF CountIsActive, ActiveSet
<1>6. ASSUME NEW w \in Worker, SpuriousWake(w) PROVE ControlInv'
  <2>1. ActiveSet' = ActiveSet
    BY <1>6 DEF SpuriousWake, TypeOK, ActiveSet, Active
  <2>2. TypeOK' /\ NoEarlyExit'
    BY <1>6 DEF SpuriousWake, histVars, TypeOK, NoEarlyExit, Where
  <2>. QED
    BY <1>5, <1>6, <2>1, <2>2 DEF SpuriousWake
<1>7. ASSUME NEW w \in Worker, Expand(w) PROVE ControlInv'
  <2>1. ActiveSet' = ActiveSet
    BY <1>7 DEF Expand, NotifyAll, TypeOK, ActiveSet, Active
  <2>2. TypeOK'
    BY <1>7, CandAssumption DEF Expand, InsertMany, NotifyAll, TypeOK, Where
  <2>3. NoEarlyExit'
    BY <1>7 DEF Expand, NotifyAll, TypeOK, NoEarlyExit, Where
  <2>. QED
    BY <1>5, <1>7, <2>1, <2>2, <2>3 DEF Expand
<1>8. ASSUME NEW w \in Worker, Return(w) PROVE ControlInv'
  <2>1. ActiveSet' = ActiveSet
    BY <1>8 DEF Return, TypeOK, ActiveSet, Active
  <2>2. TypeOK' /\ NoEarlyExit'
    BY <1>8, CandAssumption DEF Return, TypeOK, NoEarlyExit, Where
  <2>. QED
    BY <1>5, <1>8, <2>1, <2>2 DEF Return
<1>9. ASSUME NEW w \in Worker, Again(w) PROVE ControlInv'
  <2>1. ActiveSet' = ActiveSet
    BY <1>9 DEF Again, TypeOK, ActiveSet, Active
  <2>2. TypeOK' /\ NoEarlyExit'
    BY <1>9 DEF Again, histVars, TypeOK, NoEarlyExit, Where
  <2>. QED
    BY <1>5, <1>9, <2>1, <2>2 DEF Again
<1>10. ASSUME UpdateCut PROVE ControlInv'
  <2>1. PICK new \in 0 .. Inf : SetCut(new)
    BY <1>10 DEF UpdateCut
  <2>2. TypeOK' /\ NoEarlyExit'
    BY <2>1 DEF SetCut, TypeOK, NoEarlyExit
  <2>. QED
    BY <2>1, <2>2 DEF SetCut, CountIsActive, Active
<1>. QED
  BY <1>2, <1>3, <1>4, <1>6, <1>7, <1>8, <1>9, <1>10 DEF Next, WorkerStep, vars

(***************************************************************************)
(* ParallelCandidateList keeps its types; in particular the usize next to  *)
(* the queue never underflows.                                             *)
(***************************************************************************)
THEOREM ListTypeCorrect == Spec => []TypeOK
<1>1. Spec => []ControlInv
  BY InitControl, NextControl, PTL DEF Spec
<1>. QED
  BY <1>1, PTL DEF ControlInv

(***************************************************************************)
(* The counter pop tests is the number of workers that can still insert.   *)
(***************************************************************************)
THEOREM CounterCorrect == Spec => []CountIsActive
<1>1. Spec => []ControlInv
  BY InitControl, NextControl, PTL DEF Spec
<1>. QED
  BY <1>1, PTL DEF ControlInv

(***************************************************************************)
(* A worker leaves explore only when the whole queue has been processed.   *)
(***************************************************************************)
THEOREM NoWorkerLeavesEarly == Spec => []NoEarlyExit
<1>1. Spec => []ControlInv
  BY InitControl, NextControl, PTL DEF Spec
<1>. QED
  BY <1>1, PTL DEF ControlInv

-----------------------------------------------------------------------------
(***************************************************************************)
(* The initial state satisfies the data invariant.                         *)
(***************************************************************************)
LEMMA InitData == Init => DataInv
<1>. SUFFICES ASSUME Init PROVE DataInv
  OBVIOUS
<1>1. Held = {}
  BY DEF Held, Init
<1>2. SingleOwner
  BY <1>1 DEF SingleOwner, Init
<1>3. NothingLost /\ ParentFirst
  BY <1>1 DEF NothingLost, ParentFirst, Seen, Init
<1>4. QueueBelowCut
  BY CandAssumption, BoundAssumption DEF QueueBelowCut, Init
<1>. QED
  BY <1>2, <1>3, <1>4 DEF DataInv

(***************************************************************************)
(* When no worker's hold changes, Held does not change.                    *)
(***************************************************************************)
LEMMA HeldUnchanged ==
    ASSUME TypeOK, TypeOK', hold' = hold
    PROVE  Held' = Held
<1>1. \A w \in Worker : pc'[w] = "decide" <=> pc[w] = "decide"
  BY DEF TypeOK
<1>. QED
  BY <1>1 DEF Held

(***************************************************************************)
(* One turn of the loop of pop keeps the data invariant.                   *)
(***************************************************************************)
LEMMA PopLoopData ==
    ASSUME TypeOK, TypeOK', DataInv, NEW w \in Worker, NEW n \in Nat,
           pc[w] # "decide", PopLoop(w, n)
    PROVE  DataInv'
<1>1. /\ cut' = cut /\ expanded' = expanded
      /\ dropped' = dropped /\ returned' = returned
  BY DEF PopLoop, histVars
<1>2. CASE PopMin(w, n)
  <2>1. PICK c \in queue : /\ queue' = queue \ {c}
                           /\ hold' = [hold EXCEPT ![w] = c]
    BY <1>2 DEF PopMin
  <2>2. pc' = [pc EXCEPT ![w] = "decide"]
    BY <1>2 DEF PopMin
  <2>3. Held' = Held \cup {c}
    BY <2>1, <2>2 DEF Held, TypeOK
  <2>4. c \notin Held
    BY DEF DataInv, SingleOwner
  <2>5. \A u, v \in Worker : pc'[u] = "decide" /\ hold'[u] = hold'[v] => u = v
    <3>. SUFFICES ASSUME NEW u \in Worker, NEW v \in Worker,
                         pc'[u] = "decide", hold'[u] = hold'[v], u # v
                  PROVE  FALSE
      OBVIOUS
    <3>0. c \in Cand /\ NoCand \notin Cand
      BY CandAssumption DEF TypeOK
    <3>1. CASE u = w
      <4>1. hold[v] = c
        BY <2>1, <3>1 DEF TypeOK
      <4>2. c \in Held
        BY <3>0, <4>1 DEF TypeOK, Held
      <4>. QED
        BY <2>4, <4>2
    <3>2. CASE v = w
      <4>1. hold[u] = c /\ pc[u] = "decide"
        BY <2>1, <2>2, <3>2 DEF TypeOK
      <4>. QED
        BY <2>4, <4>1 DEF Held
    <3>3. CASE u # w /\ v # w
      BY <2>1, <2>2, <3>3 DEF TypeOK, DataInv, SingleOwner
    <3>. QED
      BY <3>1, <3>2, <3>3
  <2>6. SingleOwner'
    BY <1>1, <2>1, <2>3, <2>5 DEF DataInv, SingleOwner
  <2>7. Seen' = Seen
    BY <1>1, <2>1, <2>3 DEF Seen
  <2>. QED
    BY <1>1, <2>1, <2>6, <2>7 DEF DataInv, NothingLost, QueueBelowCut, ParentFirst
<1>3. CASE PopLast(w, n) \/ PopWait(w, n)
  <2>1. queue' = queue /\ hold' = hold
    BY <1>3 DEF PopLast, PopWait
  <2>2. Held' = Held
    BY <2>1, HeldUnchanged
  <2>3. SingleOwner'
    BY <1>1, <2>1, <2>2 DEF DataInv, SingleOwner, TypeOK
  <2>4. Seen' = Seen
    BY <1>1, <2>1, <2>2 DEF Seen
  <2>. QED
    BY <1>1, <2>1, <2>3, <2>4 DEF DataInv, NothingLost, QueueBelowCut, ParentFirst
<1>. QED
  BY <1>2, <1>3 DEF PopLoop

(***************************************************************************)
(* Splitting a candidate keeps the data invariant: its children are new,   *)
(* since a candidate has one parent and this parent was not split before.  *)
(***************************************************************************)
LEMMA ExpandData ==
    ASSUME TypeOK, TypeOK', DataInv, NEW w \in Worker, Expand(w)
    PROVE  DataInv'
<1>. DEFINE h == hold[w]  kids == Choices[h]
<1>1. h \in Held /\ h \in Cand /\ kids \subseteq Cand
  BY CandAssumption DEF Expand, Held, TypeOK
<1>2. /\ queue' = queue \cup {c \in kids : Bound[c] < cut}
      /\ dropped' = dropped \cup {c \in kids : Bound[c] >= cut}
      /\ expanded' = expanded \cup {h}
      /\ cut' = cut /\ returned' = returned
      /\ hold' = [hold EXCEPT ![w] = NoCand]
  BY DEF Expand, InsertMany
<1>3. \A v \in Worker : pc'[v] = "decide" <=> v # w /\ pc[v] = "decide"
  BY DEF Expand, NotifyAll, TypeOK
<1>4. Held' = Held \ {h}
  <2>1. \A v \in Worker : v # w /\ pc[v] = "decide" => hold[v] # h /\ hold'[v] = hold[v]
    BY <1>2 DEF DataInv, SingleOwner, TypeOK
  <2>. QED
    BY <1>3, <2>1 DEF Held, TypeOK
<1>5. h \notin expanded
  BY <1>1 DEF DataInv, SingleOwner
<1>6. kids \cap Seen = {}
  <2>. SUFFICES ASSUME NEW d \in kids, d \in Seen PROVE FALSE
    OBVIOUS
  <2>1. d \notin Root
    BY <1>1, CandAssumption
  <2>2. PICK p \in expanded : d \in Choices[p]
    BY <2>1 DEF DataInv, ParentFirst
  <2>3. p \in Cand
    BY DEF TypeOK
  <2>4. p = h
    BY <1>1, <2>2, <2>3, CandAssumption
  <2>. QED
    BY <1>5, <2>4
<1>7. SingleOwner'
  <2>1. \A u, v \in Worker : pc'[u] = "decide" /\ hold'[u] = hold'[v] => u = v
    BY <1>2, <1>3 DEF DataInv, SingleOwner, TypeOK
  <2>2. {c \in kids : Bound[c] < cut} \cap {c \in kids : Bound[c] >= cut} = {}
    BY <1>1, BoundAssumption DEF TypeOK
  <2>. QED
    BY <1>1, <1>2, <1>4, <1>6, <2>1, <2>2 DEF DataInv, SingleOwner, Seen
<1>8. Seen' = Seen \cup kids
  <2>1. kids = {c \in kids : Bound[c] < cut} \cup {c \in kids : Bound[c] >= cut}
    BY <1>1, BoundAssumption DEF TypeOK
  <2>. QED
    BY <1>1, <1>2, <1>4, <2>1 DEF Seen
<1>9. NothingLost' /\ QueueBelowCut'
  BY <1>2, <1>8 DEF DataInv, NothingLost, QueueBelowCut
<1>10. ParentFirst'
  BY <1>2, <1>8 DEF DataInv, ParentFirst
<1>. QED
  BY <1>7, <1>9, <1>10 DEF DataInv

(***************************************************************************)
(* Every step of the store preserves the data invariant.                   *)
(***************************************************************************)
LEMMA NextData == TypeOK /\ TypeOK' /\ DataInv /\ [Next]_vars => DataInv'
<1>. SUFFICES ASSUME TypeOK, TypeOK', DataInv, [Next]_vars PROVE DataInv'
  OBVIOUS
<1>1. count \in Nat
  BY WorkerSubset, WorkerAssumption, FS_CardinalityType DEF TypeOK
<1>2. ASSUME UNCHANGED <<queue, cut, hold, expanded, dropped, returned>>
      PROVE  DataInv'
  <2>1. Held' = Held
    BY <1>2, HeldUnchanged
  <2>2. SingleOwner'
    BY <1>2, <2>1 DEF DataInv, SingleOwner, TypeOK
  <2>. QED
    BY <1>2, <2>1, <2>2 DEF DataInv, NothingLost, QueueBelowCut, ParentFirst, Seen
<1>3. ASSUME NEW w \in Worker, Pop(w) \/ Rewake(w) PROVE DataInv'
  BY <1>1, <1>3, PopLoopData DEF Pop, Rewake
<1>4. ASSUME NEW w \in Worker, Expand(w) PROVE DataInv'
  BY <1>4, ExpandData
<1>5. ASSUME NEW w \in Worker, Return(w) PROVE DataInv'
  <2>. DEFINE h == hold[w]
  <2>1. h \in Held /\ h \in Cand
    BY <1>5, CandAssumption DEF Return, Held, TypeOK
  <2>2. /\ returned' = returned \cup {h} /\ hold' = [hold EXCEPT ![w] = NoCand]
        /\ pc' = [pc EXCEPT ![w] = "eval"]
        /\ UNCHANGED <<queue, cut, expanded, dropped>>
    BY <1>5 DEF Return
  <2>3. \A v \in Worker : pc'[v] = "decide" <=> v # w /\ pc[v] = "decide"
    BY <2>2 DEF TypeOK
  <2>4. \A v \in Worker : v # w /\ pc[v] = "decide" => hold[v] # h /\ hold'[v] = hold[v]
    BY <1>5, <2>2 DEF Return, DataInv, SingleOwner, TypeOK
  <2>5. Held' = Held \ {h}
    BY <2>3, <2>4 DEF Held, TypeOK
  <2>6. \A u, v \in Worker : pc'[u] = "decide" /\ hold'[u] = hold'[v] => u = v
    BY <2>2, <2>3 DEF DataInv, SingleOwner, TypeOK
  <2>7. SingleOwner'
    BY <2>1, <2>2, <2>5, <2>6 DEF DataInv, SingleOwner
  <2>8. Seen' = Seen
    BY <2>1, <2>2, <2>5 DEF Seen
  <2>. QED
    BY <2>2, <2>7, <2>8 DEF DataInv, NothingLost, QueueBelowCut, ParentFirst
<1>6. ASSUME UpdateCut PROVE DataInv'
  <2>1. PICK new \in 0 .. Inf : new < cut /\ SetCut(new)
    BY <1>6 DEF UpdateCut
  <2>2. Held' = Held
    BY <2>1, HeldUnchanged DEF SetCut
  <2>3. /\ queue = {c \in queue : Bound[c] < new} \cup {c \in queue : Bound[c] >= new}
        /\ {c \in queue : Bound[c] < new} \cap {c \in queue : Bound[c] >= new} = {}
    BY BoundAssumption DEF TypeOK
  <2>4. SingleOwner'
    BY <2>1, <2>2, <2>3 DEF SetCut, DataInv, SingleOwner, TypeOK
  <2>5. Seen' = Seen
    BY <2>1, <2>2, <2>3 DEF SetCut, Seen
  <2>6. \A c \in dropped' : Bound[c] >= new
    BY <2>1, BoundAssumption DEF SetCut, DataInv, NothingLost, TypeOK
  <2>. QED
    BY <2>1, <2>4, <2>5, <2>6 DEF SetCut, DataInv, NothingLost, QueueBelowCut, ParentFirst
<1>. QED
  BY <1>2, <1>3, <1>4, <1>5, <1>6 DEF Next, WorkerStep, SpuriousWake, Again, vars, histVars

(***************************************************************************)
(* No candidate is ever owned twice and none is lost: every candidate      *)
(* inserted is queued, held, split, returned or was cut.                   *)
(***************************************************************************)
THEOREM NoCandidateLostOrDuplicated == Spec => [](SingleOwner /\ NothingLost)
<1>1. Spec => []ControlInv
  BY InitControl, NextControl, PTL DEF Spec
<1>2. ControlInv => TypeOK
  BY DEF ControlInv
<1>3. Spec => []DataInv
  BY <1>1, <1>2, InitData, NextData, PTL DEF Spec
<1>4. DataInv => SingleOwner /\ NothingLost
  BY DEF DataInv
<1>. QED
  BY <1>3, <1>4, PTL

-----------------------------------------------------------------------------
Keep == Frontier' = Frontier /\ returned' = returned /\ cut' = cut

Split(h) ==
    /\ h \in Frontier \ Leaf
    /\ Frontier' = (Frontier \ {h}) \cup {c \in Choices[h] : Bound[c] < cut}
    /\ returned' = returned /\ cut' = cut

Deliver(h) ==
    /\ h \in Frontier \cap Leaf
    /\ Frontier' = Frontier \ {h}
    /\ returned' = returned \cup {h} /\ cut' = cut

Lower(new) ==
    /\ new \in 0 .. Inf /\ new <= cut /\ cut' = new
    /\ Frontier' \subseteq Frontier
    /\ \A c \in Frontier \ Frontier' : Bound[c] >= new
    /\ returned' = returned

(***************************************************************************)
(* What a step does to the frontier.  Only the last worker to find the     *)
(* queue empty changes who has left, and then the frontier is empty.       *)
(***************************************************************************)
LEMMA FrontierStep ==
    ASSUME ControlInv, ControlInv', DataInv, DataInv', [Next]_vars
    PROVE  \/ Keep /\ Left' = Left
           \/ Keep /\ Frontier = {} /\ \E w \in Worker : Left' = Left \cup {w}
           \/ Left' = Left /\ \E h \in Cand : Split(h) \/ Deliver(h)
           \/ Left' = Left /\ \E new \in 0 .. Inf : Lower(new)
<1>. USE DEF ControlInv
<1>1. ASSUME UNCHANGED vars PROVE Keep /\ Left' = Left
  BY <1>1 DEF vars, Keep, Frontier, Held, Left
<1>2. ASSUME NEW w \in Worker, NEW n, PopMin(w, n), UNCHANGED <<cut, histVars>>,
             pc[w] \in {"pop", "woken"}
      PROVE  Keep /\ Left' = Left
  <2>1. PICK c \in queue : queue' = queue \ {c} /\ hold' = [hold EXCEPT ![w] = c]
    BY <1>2 DEF PopMin
  <2>2. pc' = [pc EXCEPT ![w] = "decide"]
    BY <1>2 DEF PopMin
  <2>3. Held' = Held \cup {c}
    BY <1>2, <2>1, <2>2 DEF Held, TypeOK
  <2>4. Left' = Left
    BY <1>2, <2>2 DEF Left, TypeOK
  <2>. QED
    BY <1>2, <2>1, <2>3, <2>4 DEF Keep, Frontier, histVars
<1>3. ASSUME NEW w \in Worker, NEW n, PopWait(w, n), UNCHANGED <<cut, histVars>>,
             pc[w] \in {"pop", "woken"}
      PROVE  Keep /\ Left' = Left
  <2>1. Held' = Held
    BY <1>3, HeldUnchanged DEF PopWait
  <2>2. Left' = Left
    BY <1>3 DEF PopWait, Left, TypeOK
  <2>. QED
    BY <1>3, <2>1, <2>2 DEF PopWait, Keep, Frontier, histVars
<1>4. ASSUME NEW w \in Worker, NEW n, PopLast(w, n), UNCHANGED <<cut, histVars>>
      PROVE  Keep /\ Frontier = {} /\ Left' = Left \cup {w}
  <2>1. Held' = Held /\ queue' = queue
    BY <1>4, HeldUnchanged DEF PopLast
  <2>2. pc'[w] = "done"
    BY <1>4 DEF PopLast, NotifyAll
  <2>3. queue' = {} /\ Held' = {}
    BY <2>2 DEF NoEarlyExit, Held
  <2>4. Left' = Left \cup {w}
    BY <1>4 DEF PopLast, NotifyAll, Left, TypeOK
  <2>. QED
    BY <1>4, <2>1, <2>3, <2>4 DEF Keep, Frontier, histVars
<1>5. ASSUME NEW w \in Worker, SpuriousWake(w) \/ Again(w)
      PROVE  Keep /\ Left' = Left
  <2>1. Held' = Held
    BY <1>5, HeldUnchanged DEF SpuriousWake, Again
  <2>2. Left' = Left
    BY <1>5 DEF SpuriousWake, Again, Left, TypeOK
  <2>. QED
    BY <1>5, <2>1, <2>2 DEF SpuriousWake, Again, Keep, Frontier, histVars
<1>6. ASSUME NEW w \in Worker, Expand(w) \/ Return(w)
      PROVE  /\ hold[w] \in Held /\ hold[w] \in Cand
             /\ hold[w] \notin queue
             /\ Held' = Held \ {hold[w]} /\ Left' = Left
  <2>1. \A v \in Worker : pc'[v] = "decide" <=> v # w /\ pc[v] = "decide"
    BY <1>6 DEF Expand, Return, NotifyAll, TypeOK
  <2>2. \A v \in Worker : v # w /\ pc[v] = "decide" =>
                             hold[v] # hold[w] /\ hold'[v] = hold[v]
    BY <1>6 DEF Expand, Return, DataInv, SingleOwner, TypeOK
  <2>3. hold[w] \in Held /\ hold[w] \in Cand
    BY <1>6, CandAssumption DEF Expand, Return, Held, TypeOK
  <2>4. Held' = Held \ {hold[w]}
    BY <2>1, <2>2 DEF Held, TypeOK
  <2>5. Left' = Left
    BY <1>6 DEF Expand, Return, NotifyAll, Left, TypeOK
  <2>. QED
    BY <2>3, <2>4, <2>5 DEF DataInv, SingleOwner
<1>7. ASSUME NEW w \in Worker, Expand(w)
      PROVE  Split(hold[w]) /\ hold[w] \in Cand /\ Left' = Left
  <2>1. /\ queue' = queue \cup {c \in Choices[hold[w]] : Bound[c] < cut}
        /\ cut' = cut /\ returned' = returned /\ hold[w] \notin Leaf
        /\ expanded' = expanded \cup {hold[w]}
    BY <1>7 DEF Expand, InsertMany
  <2>2. hold[w] \notin queue'
    BY <2>1 DEF DataInv, SingleOwner
  <2>. QED
    BY <1>6, <1>7, <2>1, <2>2 DEF Split, Frontier
<1>8. ASSUME NEW w \in Worker, Return(w)
      PROVE  Deliver(hold[w]) /\ hold[w] \in Cand /\ Left' = Left
  BY <1>6, <1>8 DEF Return, Deliver, Frontier
<1>9. ASSUME UpdateCut
      PROVE  Left' = Left /\ \E new \in 0 .. Inf : Lower(new)
  <2>1. PICK new \in 0 .. Inf : new < cut /\ SetCut(new)
    BY <1>9 DEF UpdateCut
  <2>2. Held' = Held
    BY <2>1, HeldUnchanged DEF SetCut
  <2>3. \A c \in queue : c \notin queue' => Bound[c] >= new
    BY <2>1, BoundAssumption DEF SetCut, TypeOK
  <2>4. queue' \subseteq queue
    BY <2>1 DEF SetCut
  <2>. QED
    BY <2>1, <2>2, <2>3, <2>4 DEF SetCut, Left, Lower, Frontier, TypeOK
<1>. QED
  BY <1>1, <1>2, <1>3, <1>4, <1>5, <1>7, <1>8, <1>9
     DEF Next, WorkerStep, Pop, Rewake, PopLoop

(***************************************************************************)
(* The subtrees left to explore stay disjoint: splitting a candidate       *)
(* partitions its leaves among its children.                               *)
(***************************************************************************)
LEMMA NextFrontierDisjoint ==
    ASSUME FrontierDisjoint, Frontier \subseteq Cand,
           \/ Keep
           \/ \E h \in Cand : Split(h) \/ Deliver(h)
           \/ \E new \in 0 .. Inf : Lower(new)
    PROVE  FrontierDisjoint'
<1>1. CASE Keep
  BY <1>1 DEF Keep, FrontierDisjoint
<1>2. CASE \E h \in Cand : Split(h)
  <2>1. PICK h \in Cand : Split(h)
    BY <1>2
  <2>2. Under[h] = UNION {Under[d] : d \in Choices[h]}
    BY <2>1, UnderAssumption DEF Split
  <2>3. \A d \in Choices[h] : Under[d] \subseteq Under[h]
    BY <2>2
  <2>4. \A c \in Frontier \ {h} : Under[c] \cap Under[h] = {}
    BY <2>1 DEF FrontierDisjoint, Split
  <2>5. Under[h] \cap returned = {}
    BY <2>1 DEF FrontierDisjoint, Split
  <2>6. \A d, e \in Choices[h] : d # e => Under[d] \cap Under[e] = {}
    BY UnderAssumption
  <2>7. \A c, d \in Frontier' : c # d => Under[c] \cap Under[d] = {}
    BY <2>1, <2>3, <2>4, <2>6 DEF FrontierDisjoint, Split
  <2>8. \A c \in Frontier' : Under[c] \cap returned' = {}
    BY <2>1, <2>3, <2>5 DEF FrontierDisjoint, Split
  <2>. QED
    BY <2>7, <2>8 DEF FrontierDisjoint
<1>3. CASE \E h \in Cand : Deliver(h)
  <2>1. PICK h \in Cand : Deliver(h)
    BY <1>3
  <2>2. Under[h] = {h}
    BY <2>1, UnderAssumption DEF Deliver
  <2>3. \A c \in Frontier \ {h} : h \notin Under[c]
    BY <2>1, <2>2 DEF FrontierDisjoint, Deliver
  <2>. QED
    BY <2>1, <2>3 DEF FrontierDisjoint, Deliver
<1>4. CASE \E new \in 0 .. Inf : Lower(new)
  BY <1>4 DEF Lower, FrontierDisjoint
<1>. QED
  BY <1>1, <1>2, <1>3, <1>4

(***************************************************************************)
(* What a step does to the frontier is a step of the store contract.       *)
(***************************************************************************)
LEMMA FrontierImplements ==
    ASSUME ControlInv, DataInv, FrontierDisjoint, Frontier \subseteq Cand,
           \/ Keep /\ Left' = Left
           \/ Keep /\ Frontier = {} /\ \E w \in Worker : Left' = Left \cup {w}
           \/ Left' = Left /\ \E h \in Cand : Split(h) \/ Deliver(h)
           \/ Left' = Left /\ \E new \in 0 .. Inf : Lower(new)
    PROVE  [Store!StoreNext]_(Store!storeVars)
<1>. USE DEF Store!storeVars
<1>0. cut \in 0 .. Inf /\ Inf \in Nat
  BY BoundAssumption DEF ControlInv, TypeOK
<1>1. CASE Keep /\ Left' = Left
  BY <1>1 DEF Keep, OpenLeaves
<1>2. CASE Keep /\ Frontier = {} /\ \E w \in Worker : Left' = Left \cup {w}
  <2>1. OpenLeaves = {} /\ OpenLeaves' = OpenLeaves
    BY <1>2 DEF Keep, OpenLeaves
  <2>2. \E w \in Worker : Store!Refuse(w)
    BY <1>2, <2>1 DEF Store!Refuse, Keep
  <2>. QED
    BY <2>2 DEF Store!StoreNext
<1>3. ASSUME NEW h \in Cand, Split(h), Left' = Left
      PROVE  [Store!StoreNext]_(Store!storeVars)
  <2>. DEFINE S == UNION {Under[d] : d \in {c \in Choices[h] : ~(Bound[c] < cut)}}
  <2>1. /\ Under[h] = UNION {Under[d] : d \in Choices[h]}
        /\ Choices[h] \subseteq Cand /\ h \in Frontier
    BY <1>3, UnderAssumption, CandAssumption DEF Split
  <2>2. S \in SUBSET OpenLeaves
    BY <2>1 DEF OpenLeaves
  <2>3. \A l \in S : Reach[l] >= cut
    <3>. SUFFICES ASSUME NEW d \in Choices[h], ~(Bound[d] < cut), NEW l \in Under[d]
                  PROVE  Reach[l] >= cut
      OBVIOUS
    <3>1. d \in Cand /\ l \in Leaf /\ Bound[d] \in Nat /\ Reach[l] \in Nat
      BY <2>1, UnderAssumption, ReachAssumption, BoundAssumption
    <3>2. Bound[d] <= Reach[l]
      BY <3>1, ReachAssumption
    <3>. QED
      BY <1>0, <3>1, <3>2
  <2>4. OpenLeaves' = OpenLeaves \ S
    <3>1. \A c \in Frontier \ {h} : Under[c] \cap S = {}
      BY <2>1 DEF FrontierDisjoint
    <3>2. \A d, e \in Choices[h] : d # e => Under[d] \cap Under[e] = {}
      BY UnderAssumption
    <3>3. \A d \in Choices[h] : Bound[d] < cut => Under[d] \cap S = {}
      BY <3>2
    <3>4. ASSUME NEW l \in OpenLeaves' PROVE l \in OpenLeaves \ S
      <4>1. PICK c \in Frontier' : l \in Under[c]
        BY <3>4 DEF OpenLeaves
      <4>2. CASE c \in Frontier \ {h}
        BY <3>1, <4>1, <4>2 DEF OpenLeaves
      <4>3. CASE c \in Choices[h] /\ Bound[c] < cut
        BY <2>1, <3>3, <4>1, <4>3 DEF OpenLeaves
      <4>. QED
        BY <1>3, <4>1, <4>2, <4>3 DEF Split
    <3>5. ASSUME NEW l \in OpenLeaves, l \notin S PROVE l \in OpenLeaves'
      <4>1. PICK c \in Frontier : l \in Under[c]
        BY <3>5 DEF OpenLeaves
      <4>2. CASE c = h
        <5>1. PICK d \in Choices[h] : l \in Under[d]
          BY <2>1, <4>1, <4>2
        <5>2. Bound[d] < cut
          BY <3>5, <5>1
        <5>. QED
          BY <1>3, <5>1, <5>2 DEF Split, OpenLeaves
      <4>3. CASE c # h
        BY <1>3, <4>1, <4>3 DEF Split, OpenLeaves
      <4>. QED
        BY <4>2, <4>3
    <3>. QED
      BY <3>4, <3>5
  <2>5. Store!Prune(cut, S)
    BY <1>0, <1>3, <2>3, <2>4 DEF Store!Prune, Split
  <2>. QED
    BY <1>0, <2>2, <2>5 DEF Store!StoreNext
<1>4. ASSUME NEW h \in Cand, Deliver(h), Left' = Left
      PROVE  [Store!StoreNext]_(Store!storeVars)
  <2>1. Under[h] = {h} /\ h \in Frontier
    BY <1>4, UnderAssumption DEF Deliver
  <2>2. h \in OpenLeaves
    BY <2>1 DEF OpenLeaves
  <2>3. \A c \in Frontier \ {h} : h \notin Under[c]
    BY <2>1 DEF FrontierDisjoint
  <2>4. OpenLeaves' = OpenLeaves \ {h}
    BY <1>4, <2>1, <2>3 DEF Deliver, OpenLeaves
  <2>5. Store!Give(h)
    BY <1>4, <2>2, <2>4 DEF Store!Give, Deliver
  <2>. QED
    BY <2>2, <2>5 DEF Store!StoreNext
<1>5. ASSUME NEW new \in 0 .. Inf, Lower(new), Left' = Left
      PROVE  [Store!StoreNext]_(Store!storeVars)
  <2>. DEFINE S == UNION {Under[c] : c \in Frontier \ Frontier'}
  <2>1. S \in SUBSET OpenLeaves
    BY DEF OpenLeaves
  <2>2. \A l \in S : Reach[l] >= new
    <3>. SUFFICES ASSUME NEW c \in Frontier \ Frontier', NEW l \in Under[c]
                  PROVE  Reach[l] >= new
      OBVIOUS
    <3>1. l \in Leaf /\ Bound[c] \in Nat /\ Reach[l] \in Nat /\ new \in Nat
      BY UnderAssumption, ReachAssumption, BoundAssumption
    <3>2. Bound[c] <= Reach[l] /\ Bound[c] >= new
      BY <1>5, <3>1, ReachAssumption DEF Lower
    <3>. QED
      BY <3>1, <3>2
  <2>3. OpenLeaves' = OpenLeaves \ S
    <3>1. Frontier' \subseteq Frontier
      BY <1>5 DEF Lower
    <3>2. \A c \in Frontier' : Under[c] \cap S = {}
      BY <3>1 DEF FrontierDisjoint
    <3>. QED
      BY <3>1, <3>2 DEF OpenLeaves
  <2>4. Store!Prune(new, S)
    BY <1>5, <2>2, <2>3 DEF Store!Prune, Lower
  <2>. QED
    BY <2>1, <2>4 DEF Store!StoreNext
<1>. QED
  BY <1>1, <1>2, <1>3, <1>4, <1>5

(***************************************************************************)
(* The concurrent list implements the contract of the Store trait, for any *)
(* number of workers, any tree and any order of cuts and wakeups.          *)
(***************************************************************************)
THEOREM ListImplementsStore == Spec => ImplementsStore
<1>. DEFINE Inv == ControlInv /\ DataInv /\ FrontierDisjoint
<1>1. Init => Inv
  <2>. SUFFICES ASSUME Init PROVE FrontierDisjoint
    BY InitControl, InitData
  <2>1. Frontier = Root /\ returned = {}
    BY DEF Init, Frontier, Held
  <2>. QED
    BY <2>1, UnderAssumption DEF FrontierDisjoint
<1>2. ASSUME ControlInv PROVE Frontier \subseteq Cand
  BY <1>2 DEF ControlInv, TypeOK, Frontier, Held
<1>3. Inv /\ [Next]_vars => Inv' /\ [Store!StoreNext]_(Store!storeVars)
  <2>. SUFFICES ASSUME ControlInv, DataInv, FrontierDisjoint, [Next]_vars
                PROVE  Inv' /\ [Store!StoreNext]_(Store!storeVars)
    OBVIOUS
  <2>1. ControlInv'
    BY NextControl
  <2>2. DataInv'
    BY <2>1, NextData DEF ControlInv
  <2>3. \/ Keep /\ Left' = Left
        \/ Keep /\ Frontier = {} /\ \E w \in Worker : Left' = Left \cup {w}
        \/ Left' = Left /\ \E h \in Cand : Split(h) \/ Deliver(h)
        \/ Left' = Left /\ \E new \in 0 .. Inf : Lower(new)
    BY <2>1, <2>2, FrontierStep
  <2>4. FrontierDisjoint'
    BY <1>2, <2>3, NextFrontierDisjoint
  <2>5. [Store!StoreNext]_(Store!storeVars)
    BY <1>2, <2>3, FrontierImplements
  <2>. QED
    BY <2>1, <2>2, <2>4, <2>5
<1>4. Init => Store!StoreInit
  <2>. SUFFICES ASSUME Init PROVE Store!StoreInit
    OBVIOUS
  <2>1. Frontier = Root /\ Left = {}
    BY DEF Init, Frontier, Held, Left
  <2>2. OpenLeaves = Leaf
    BY <2>1, UnderAssumption DEF OpenLeaves
  <2>. QED
    BY <2>1, <2>2 DEF Init, Store!StoreInit
<1>. QED
  BY <1>1, <1>3, <1>4, PTL DEF Spec, ImplementsStore, Store!StoreSpec

Contract == INSTANCE SearchStoreProofs
    WITH open <- OpenLeaves, given <- returned, gone <- Left

(***************************************************************************)
(* When explore has answered None, every leaf was returned or lies below a *)
(* candidate whose bound is at or above the current cut.                   *)
(***************************************************************************)
THEOREM ListExhaustive == Spec => []ExhaustiveList
<1>1. Contract!ReachTyped
  BY ReachAssumption, BoundAssumption DEF Contract!ReachTyped
<1>2. Contract!StoreSpec => []Contract!Exhaustive
  BY <1>1, Contract!StoreExhaustive, PTL
<1>3. Store!StoreInit => Contract!StoreInit
  BY DEF Store!StoreInit, Contract!StoreInit
<1>4. [Store!StoreNext]_(Store!storeVars) => [Contract!StoreNext]_(Contract!storeVars)
  BY DEF Store!StoreNext, Store!Give, Store!Refuse, Store!Prune, Store!storeVars,
         Contract!StoreNext, Contract!Give, Contract!Refuse, Contract!Prune,
         Contract!storeVars
<1>5. Contract!Exhaustive => ExhaustiveList
  BY DEF Contract!Exhaustive, Store!Exhaustive, ExhaustiveList
<1>. QED
  BY <1>2, <1>3, <1>4, <1>5, ListImplementsStore, PTL
     DEF ImplementsStore, Store!StoreSpec, Contract!StoreSpec
=============================================================================
