-------------------------- MODULE SearchStoreProofs --------------------------
(***************************************************************************)
(* The contract of the Store trait makes branch and bound exhaustive.      *)
(***************************************************************************)
EXTENDS SearchStore, TLAPS

ReachTyped == Inf \in Nat /\ Reach \in [Leaf -> 0 .. Inf]

StoreInv ==
    /\ StoreTypeOK
    /\ Accounted
    /\ gone # {} => open = {}

(***************************************************************************)
(* A store that only holds back what the cut excludes, and that says None  *)
(* only when nothing is open, never misses a leaf below the cut.           *)
(***************************************************************************)
THEOREM StoreExhaustive == ReachTyped /\ StoreSpec => []Exhaustive
<1>. SUFFICES ASSUME ReachTyped PROVE StoreSpec => []Exhaustive
  OBVIOUS
<1>1. StoreInit => StoreInv
  BY DEF ReachTyped, StoreInit, StoreInv, StoreTypeOK, Accounted
<1>2. StoreInv /\ [StoreNext]_storeVars => StoreInv'
  <2>. SUFFICES ASSUME StoreInv, [StoreNext]_storeVars PROVE StoreInv'
    OBVIOUS
  <2>. USE DEF StoreInv, StoreTypeOK, Accounted
  <2>1. ASSUME NEW l \in open, Give(l) PROVE StoreInv'
    BY <2>1 DEF Give
  <2>2. ASSUME NEW w \in Worker, Refuse(w) PROVE StoreInv'
    BY <2>2 DEF Refuse
  <2>3. ASSUME NEW new \in 0 .. Inf, NEW S \in SUBSET open, Prune(new, S)
        PROVE  StoreInv'
    <3>1. \A l \in Leaf : Reach[l] >= cut => Reach[l] >= new
      BY <2>3 DEF Prune, ReachTyped
    <3>. QED
      BY <2>3, <3>1 DEF Prune
  <2>4. CASE UNCHANGED storeVars
    BY <2>4 DEF storeVars
  <2>. QED
    BY <2>1, <2>2, <2>3, <2>4 DEF StoreNext
<1>3. StoreInv => Exhaustive
  BY DEF StoreInv, StoreTypeOK, Accounted, Exhaustive
<1>. QED
  BY <1>1, <1>2, <1>3, PTL DEF StoreSpec
=============================================================================
