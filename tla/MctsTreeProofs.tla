---------------------------- MODULE MctsTreeProofs ----------------------------
(***************************************************************************)
(* The MCTS tree for any number of threads, any tree and any cuts.         *)
(***************************************************************************)
EXTENDS MctsTree, WellFoundedInduction, TLAPS

-----------------------------------------------------------------------------
(* Types: where the cursors are and what the scans have left.               *)

MsgType == [leaf : Impl, base : Node \cup {None}, rid : Nat]

AtRoot == {"idle", "start", "epoch", "root", "rootexp", "done"}
Scanning == {"xvisit", "xstore", "wscan", "iscan"}
Inside == {"wloop", "wscan", "iloop", "iscan"}

CursorTyped(t) ==
    /\ cur[t] \in made
    /\ pc[t] \in AtRoot => cur[t] = Root
    /\ pc[t] = "retry" => cur[t] # Root
    /\ pc[t] \in Scanning => todo[t] \subseteq Kids[cur[t]]
    /\ pc[t] = "xstore" => todo[t] # {} /\ NextKid(todo[t]) \in made
    /\ pc[t] = "found" => cur[t] \in Impl
    /\ pc[t] \in Inside => cur[t] \notin Impl
    /\ pc[t] # "panic" => seen[t] \cup fresh[t] \subseteq made \cap Kids[cur[t]]
    /\ pc[t] \notin {"wscan", "iscan", "panic"} => seen[t] = {}
    /\ pc[t] \notin {"iscan", "panic"} => fresh[t] = {}
    /\ pend[t] # None => pend[t] \in dead

TypeInv ==
    /\ TypeOK
    /\ Root \in made /\ \A n \in made \ {Root} : Parent[n] \in made
    /\ mail \subseteq MsgType /\ msg \in MsgType \cup {NoMsg}
    /\ mpc # "recv" => msg \in MsgType
    /\ rpc = "reset" => \A t \in Thread : pc[t] = "idle" /\ pend[t] = None
    /\ \A t \in Thread : CursorTyped(t)

-----------------------------------------------------------------------------
(* Cuts and deaths.                                                         *)

\* Why node n may be dead.
Reason(n) ==
    \/ n \in Failing
    \/ Bound[n] >= cut
    \/ n \in Impl /\ evals[n] > 0
    \/ n \notin Impl /\ Kids[n] \subseteq dead

ScanSound(t) ==
    /\ ccut[t] >= cut
    /\ pc[t] # "panic" => \A k \in seen[t] \cup fresh[t] : Below(k, ccut[t])
    /\ pc[t] \in {"wscan", "iscan"} =>
         Kids[cur[t]] \subseteq todo[t] \cup dead \cup seen[t] \cup fresh[t]
    /\ pc[t] = "done" => stop \/ Root \in dead

DeadInv ==
    /\ \A n \in dead : Reason(n)
    /\ \A t \in Thread : ScanSound(t)

-----------------------------------------------------------------------------
(* The explicit tree.                                                       *)

Rollout == {"walk", "wloop", "wscan", "found"}
Expanding == {"expand", "xlock", "xvisit", "xstore", "retry"}

InTree(n) == n = Root \/ Parent[n] \in expanded

TreeCursor(t) ==
    /\ pc[t] \notin Rollout \cup {"panic"} => base[t] = None
    /\ pc[t] \in Rollout => base[t] \in expanded
    /\ pc[t] \in Expanding => InTree(cur[t])
    /\ pc[t] \in {"iloop", "iscan"} => cur[t] \in expanded
    /\ pc[t] = "iscan" => seen[t] \subseteq expanded
    /\ pc[t] \in {"xvisit", "xstore"} =>
         /\ xlock[cur[t]] = t /\ cur[t] \notin expanded /\ cur[t] \notin cand
         /\ Kids[cur[t]] \subseteq todo[t] \cup made
         /\ Kids[cur[t]] \subseteq todo[t] \cup dead \cup cand

TreeInv ==
    /\ \A n \in expanded : InTree(n) /\ Kids[n] \subseteq made /\ n \notin cand
    /\ \A n \in Node : InTree(n) /\ n \notin expanded /\ xlock[n] = None /\ n \notin dead
                         => n \in cand
    /\ \A n \in Node, t \in Thread :
         xlock[n] = t => cur[t] = n /\ pc[t] \in {"xvisit", "xstore"}
    /\ \A t \in Thread : TreeCursor(t)

-----------------------------------------------------------------------------
(* Before the first expansion.                                              *)

Early == AtRoot \cup {"expand", "xlock", "xvisit", "xstore"}

StartInv ==
    /\ restart_id = 0 /\ rpc = "none"
    /\ \A t \in Thread : pc[t] = "enter" => cur[t] \in expanded /\ cur[t] \notin Impl
    /\ Root \notin expanded =>
         /\ cut = InitCut /\ mail = {} /\ mpc = "recv"
         /\ Root \in dead => Bound[Root] >= InitCut
         /\ \A t \in Thread :
              /\ ccut[t] = InitCut /\ cur[t] = Root /\ pc[t] \in Early
              /\ pc[t] \in Early \ {"idle", "start", "epoch", "root", "done"} =>
                   Below(Root, InitCut)

-----------------------------------------------------------------------------
(* Facts about the tree.                                                    *)

LEMMA LeastNatural ==
    ASSUME NEW S \in SUBSET Nat, S # {}
    PROVE  \E n \in S : \A m \in S : n <= m
<1>1. IsWellFoundedOn(OpToRel(<, Nat), Nat)
  BY NatLessThanWellFounded
<1>2. PICK n \in S : \A m \in S : ~(<<m, n>> \in OpToRel(<, Nat))
  BY <1>1, WFMin
<1>3. \A m \in S : ~(m < n)
  BY <1>2 DEF OpToRel
<1>. QED
  BY <1>3

LEMMA NextKidIn ==
    ASSUME NEW S \in SUBSET Node, S # {}
    PROVE  NextKid(S) \in S
<1>1. \E k \in S : \A j \in S : k <= j
  BY LeastNatural, TreeAssumption
<1>. QED
  BY <1>1 DEF NextKid

LEMMA KidsAndParents ==
    /\ \A n \in Node : Kids[n] \subseteq Node \ {Root}
    /\ \A n \in Node : \A k \in Kids[n] : Parent[k] = n
    /\ \A n \in Node \ {Root} : /\ Parent[n] \in Node /\ n \in Kids[Parent[n]]
                                /\ Parent[n] \notin Impl
    /\ Root \in Node
  BY TreeAssumption DEF Impl

-----------------------------------------------------------------------------
(* What a step of thread t leaves alone.                                    *)

Keeps(t) ==
    /\ \A u \in Thread \ {t} :
         /\ pc'[u] = pc[u] /\ cur'[u] = cur[u] /\ base'[u] = base[u]
         /\ ccut'[u] = ccut[u] /\ todo'[u] = todo[u] /\ seen'[u] = seen[u]
         /\ fresh'[u] = fresh[u] /\ pend'[u] = pend[u]
    /\ made \subseteq made' /\ dead \subseteq dead' /\ expanded \subseteq expanded'
    /\ UNCHANGED <<cut, epoch, stop, restart_id, rpc, stats, mpc, msg, mbest>>

LEMMA ThreadKeeps ==
    ASSUME TypeOK, NEW t \in Thread, ThreadNext(t)
    PROVE  Keeps(t)
<1>. USE DEF TypeOK, Keeps, Goto, treeVars, globVars, scanVars, curVars, monVars
<1>1. CASE Clear(t)
  BY <1>1 DEF Clear, Taken
<1>2. CASE ReadCut(t)
  BY <1>2 DEF ReadCut
<1>3. CASE ReadEpoch(t)
  BY <1>3 DEF ReadEpoch
<1>4. CASE CutRoot(t)
  BY <1>4 DEF CutRoot, CutNode, Kill, Live
<1>5. CASE RootExpanded(t)
  BY <1>5 DEF RootExpanded
<1>6. CASE ExpandCheck(t)
  BY <1>6 DEF ExpandCheck, CutNode, Kill, Live, Unexpandable
<1>7. CASE ExpandLock(t)
  BY <1>7 DEF ExpandLock, Beaten, Taken, Live, Unexpandable
<1>8. CASE ExpandVisit(t)
  BY <1>8 DEF ExpandVisit, Visit, Create, DeadOnArrival, Kill, Live, Yields
<1>9. CASE ExpandStore(t)
  BY <1>9 DEF ExpandStore
<1>10. CASE ExpandDone(t)
  BY <1>10 DEF ExpandDone
<1>11. CASE CheckStop(t, "wloop", "wscan")
  BY <1>11 DEF CheckStop, Kill, Live, DeadEnd, Home
<1>12. CASE WalkEnter(t)
  BY <1>12 DEF WalkEnter, Kill, Live, DeadEnd, Home
<1>13. CASE Found(t)
  BY <1>13 DEF Found, Kill, Home
<1>14. CASE WalkVisit(t)
  BY <1>14 DEF WalkVisit, Visit, Create, DeadOnArrival, Kill, Live, Yields
<1>15. CASE WalkPick(t)
  BY <1>15 DEF WalkPick, PickChild, NoChild, Kill, Live
<1>16. CASE CheckStop(t, "iloop", "iscan")
  BY <1>16 DEF CheckStop, Kill, Live, DeadEnd, Home
<1>17. CASE Enter(t)
  BY <1>17 DEF Enter
<1>18. CASE TreeVisit(t)
  BY <1>18 DEF TreeVisit, CutNode, Kill, Live, Yields
<1>19. CASE TreePick(t)
  BY <1>19 DEF TreePick, PickChild, NoChild, Kill, Live
<1>20. CASE Retry(t)
  BY <1>20 DEF Retry
<1>. QED
  BY <1>1, <1>2, <1>3, <1>4, <1>5, <1>6, <1>7, <1>8, <1>9, <1>10, <1>11, <1>12, <1>13,
     <1>14, <1>15, <1>16, <1>17, <1>18, <1>19, <1>20 DEF ThreadNext

LEMMA ThreadIdle ==
    ASSUME NEW t \in Thread, ThreadNext(t), pc[t] = "idle", pend[t] = None
    PROVE  rpc = "none"
  BY DEF ThreadNext, Ready, Clear, ReadCut, ReadEpoch, CutRoot, RootExpanded, ExpandCheck,
         ExpandLock, ExpandVisit, ExpandStore, ExpandDone, CheckStop, WalkEnter, Found,
         WalkVisit, WalkPick, Enter, TreeVisit, TreePick, Retry

LEMMA BoundsAndCuts == Inf \in Nat /\ InitCut \in 0 .. Inf /\ \A n \in Node : Bound[n] \in Nat
  BY TreeAssumption

LEMMA TypeInit == Init => TypeInv
<1>. SUFFICES ASSUME Init PROVE TypeInv
  OBVIOUS
<1>1. cut \in 0 .. Inf /\ ccut \in [Thread -> 0 .. Inf] /\ mbest \in 0 .. Inf + 1
  BY BoundsAndCuts DEF Init
<1>2. TypeOK
  <2>1. /\ made \subseteq Node /\ dead \subseteq made /\ cand \subseteq made
        /\ expanded \subseteq made /\ xlock \in [Node -> Thread \cup {None}]
        /\ stats \in [Node -> SUBSET Nat] /\ evals \in [Impl -> 0 .. 2]
    BY KidsAndParents DEF Init
  <2>2. /\ pc \in [Thread -> Place] /\ cur \in [Thread -> Node]
        /\ base \in [Thread -> Node \cup {None}] /\ cepoch \in [Thread -> Nat]
        /\ todo \in [Thread -> SUBSET Node] /\ seen \in [Thread -> SUBSET Node]
        /\ fresh \in [Thread -> SUBSET Node] /\ pend \in [Thread -> Node \cup {None}]
    BY KidsAndParents DEF Init, Place
  <2>. QED
    BY <1>1, <2>1, <2>2 DEF Init, TypeOK
<1>. QED
  BY <1>2, KidsAndParents
     DEF Init, TypeInv, CursorTyped, AtRoot, Scanning, Inside, MsgType

(***************************************************************************)
(* A dead end leads to the parent of the node, or to the root.             *)
(***************************************************************************)
LEMMA DeadEndTyped ==
    ASSUME TypeInv, NEW t \in Thread, DeadEnd(t)
    PROVE  /\ pc' \in [Thread -> Place] /\ cur' \in [Thread -> Node]
           /\ base' \in [Thread -> Node \cup {None}]
           /\ cur'[t] \in made /\ pc'[t] \in {"start", "iloop", "wloop"}
           /\ pc'[t] = "start" => cur'[t] = Root
           /\ pc'[t] # "start" => cur'[t] \notin Impl
<1>t. /\ pc \in [Thread -> Place] /\ cur \in [Thread -> Node]
      /\ base \in [Thread -> Node \cup {None}] /\ cur[t] \in made /\ Root \in made
      /\ \A n \in made \ {Root} : Parent[n] \in made
      /\ "start" \in Place /\ "iloop" \in Place /\ "wloop" \in Place
  BY DEF TypeInv, TypeOK, CursorTyped, Place
<1>1. CASE Backtrack /\ cur[t] # Root
  <2>1. Parent[cur[t]] \in made /\ Parent[cur[t]] \in Node \ Impl
    BY <1>1, <1>t, KidsAndParents
  <2>2. /\ cur' = [cur EXCEPT ![t] = Parent[cur[t]]]
        /\ base' = [base EXCEPT ![t] = IF cur[t] = base[t] THEN None ELSE @]
        /\ Goto(t, "iloop") \/ Goto(t, "wloop")
    BY <1>1 DEF DeadEnd
  <2>. QED
    BY <1>t, <2>1, <2>2 DEF Goto
<1>2. CASE ~(Backtrack /\ cur[t] # Root)
  BY <1>2, <1>t, KidsAndParents DEF DeadEnd, Home, Goto
<1>. QED
  BY <1>1, <1>2

LEMMA KillTyped ==
    ASSUME TypeInv, NEW t \in Thread, NEW n \in made, Kill(t, n)
    PROVE  dead' \subseteq made /\ pend' \in [Thread -> Node \cup {None}] /\ pend'[t] \in dead'
  BY DEF Kill, TypeInv, TypeOK

(***************************************************************************)
(* A visit of child k of the cursor publishes it, and may kill it.         *)
(***************************************************************************)
LEMMA VisitTyped ==
    ASSUME TypeInv, NEW t \in Thread, NEW k \in Kids[cur[t]], Visit(t, k), pend[t] = None
    PROVE  /\ made' \subseteq Node /\ made' = made \cup {k} /\ dead' \subseteq made'
           /\ pend' \in [Thread -> Node \cup {None}]
           /\ pend'[t] # None => pend'[t] \in dead'
           /\ \A n \in made' \ {Root} : Parent[n] \in made'
<1>1. k \in Node /\ Parent[k] = cur[t] /\ cur[t] \in made
  BY KidsAndParents DEF TypeInv, TypeOK, CursorTyped
<1>2. CASE k \notin made /\ Create(t, k) /\ UNCHANGED pend
  BY <1>1, <1>2 DEF Create, TypeInv, TypeOK
<1>3. CASE k \in made /\ Kill(t, k) /\ UNCHANGED made
  BY <1>1, <1>3, KillTyped DEF TypeInv, TypeOK
<1>4. CASE k \in made /\ UNCHANGED <<made, dead, pend>>
  BY <1>1, <1>4 DEF TypeInv, TypeOK
<1>. QED
  BY <1>2, <1>3, <1>4 DEF Visit

LEMMA CheckStopTyped ==
    ASSUME TypeInv, NEW t \in Thread, NEW at \in {"wloop", "iloop"},
           NEW next \in {"wscan", "iscan"}, CheckStop(t, at, next)
    PROVE  /\ TypeOK' /\ CursorTyped(t)' /\ mail' \subseteq MsgType
           /\ \A n \in made' \ {Root} : Parent[n] \in made'
<1>. USE DEF Ready, AtRoot, Scanning, Inside
<1>1. /\ UNCHANGED <<made, cand, expanded, xlock, globVars, monVars, evals, mail>>
      /\ pc[t] = at /\ pend[t] = None
    BY DEF CheckStop
<1>2. CASE stop
  <2>0. Goto(t, "done") /\ Home(t) /\ UNCHANGED <<dead, pend, ccut, cepoch, scanVars>>
    BY <1>2 DEF CheckStop
  <2>1. TypeOK'
    BY <1>1, <2>0, KidsAndParents DEF Goto, Home, TypeInv, TypeOK, globVars, monVars, scanVars, Place
  <2>2. CursorTyped(t)'
    BY <1>1, <2>0, <2>1 DEF Goto, Home, TypeInv, TypeOK, CursorTyped, scanVars
  <2>. QED
    BY <2>1, <2>2, <1>1 DEF TypeInv
<1>3. CASE ~stop
  <2>0. /\ cepoch' = [cepoch EXCEPT ![t] = epoch]
        /\ ccut' = [ccut EXCEPT ![t] = IF cepoch[t] # epoch THEN cut ELSE @]
    BY <1>3 DEF CheckStop
  <2>1. cepoch' \in [Thread -> Nat] /\ ccut' \in [Thread -> 0 .. Inf]
    BY <2>0 DEF TypeInv, TypeOK
  <2>2. CASE /\ Goto(t, next) /\ todo' = [todo EXCEPT ![t] = Kids[cur[t]]]
             /\ UNCHANGED <<cur, base, dead, pend, seen, fresh>>
    <3>1. TypeOK'
      BY <1>1, <2>1, <2>2, KidsAndParents DEF Goto, TypeInv, TypeOK, globVars, monVars, Place
    <3>2. CursorTyped(t)'
      BY <1>1, <2>2 DEF Goto, TypeInv, TypeOK, CursorTyped
    <3>. QED
      BY <3>1, <3>2, <1>1 DEF TypeInv
  <2>3. CASE (Kill(t, cur[t]) \/ UNCHANGED <<dead, pend>>) /\ DeadEnd(t) /\ UNCHANGED scanVars
    <3>1. dead' \subseteq made /\ pend' \in [Thread -> Node \cup {None}]
          /\ (pend'[t] # None => pend'[t] \in dead')
      BY <1>1, <2>3, KillTyped DEF TypeInv, TypeOK, CursorTyped
    <3>2. TypeOK'
      BY <1>1, <2>1, <2>3, <3>1, DeadEndTyped DEF TypeInv, TypeOK, globVars, monVars, scanVars
    <3>3. CursorTyped(t)'
      BY <1>1, <2>3, <3>1, DeadEndTyped DEF TypeInv, TypeOK, CursorTyped, scanVars
    <3>. QED
      BY <3>2, <3>3, <1>1 DEF TypeInv
  <2>. QED
    BY <1>3, <2>2, <2>3 DEF CheckStop
<1>. QED
  BY <1>2, <1>3

LEMMA ThreadTypes ==
    ASSUME TypeInv, NEW t \in Thread, ThreadNext(t)
    PROVE  /\ TypeOK' /\ CursorTyped(t)' /\ mail' \subseteq MsgType
           /\ \A n \in made' \ {Root} : Parent[n] \in made'
<1>t. TypeOK /\ CursorTyped(t)
  BY DEF TypeInv
<1>k. todo[t] # {} => NextKid(todo[t]) \in todo[t]
  BY <1>t, NextKidIn DEF TypeOK
<1>. USE <1>t, <1>k, KidsAndParents, BoundsAndCuts DEF TypeOK, CursorTyped, Goto, Ready,
     treeVars, globVars, scanVars, curVars, monVars, Place, AtRoot, Scanning, Inside
<1>1. CASE Clear(t)
  BY <1>1 DEF TypeInv, Clear, Taken
<1>2. CASE ReadCut(t)
  BY <1>2 DEF TypeInv, ReadCut
<1>3. CASE ReadEpoch(t)
  BY <1>3 DEF TypeInv, ReadEpoch
<1>4. CASE CutRoot(t)
  <2>a. /\ dead' \subseteq made /\ pend' \in [Thread -> Node \cup {None}]
        /\ pend'[t] # None => pend'[t] \in dead'
    BY <1>4, KillTyped DEF CutRoot, CutNode, TypeInv
  <2>1. TypeOK'
    BY <1>4, <2>a DEF CutRoot, CutNode
  <2>2. CursorTyped(t)'
    BY <1>4, <2>a DEF CutRoot, CutNode
  <2>. QED
    BY <1>4, <2>1, <2>2 DEF CutRoot, TypeInv
<1>5. CASE RootExpanded(t)
  BY <1>5 DEF TypeInv, RootExpanded
<1>6. CASE ExpandCheck(t)
  BY <1>6 DEF TypeInv, ExpandCheck, CutNode, Kill, Live, Unexpandable
<1>7. CASE ExpandLock(t)
  <2>1. TypeOK'
    <3>1. cand' \subseteq made /\ xlock' \in [Node -> Thread \cup {None}]
      BY <1>7 DEF ExpandLock, Taken
    <3>2. todo' \in [Thread -> SUBSET Node]
      BY <1>7 DEF ExpandLock
    <3>3. pc' \in [Thread -> Place]
      BY <1>7 DEF ExpandLock, Unexpandable
    <3>. QED
      BY <1>7, <3>1, <3>2, <3>3 DEF ExpandLock
  <2>2. CursorTyped(t)'
    BY <1>7, <2>1 DEF TypeInv, ExpandLock, Beaten, Taken, Live, Unexpandable
  <2>3. mail' \subseteq MsgType /\ \A n \in made' \ {Root} : Parent[n] \in made'
    BY <1>7, <2>1 DEF TypeInv, ExpandLock, Beaten, Taken, Live, Unexpandable
  <2>. QED
    BY <2>1, <2>2, <2>3
<1>8. CASE ExpandVisit(t)
  <2>. DEFINE k == NextKid(todo[t])
  <2>a. k \in Kids[cur[t]] /\ Visit(t, k) /\ pend[t] = None
    BY <1>8 DEF ExpandVisit
  <2>b. /\ made' \subseteq Node /\ made' = made \cup {k} /\ dead' \subseteq made'
        /\ pend' \in [Thread -> Node \cup {None}]
        /\ pend'[t] # None => pend'[t] \in dead'
        /\ \A n \in made' \ {Root} : Parent[n] \in made'
    BY <2>a, VisitTyped
  <2>c. todo' \in [Thread -> SUBSET Node] /\ pc' \in [Thread -> Place]
    BY <1>8 DEF ExpandVisit
  <2>1. TypeOK'
    BY <1>8, <2>b, <2>c DEF ExpandVisit
  <2>2. CursorTyped(t)'
    BY <1>8, <2>b DEF ExpandVisit
  <2>. QED
    BY <1>8, <2>1, <2>2, <2>b DEF ExpandVisit, TypeInv
<1>9. CASE ExpandStore(t)
  BY <1>9 DEF TypeInv, ExpandStore
<1>10. CASE ExpandDone(t)
  BY <1>10 DEF TypeInv, ExpandDone
<1>11. CASE CheckStop(t, "wloop", "wscan")
  BY <1>11, CheckStopTyped
<1>12. CASE WalkEnter(t)
  <2>a. /\ dead' \subseteq made /\ pend' \in [Thread -> Node \cup {None}]
        /\ pend'[t] # None => pend'[t] \in dead'
    BY <1>12, KillTyped DEF WalkEnter
  <2>b. /\ pc' \in [Thread -> Place] /\ cur' \in [Thread -> Node]
        /\ base' \in [Thread -> Node \cup {None}]
    BY <1>12, DeadEndTyped DEF WalkEnter
  <2>1. TypeOK'
    BY <1>12, <2>a, <2>b DEF WalkEnter
  <2>2. CursorTyped(t)'
    <3>1. CASE DeadEnd(t)
      BY <1>12, <3>1, <2>a, DeadEndTyped DEF WalkEnter
    <3>2. CASE ~DeadEnd(t)
      BY <1>12, <3>2, <2>a DEF WalkEnter
    <3>. QED
      BY <3>1, <3>2
  <2>. QED
    BY <1>12, <2>1, <2>2 DEF WalkEnter, TypeInv
<1>13. CASE Found(t)
  <2>a. dead' \subseteq made /\ pend' \in [Thread -> Node \cup {None}] /\ pend'[t] \in dead'
    BY <1>13, KillTyped DEF Found
  <2>b. evals' \in [Impl -> 0 .. 2]
    BY <1>13 DEF Found
  <2>c. /\ pc' = [pc EXCEPT ![t] = "idle"] /\ cur' = [cur EXCEPT ![t] = Root]
        /\ base' = [base EXCEPT ![t] = None]
        /\ UNCHANGED <<made, cand, expanded, xlock, globVars, scanVars, ccut, cepoch, monVars>>
    BY <1>13 DEF Found, Home
  <2>1. TypeOK'
    BY <2>a, <2>b, <2>c
  <2>2. CursorTyped(t)'
    BY <1>13, <2>a, <2>c DEF Found, TypeInv
  <2>3. mail' \subseteq MsgType
    BY <1>13 DEF Found, MsgType, TypeInv
  <2>. QED
    BY <1>13, <2>1, <2>2, <2>3 DEF Found, TypeInv
<1>14. CASE WalkVisit(t)
  BY <1>14 DEF TypeInv, WalkVisit, Visit, Create, DeadOnArrival, Kill, Live, Yields
<1>15. CASE WalkPick(t)
  <2>a. /\ dead' \subseteq made /\ pend' \in [Thread -> Node \cup {None}]
        /\ pend'[t] # None => pend'[t] \in dead'
    BY <1>15, KillTyped DEF WalkPick, NoChild
  <2>b. /\ pc' \in [Thread -> Place] /\ cur' \in [Thread -> Node]
        /\ cur'[t] \in made /\ pc'[t] \in {"walk", "wloop", "panic"}
        /\ pc'[t] = "wloop" => cur'[t] = cur[t]
    <3>1. CASE NoChild(t, seen[t], "wloop")
      <4>1. cur' = cur /\ (Goto(t, "panic") \/ Goto(t, "wloop"))
        BY <3>1 DEF NoChild
      <4>. QED
        BY <4>1
    <3>2. ASSUME NEW k \in PickChild(seen[t], ccut[t]), cur' = [cur EXCEPT ![t] = k],
                 Goto(t, "walk")
          PROVE  /\ pc' \in [Thread -> Place] /\ cur' \in [Thread -> Node]
                 /\ cur'[t] \in made /\ pc'[t] = "walk"
      BY <3>2, <1>15 DEF WalkPick, PickChild
    <3>. QED
      BY <3>1, <3>2, <1>15 DEF WalkPick
  <2>1. TypeOK'
    BY <1>15, <2>a, <2>b DEF WalkPick
  <2>2. CursorTyped(t)'
    <3>1. /\ seen'[t] = {} /\ fresh'[t] = {} /\ made' = made
          /\ cur[t] \notin Impl
      BY <1>15 DEF WalkPick
    <3>. QED
      BY <2>a, <2>b, <3>1
  <2>. QED
    BY <1>15, <2>1, <2>2 DEF WalkPick, TypeInv
<1>16. CASE CheckStop(t, "iloop", "iscan")
  BY <1>16, CheckStopTyped
<1>17. CASE Enter(t)
  BY <1>17 DEF TypeInv, Enter
<1>18. CASE TreeVisit(t)
  <2>. DEFINE k == NextKid(todo[t])
  <2>a. k \in Kids[cur[t]] /\ k \in Node /\ pc[t] = "iscan" /\ pend[t] = None
    BY <1>18 DEF TreeVisit
  <2>b. /\ dead' \subseteq made /\ pend' \in [Thread -> Node \cup {None}]
        /\ pend'[t] # None => pend'[t] \in dead'
        /\ pc' \in [Thread -> Place] /\ pc'[t] \in {"iscan", "panic"}
        /\ pc'[t] = "iscan" => k \in made
    <3>1. CASE k \notin made
      BY <1>18, <3>1, <2>a DEF TreeVisit
    <3>2. CASE k \in made
      BY <1>18, <3>2, <2>a, KillTyped DEF TreeVisit, CutNode
    <3>. QED
      BY <3>1, <3>2
  <2>c. /\ todo' = [todo EXCEPT ![t] = @ \ {k}]
        /\ seen' \in [Thread -> SUBSET Node] /\ seen'[t] \subseteq seen[t] \cup {k}
        /\ fresh' \in [Thread -> SUBSET Node] /\ fresh'[t] \subseteq fresh[t] \cup {k}
    BY <1>18, <2>a DEF TreeVisit
  <2>d. UNCHANGED <<made, cand, expanded, xlock, globVars, curVars, monVars, evals, mail>>
    BY <1>18 DEF TreeVisit
  <2>1. TypeOK'
    BY <2>b, <2>c, <2>d
  <2>2. CursorTyped(t)'
    <3>1. /\ todo'[t] = todo[t] \ {k} /\ cur'[t] = cur[t] /\ made' = made
          /\ pc'[t] = "iscan" => seen'[t] \cup fresh'[t] \subseteq made \cap Kids[cur[t]]
      BY <2>a, <2>b, <2>c, <2>d
    <3>. QED
      BY <2>a, <2>b, <3>1
  <2>. QED
    BY <2>1, <2>2, <2>d DEF TypeInv
<1>19. CASE TreePick(t)
  <2>a. /\ dead' \subseteq made /\ pend' \in [Thread -> Node \cup {None}]
        /\ pend'[t] # None => pend'[t] \in dead'
    BY <1>19, KillTyped DEF TreePick, NoChild
  <2>b. /\ pc' \in [Thread -> Place] /\ cur' \in [Thread -> Node]
        /\ cur'[t] \in made /\ pc'[t] \in {"expand", "enter", "iloop", "panic"}
        /\ pc'[t] = "iloop" => cur'[t] = cur[t]
    BY <1>19 DEF TreePick, NoChild, PickChild
  <2>1. TypeOK'
    BY <1>19, <2>a, <2>b DEF TreePick
  <2>2. CursorTyped(t)'
    BY <1>19, <2>a, <2>b DEF TreePick, TypeInv
  <2>. QED
    BY <1>19, <2>1, <2>2 DEF TreePick, TypeInv
<1>20. CASE Retry(t)
  BY <1>20 DEF TypeInv, Retry
<1>. QED
  BY <1>1, <1>2, <1>3, <1>4, <1>5, <1>6, <1>7, <1>8, <1>9, <1>10, <1>11, <1>12, <1>13,
     <1>14, <1>15, <1>16, <1>17, <1>18, <1>19, <1>20 DEF ThreadNext

LEMMA TypeStep == TypeInv /\ [Next]_vars => TypeInv'
<1>. SUFFICES ASSUME TypeInv, [Next]_vars PROVE TypeInv'
  OBVIOUS
<1>1. ASSUME NEW t \in Thread, ThreadNext(t) PROVE TypeInv'
  <2>1. /\ TypeOK' /\ CursorTyped(t)' /\ mail' \subseteq MsgType
        /\ \A n \in made' \ {Root} : Parent[n] \in made'
    BY <1>1, ThreadTypes
  <2>2. Keeps(t)
    BY <1>1, ThreadKeeps DEF TypeInv
  <2>3. rpc' = "none"
    BY <1>1, <2>2, ThreadIdle DEF TypeInv, TypeOK, Keeps
  <2>4. ASSUME NEW u \in Thread \ {t} PROVE CursorTyped(u)'
    BY <2>2 DEF Keeps, TypeInv, CursorTyped
  <2>. QED
    BY <2>1, <2>2, <2>3, <2>4 DEF TypeInv, Keeps
<1>2. ASSUME UNCHANGED <<made, dead, scanVars, curVars, pc, pend>> PROVE \A t \in Thread : CursorTyped(t)'
  BY <1>2 DEF TypeInv, CursorTyped, scanVars, curVars
<1>. USE DEF TypeInv, TypeOK, treeVars, globVars, scanVars, curVars, monVars
<1>3. CASE CommitCheck
  BY <1>2, <1>3 DEF CommitCheck
<1>4. CASE Backpropagate
  <2>1. stats' \in [Node -> SUBSET Nat]
    BY <1>4 DEF Backpropagate, MsgType
  <2>. QED
    BY <1>2, <1>4, <2>1 DEF Backpropagate
<1>5. CASE NewBest
  <2>1. Time[msg.leaf] \in 0 .. Inf
    BY <1>5, TreeAssumption DEF NewBest, MsgType
  <2>2. cut' \in 0 .. Inf /\ epoch' \in Nat /\ mbest' \in 0 .. Inf + 1
    BY <1>5, <2>1, BoundsAndCuts DEF NewBest, UpdateCut
  <2>. QED
    BY <1>2, <1>5, <2>2 DEF NewBest
<1>6. CASE StopExploration
  BY <1>2, <1>6 DEF StopExploration
<1>7. CASE RestartBump
  BY <1>2, <1>7 DEF RestartBump, Ready
<1>8. CASE RestartReset
  <2>1. stats' \in [Node -> SUBSET Nat]
    BY <1>8 DEF RestartReset, Reset
  <2>. QED
    BY <1>2, <1>8, <2>1 DEF RestartReset, Reset
<1>9. CASE UNCHANGED vars
  BY <1>2, <1>9 DEF vars
<1>. QED
  BY <1>1, <1>3, <1>4, <1>5, <1>6, <1>7, <1>8, <1>9 DEF Next, MonitorNext

LEMMA TreeTyped == Spec => []TypeInv
  BY TypeInit, TypeStep, PTL DEF Spec

(***************************************************************************)
(* The flags, cursors and messages keep their types; the children a scan   *)
(* has left are children of the node the cursor points to, and an edge is  *)
(* only published below a published node.                                  *)
(***************************************************************************)
THEOREM TreeTypeCorrect == Spec => []TypeOK
<1>1. TypeInv => TypeOK
  BY DEF TypeInv
<1>. QED
  BY <1>1, TreeTyped, PTL

-----------------------------------------------------------------------------
(* Nodes die and cuts fall; neither is ever undone.                         *)

LEMMA Monotone ==
    ASSUME TypeInv, [Next]_vars
    PROVE  /\ dead \subseteq dead' /\ cut' <= cut /\ (stop => stop')
           /\ \A n \in Impl : evals[n] > 0 => evals'[n] > 0
<1>t. cut \in 0 .. Inf /\ Inf \in Nat /\ evals \in [Impl -> 0 .. 2]
  BY BoundsAndCuts DEF TypeInv, TypeOK
<1>. USE DEF treeVars, globVars
<1>1. ASSUME NEW t \in Thread, ThreadNext(t)
      PROVE  \A n \in Impl : evals[n] > 0 => evals'[n] > 0
  <2>1. evals' = evals \/ Found(t)
    BY <1>1 DEF ThreadNext, Clear, ReadCut, ReadEpoch, CutRoot, RootExpanded, ExpandCheck,
         ExpandLock, ExpandVisit, ExpandStore, ExpandDone, CheckStop, WalkEnter,
         WalkVisit, WalkPick, Enter, TreeVisit, TreePick, Retry
  <2>2. CASE Found(t)
    BY <1>t, <2>2 DEF Found
  <2>. QED
    BY <2>1, <2>2
<1>2. CASE \E t \in Thread : ThreadNext(t)
  BY <1>1, <1>2, <1>t, ThreadKeeps DEF TypeInv, Keeps
<1>3. CASE CommitCheck
  BY <1>3, <1>t DEF CommitCheck
<1>4. CASE Backpropagate
  BY <1>4, <1>t DEF Backpropagate
<1>5. CASE NewBest
  <2>1. Time[msg.leaf] \in 0 .. Inf
    BY <1>5, TreeAssumption DEF NewBest, MsgType, TypeInv
  <2>. QED
    BY <1>5, <1>t, <2>1 DEF NewBest, UpdateCut
<1>6. CASE StopExploration
  BY <1>6, <1>t DEF StopExploration
<1>7. CASE RestartBump
  BY <1>7, <1>t DEF RestartBump
<1>8. CASE RestartReset
  BY <1>8, <1>t DEF RestartReset, Reset
<1>9. CASE UNCHANGED vars
  BY <1>9, <1>t DEF vars
<1>. QED
  BY <1>2, <1>3, <1>4, <1>5, <1>6, <1>7, <1>8, <1>9 DEF Next, MonitorNext

(***************************************************************************)
(* No step of a thread, of the monitor or of a restart revives a node.     *)
(***************************************************************************)
THEOREM NoResurrection == Spec => DeadStaysDead
  BY Monotone, TreeTyped, PTL DEF Spec, DeadStaysDead

-----------------------------------------------------------------------------
(* Why nodes are dead.                                                      *)

LEMMA ReasonStays ==
    ASSUME TypeInv, TypeInv', [Next]_vars, NEW n \in Node, Reason(n)
    PROVE  Reason(n)'
  BY Monotone, BoundsAndCuts DEF TypeInv, TypeOK, Reason

LEMMA OverTheCut ==
    ASSUME TypeInv, NEW t \in Thread, ScanSound(t), NEW n \in Node, ~Below(n, ccut[t])
    PROVE  Bound[n] >= cut
  BY BoundsAndCuts DEF TypeInv, TypeOK, ScanSound, Below

LEMMA DeadInit == Init => DeadInv
  BY BoundsAndCuts DEF Init, DeadInv, ScanSound

(***************************************************************************)
(* A visited child is live and below the cut of the cursor, or dead for a  *)
(* reason.                                                                 *)
(***************************************************************************)
LEMMA VisitSound ==
    ASSUME TypeInv, TypeInv', NEW t \in Thread, ScanSound(t), UNCHANGED cut,
           NEW k \in Node, Visit(t, k)
    PROVE  /\ \A n \in dead' : n \in dead \/ (n \in Failing \/ Bound[n] >= cut')
           /\ k \in dead' \/ Below(k, ccut[t])
  BY OverTheCut DEF Visit, Create, DeadOnArrival, Kill, Live, TypeInv, TypeOK

LEMMA ThreadDead ==
    ASSUME TypeInv, TypeInv', DeadInv, NEW t \in Thread, ThreadNext(t)
    PROVE  ScanSound(t)' /\ \A n \in dead' : n \in dead \/ Reason(n)'
<1>t. /\ TypeOK /\ CursorTyped(t) /\ ScanSound(t) /\ cut \in Nat /\ ccut[t] \in Nat
      /\ cut' = cut /\ stop' = stop /\ dead \subseteq dead'
  BY BoundsAndCuts, ThreadKeeps DEF TypeInv, TypeOK, DeadInv, Keeps
<1>k. todo[t] # {} => NextKid(todo[t]) \in todo[t]
  BY NextKidIn DEF TypeInv, TypeOK
<1>n. todo[t] \subseteq Node /\ cur[t] \in Node /\ cur'[t] \in Node /\ Root \in Node
  BY KidsAndParents DEF TypeInv, TypeOK
<1>. USE <1>t DEF Goto, Ready, Reason, ScanSound, scanVars, curVars
<1>f. \A x, y : /\ [pc EXCEPT ![t] = x][t] = x /\ [todo EXCEPT ![t] = x][t] = x
               /\ [seen EXCEPT ![t] = x][t] = x /\ [fresh EXCEPT ![t] = x][t] = x
               /\ [ccut EXCEPT ![t] = x][t] = x /\ [cur EXCEPT ![t] = x][t] = x
  BY DEF TypeOK
<1>1. CASE Clear(t)
  BY <1>1, <1>f DEF Clear, Taken, CursorTyped, treeVars
<1>2. CASE ReadCut(t)
  BY <1>2, <1>f DEF ReadCut, CursorTyped, treeVars
<1>3. CASE ReadEpoch(t)
  BY <1>3, <1>f DEF ReadEpoch, CursorTyped, treeVars
<1>4. CASE CutRoot(t)
  BY <1>4, <1>f, <1>n, OverTheCut DEF CutRoot, CutNode, Kill, Live, CursorTyped
<1>5. CASE RootExpanded(t)
  BY <1>5, <1>f DEF RootExpanded, CursorTyped, treeVars
<1>6. CASE ExpandCheck(t)
  BY <1>6, <1>f, <1>n, OverTheCut
     DEF ExpandCheck, CutNode, Kill, Live, Unexpandable, CursorTyped
<1>7. CASE ExpandLock(t)
  BY <1>7, <1>f DEF ExpandLock, Beaten, Taken, Live, Unexpandable, CursorTyped, treeVars
<1>8. CASE ExpandVisit(t)
  <2>. DEFINE k == NextKid(todo[t])
  <2>1. k \in Node /\ Visit(t, k) /\ pc'[t] \in {"xvisit", "xstore"}
    BY <1>8, <1>f, <1>k, <1>n DEF ExpandVisit
  <2>. QED
    BY <1>8, <2>1, VisitSound DEF ExpandVisit, CursorTyped
<1>9. CASE ExpandStore(t)
  BY <1>9, <1>f DEF ExpandStore, CursorTyped, treeVars
<1>10. CASE ExpandDone(t)
  BY <1>10, <1>f DEF ExpandDone, CursorTyped, treeVars
<1>11. CASE CheckStop(t, "wloop", "wscan")
  <2>1. CASE stop
    BY <1>11, <1>f, <2>1 DEF CheckStop, Home, CursorTyped
  <2>2. CASE ~stop
    <3>1. ccut'[t] \in {ccut[t], cut}
      BY <1>11, <1>f, <2>2 DEF CheckStop, TypeOK
    <3>2. pc[t] = "wloop" /\ seen[t] = {} /\ fresh[t] = {} /\ seen' = seen /\ fresh' = fresh
      BY <1>11, <2>2 DEF CheckStop, CursorTyped
    <3>3. CASE /\ Goto(t, "wscan") /\ todo' = [todo EXCEPT ![t] = Kids[cur[t]]]
               /\ UNCHANGED <<cur, dead>>
      BY <3>1, <3>2, <3>3, <1>f
    <3>4. CASE DeadEnd(t) /\ (UNCHANGED dead \/ (Kill(t, cur[t]) /\ ~Below(cur[t], cut)))
      <4>1. pc'[t] \in {"start", "iloop", "wloop"}
        BY <3>4, DeadEndTyped
      <4>2. \A n \in dead' : n \in dead \/ Bound[n] >= cut'
        BY <3>4, <1>n, BoundsAndCuts DEF Kill, Below
      <4>. QED
        BY <3>1, <3>2, <4>1, <4>2
    <3>5. \/ /\ Goto(t, "wscan") /\ todo' = [todo EXCEPT ![t] = Kids[cur[t]]]
             /\ UNCHANGED <<cur, dead>>
          \/ DeadEnd(t) /\ UNCHANGED dead
          \/ DeadEnd(t) /\ Kill(t, cur[t]) /\ ~Below(cur[t], cut)
      BY <1>11, <2>2 DEF CheckStop
    <3>. QED
      BY <3>3, <3>4, <3>5
  <2>. QED
    BY <2>1, <2>2
<1>12. CASE WalkEnter(t)
  <2>1. seen'[t] = {} /\ fresh'[t] = {} /\ ccut'[t] = ccut[t]
    BY <1>12 DEF WalkEnter, CursorTyped
  <2>2. pc'[t] \in {"start", "iloop", "wloop", "found"}
    BY <1>12, <1>f, DeadEndTyped DEF WalkEnter
  <2>3. \A n \in dead' : n \in dead \/ Bound[n] >= cut'
    BY <1>12, <1>n, OverTheCut DEF WalkEnter, Kill
  <2>. QED
    BY <2>1, <2>2, <2>3
<1>13. CASE Found(t)
  BY <1>13, <1>f DEF Found, Kill, Home, CursorTyped, TypeOK
<1>14. CASE WalkVisit(t)
  <2>. DEFINE k == NextKid(todo[t])
  <2>1. k \in Node /\ Visit(t, k)
    BY <1>14, <1>k, <1>n DEF WalkVisit
  <2>2. /\ todo'[t] = todo[t] \ {k} /\ pc'[t] = pc[t] /\ cur'[t] = cur[t]
        /\ seen'[t] = (IF k \notin dead' THEN seen[t] \cup {k} ELSE seen[t])
        /\ fresh'[t] = fresh[t] /\ ccut'[t] = ccut[t]
    BY <1>14, <1>f DEF WalkVisit, Yields, TypeOK
  <2>. QED
    BY <1>14, <2>1, <2>2, VisitSound DEF WalkVisit
<1>15. CASE WalkPick(t)
  <2>1. /\ seen'[t] = {} /\ fresh'[t] = {} /\ ccut'[t] = ccut[t] /\ pc[t] = "wscan"
        /\ Kids[cur[t]] \subseteq dead \cup seen[t] /\ cur[t] \notin Impl
    BY <1>15, <1>f DEF WalkPick, CursorTyped, Inside
  <2>2. pc'[t] \in {"walk", "wloop", "panic"}
    BY <1>15, <1>f DEF WalkPick, NoChild
  <2>3. \A n \in dead' : n \in dead \/ (n = cur[t] /\ seen[t] \subseteq dead)
    <3>1. UNCHANGED dead \/ (Kill(t, cur[t]) /\ ~\E k \in seen[t] : Live(k))
      BY <1>15 DEF WalkPick, NoChild
    <3>. QED
      BY <3>1 DEF Kill, Live
  <2>. QED
    BY <2>1, <2>2, <2>3
<1>16. CASE CheckStop(t, "iloop", "iscan")
  <2>1. CASE stop
    BY <1>16, <1>f, <2>1 DEF CheckStop, Home, CursorTyped
  <2>2. CASE ~stop
    <3>1. ccut'[t] \in {ccut[t], cut}
      BY <1>16, <1>f, <2>2 DEF CheckStop, TypeOK
    <3>2. pc[t] = "iloop" /\ seen[t] = {} /\ fresh[t] = {} /\ seen' = seen /\ fresh' = fresh
      BY <1>16, <2>2 DEF CheckStop, CursorTyped
    <3>3. CASE /\ Goto(t, "iscan") /\ todo' = [todo EXCEPT ![t] = Kids[cur[t]]]
               /\ UNCHANGED <<cur, dead>>
      BY <3>1, <3>2, <3>3, <1>f
    <3>4. CASE DeadEnd(t) /\ (UNCHANGED dead \/ (Kill(t, cur[t]) /\ ~Below(cur[t], cut)))
      <4>1. pc'[t] \in {"start", "iloop", "wloop"}
        BY <3>4, DeadEndTyped
      <4>2. \A n \in dead' : n \in dead \/ Bound[n] >= cut'
        BY <3>4, <1>n, BoundsAndCuts DEF Kill, Below
      <4>. QED
        BY <3>1, <3>2, <4>1, <4>2
    <3>5. \/ /\ Goto(t, "iscan") /\ todo' = [todo EXCEPT ![t] = Kids[cur[t]]]
             /\ UNCHANGED <<cur, dead>>
          \/ DeadEnd(t) /\ UNCHANGED dead
          \/ DeadEnd(t) /\ Kill(t, cur[t]) /\ ~Below(cur[t], cut)
      BY <1>16, <2>2 DEF CheckStop
    <3>. QED
      BY <3>3, <3>4, <3>5
  <2>. QED
    BY <2>1, <2>2
<1>17. CASE Enter(t)
  BY <1>17, <1>f DEF Enter, CursorTyped, treeVars
<1>18. CASE TreeVisit(t)
  <2>. DEFINE k == NextKid(todo[t])
  <2>1. k \in Node
    BY <1>18, <1>k, <1>n DEF TreeVisit
  <2>2. /\ todo'[t] = todo[t] \ {k} /\ cur'[t] = cur[t] /\ ccut'[t] = ccut[t]
        /\ seen'[t] = (IF k \notin dead' /\ k \in expanded THEN seen[t] \cup {k} ELSE seen[t])
        /\ fresh'[t] = (IF k \notin dead' /\ k \notin expanded THEN fresh[t] \cup {k} ELSE fresh[t])
    BY <1>18, <1>f DEF TreeVisit, Yields, TypeOK
  <2>3. /\ pc'[t] \in {"iscan", "panic"} /\ pc[t] = "iscan"
        /\ \A n \in dead' : n \in dead \/ Bound[n] >= cut'
        /\ pc'[t] = "iscan" => k \in dead' \/ Below(k, ccut[t])
    <3>1. CASE k \notin made
      BY <1>18, <1>f, <3>1 DEF TreeVisit
    <3>2. CASE k \in made
      <4>1. CutNode(t, k, ccut[t], "iscan", "iscan") /\ pc[t] = "iscan"
        BY <1>18, <3>2 DEF TreeVisit
      <4>. QED
        BY <4>1, <1>f, <2>1, OverTheCut DEF CutNode, Kill, Live
    <3>. QED
      BY <3>1, <3>2
  <2>. QED
    BY <2>1, <2>2, <2>3
<1>19. CASE TreePick(t)
  <2>1. /\ seen'[t] = {} /\ fresh'[t] = {} /\ ccut'[t] = ccut[t] /\ pc[t] = "iscan"
        /\ Kids[cur[t]] \subseteq dead \cup seen[t] \cup fresh[t] /\ cur[t] \notin Impl
    BY <1>19, <1>f DEF TreePick, CursorTyped, Inside
  <2>2. pc'[t] \in {"expand", "enter", "iloop", "panic"}
    BY <1>19, <1>f DEF TreePick, NoChild
  <2>3. \A n \in dead' : n \in dead \/ (n = cur[t] /\ fresh[t] \cup seen[t] \subseteq dead)
    <3>1. UNCHANGED dead \/ (Kill(t, cur[t]) /\ ~\E k \in fresh[t] \cup seen[t] : Live(k))
      BY <1>19 DEF TreePick, NoChild
    <3>. QED
      BY <3>1 DEF Kill, Live
  <2>. QED
    BY <2>1, <2>2, <2>3
<1>20. CASE Retry(t)
  BY <1>20, <1>f DEF Retry, CursorTyped, treeVars
<1>. QED
  BY <1>1, <1>2, <1>3, <1>4, <1>5, <1>6, <1>7, <1>8, <1>9, <1>10, <1>11, <1>12, <1>13,
     <1>14, <1>15, <1>16, <1>17, <1>18, <1>19, <1>20 DEF ThreadNext

LEMMA DeadStep == TypeInv /\ TypeInv' /\ DeadInv /\ [Next]_vars => DeadInv'
<1>. SUFFICES ASSUME TypeInv, TypeInv', DeadInv, [Next]_vars PROVE DeadInv'
  OBVIOUS
<1>n. dead \subseteq Node /\ dead' \subseteq Node
  BY DEF TypeInv, TypeOK
<1>1. CASE \E t \in Thread : ThreadNext(t)
  <2>. PICK t \in Thread : ThreadNext(t)
    BY <1>1
  <2>1. ScanSound(t)' /\ \A n \in dead' : n \in dead \/ Reason(n)'
    BY ThreadDead
  <2>2. ASSUME NEW u \in Thread \ {t} PROVE ScanSound(u)'
    BY ThreadKeeps DEF Keeps, TypeInv, DeadInv, ScanSound, Below
  <2>3. \A n \in dead' : Reason(n)'
    BY <1>n, <2>1, ReasonStays DEF DeadInv
  <2>. QED
    BY <2>1, <2>2, <2>3 DEF DeadInv
<1>2. CASE ~\E t \in Thread : ThreadNext(t)
  <2>1. /\ UNCHANGED <<dead, pc, cur, ccut, todo, seen, fresh>>
        /\ cut' <= cut /\ (stop => stop')
    <3>1. UNCHANGED <<dead, pc, cur, ccut, todo, seen, fresh>>
      BY <1>2 DEF Next, MonitorNext, CommitCheck, Backpropagate, NewBest, StopExploration,
             RestartBump, RestartReset, Reset, treeVars, scanVars, curVars, vars
    <3>. QED
      BY <3>1, Monotone
  <2>2. ASSUME NEW u \in Thread PROVE ScanSound(u)'
    <3>1. ccut[u] \in Nat /\ cut \in Nat /\ cut' \in Nat /\ ccut[u] >= cut
      BY BoundsAndCuts DEF TypeInv, TypeOK, DeadInv, ScanSound
    <3>2. ccut'[u] >= cut'
      BY <2>1, <3>1
    <3>. QED
      BY <2>1, <3>2 DEF DeadInv, ScanSound, Below
  <2>3. \A n \in dead' : Reason(n)'
    BY <1>n, <2>1, ReasonStays DEF DeadInv
  <2>. QED
    BY <2>2, <2>3 DEF DeadInv
<1>. QED
  BY <1>1, <1>2

LEMMA DeadSound == Spec => [](TypeInv /\ DeadInv)
<1>1. Init => TypeInv /\ DeadInv
  BY TypeInit, DeadInit
<1>2. TypeInv /\ DeadInv /\ [Next]_vars => (TypeInv /\ DeadInv)'
  BY TypeStep, DeadStep
<1>. QED
  BY <1>1, <1>2, PTL DEF Spec

(***************************************************************************)
(* Whatever the threads and the monitor do, a thread prunes with a cut at  *)
(* least as high as the store's: update_cut only lowers the cut, and       *)
(* check_stop only copies it.                                              *)
(***************************************************************************)
THEOREM CutCopiesAreHigh == Spec => []StaleCutIsHigh
<1>1. DeadInv => StaleCutIsHigh
  BY DEF DeadInv, ScanSound, StaleCutIsHigh
<1>. QED
  BY <1>1, DeadSound, PTL

(***************************************************************************)
(* No thread kills a node it should have kept: the reason found with the   *)
(* thread's own copy of the cut, and with the children its scan saw, is a  *)
(* reason for the shared tree, and remains one.                            *)
(***************************************************************************)
THEOREM DeathsAreJustified == Spec => []DeadForAReason
<1>1. DeadInv => DeadForAReason
  BY DEF DeadInv, Reason, DeadForAReason
<1>. QED
  BY <1>1, DeadSound, PTL

(***************************************************************************)
(* explore only answers None when the search was stopped or the tree holds *)
(* nothing more: a node above a live part of the tree is never dead, so a  *)
(* dead root leaves no implementation behind.                              *)
(***************************************************************************)
THEOREM NothingForgotten == Spec => []Exhaustive
<1>1. TypeInv /\ DeadInv => Exhaustive
  <2>. SUFFICES ASSUME TypeInv, DeadInv, NEW t \in Thread, pc[t] = "done", ~stop,
                       NEW l \in Impl, evals[l] = 0,
                       \A n \in Path(l) : n \notin Failing /\ ~(Bound[n] >= cut)
                PROVE  FALSE
    <3>1. TypeInv => evals \in [Impl -> 0 .. 2]
      BY DEF TypeInv, TypeOK
    <3>2. TypeInv => \A k \in Impl : evals[k] > 0 \/ evals[k] = 0
      BY <3>1
    <3>. QED
      BY <3>2 DEF Exhaustive
  <2>1. Root \in dead /\ l \in Node
    BY DEF DeadInv, ScanSound, Impl
  <2>. DEFINE S == Path(l) \ dead
  <2>2. l \in Path(l) /\ Path(l) \subseteq Node /\ Root \in Path(l)
    BY <2>1, TreeAssumption DEF Path
  <2>3. l \notin dead
    BY <2>2 DEF DeadInv, Reason
  <2>4. \A n \in Path(l) \ {Root} : Parent[n] \in Path(l)
    BY KidsAndParents DEF Path, Rooted
  <2>5. ASSUME NEW n \in S \ {Root} PROVE Parent[n] \notin dead
    <3>1. Parent[n] \in Path(l) /\ n \in Kids[Parent[n]] /\ n \notin dead /\ Parent[n] \notin Impl
      BY <2>2, <2>4, KidsAndParents
    <3>. QED
      BY <3>1 DEF DeadInv, Reason
  <2>6. S \in Rooted
    BY <2>2, <2>4, <2>5 DEF Rooted
  <2>7. Root \in S
    BY <2>2, <2>3, <2>6, <2>1 DEF Path
  <2>. QED
    BY <2>1, <2>7
<1>. QED
  BY <1>1, DeadSound, PTL

-----------------------------------------------------------------------------
(* The explicit tree, its candidates and the write locks.                   *)

LEMMA TreeInit == Init => TreeInv
  BY TreeAssumption DEF Init, TreeInv, TreeCursor, InTree, Rollout, Expanding

LEMMA InTreeKept ==
    ASSUME expanded \subseteq expanded', NEW n, InTree(n)
    PROVE  InTree(n)'
  BY DEF InTree

(***************************************************************************)
(* The cursor of thread u, over a step of thread t.                        *)
(***************************************************************************)
LEMMA OtherCursor ==
    ASSUME TypeInv, TreeInv, NEW t \in Thread, Keeps(t), NEW u \in Thread \ {t},
           \A n \in Node : xlock[n] = u => xlock'[n] = u /\ (n \in expanded' => n \in expanded),
           \A n \in cand : n \in cand' \/ n \in dead' \/ InTree(n),
           \A n \in cand' : n \in cand \/ ~InTree(n)
    PROVE  TreeCursor(u)'
<1>1. TreeCursor(u) /\ cur[u] \in Node
  BY DEF TypeInv, TypeOK, TreeInv
<1>2. /\ base[u] \in expanded => base[u] \in expanded'
      /\ InTree(cur[u]) => InTree(cur[u])'
      /\ cur[u] \in expanded => cur[u] \in expanded'
  BY InTreeKept DEF Keeps, InTree
<1>3. CASE pc[u] \notin {"xvisit", "xstore"}
  BY <1>1, <1>2, <1>3 DEF Keeps, TreeCursor, InTree
<1>4. CASE pc[u] \in {"xvisit", "xstore"}
  <2>1. /\ xlock[cur[u]] = u /\ cur[u] \notin expanded /\ cur[u] \notin cand /\ InTree(cur[u])
        /\ Kids[cur[u]] \subseteq todo[u] \cup made
        /\ Kids[cur[u]] \subseteq todo[u] \cup dead \cup cand
    BY <1>1, <1>4 DEF TreeCursor, Expanding
  <2>2. \A k \in Kids[cur[u]] : ~InTree(k)
    BY <1>1, <2>1, KidsAndParents DEF InTree
  <2>3. /\ xlock'[cur[u]] = u /\ cur[u] \notin expanded' /\ cur[u] \notin cand'
    BY <1>1, <2>1
  <2>4. Kids[cur[u]] \subseteq todo[u] \cup dead' \cup cand'
    BY <2>1, <2>2 DEF Keeps
  <2>5. Kids[cur[u]] \subseteq todo[u] \cup made'
    BY <2>1 DEF Keeps
  <2>. QED
    BY <1>1, <1>2, <1>4, <2>3, <2>4, <2>5 DEF Keeps, TreeCursor, InTree, Rollout
<1>. QED
  BY <1>3, <1>4

(***************************************************************************)
(* Most steps leave the candidates, the locks and `expanded' alone.        *)
(***************************************************************************)
LEMMA TreeFrame ==
    ASSUME TypeInv, TypeInv', TreeInv, NEW t \in Thread, Keeps(t),
           UNCHANGED <<cand, expanded, xlock>>, TreeCursor(t)',
           pc[t] \in {"xvisit", "xstore"} => cur'[t] = cur[t] /\ pc'[t] \in {"xvisit", "xstore"}
    PROVE  TreeInv'
<1>1. \A u \in Thread : TreeCursor(u)'
  BY OtherCursor DEF TypeInv, TypeOK
<1>2. \A n \in Node, u \in Thread :
         xlock'[n] = u => cur'[u] = n /\ pc'[u] \in {"xvisit", "xstore"}
  BY DEF TreeInv, Keeps
<1>3. \A n : InTree(n)' <=> InTree(n)
  BY DEF InTree
<1>4. \A n \in expanded' : InTree(n)' /\ Kids[n] \subseteq made' /\ n \notin cand'
  BY <1>3 DEF TreeInv, Keeps
<1>5. \A n \in Node : InTree(n)' /\ n \notin expanded' /\ xlock'[n] = None /\ n \notin dead'
                         => n \in cand'
  BY <1>3 DEF TreeInv, Keeps
<1>. QED
  BY <1>1, <1>2, <1>4, <1>5 DEF TreeInv

LEMMA ThreadTree ==
    ASSUME TypeInv, TypeInv', TreeInv, NEW t \in Thread, ThreadNext(t)
    PROVE  TreeInv'
<1>t. TypeOK /\ CursorTyped(t) /\ TreeCursor(t) /\ Keeps(t) /\ cur[t] \in Node
  BY ThreadKeeps DEF TypeInv, TypeOK, TreeInv
<1>f. \A x : /\ [pc EXCEPT ![t] = x][t] = x /\ [todo EXCEPT ![t] = x][t] = x
            /\ [seen EXCEPT ![t] = x][t] = x /\ [base EXCEPT ![t] = x][t] = x
            /\ [cur EXCEPT ![t] = x][t] = x
  BY <1>t DEF TypeOK
<1>k. todo[t] # {} => NextKid(todo[t]) \in todo[t]
  BY NextKidIn DEF TypeInv, TypeOK
<1>s. ASSUME UNCHANGED <<cand, expanded, xlock>>, TreeCursor(t)',
             pc[t] \notin {"xvisit", "xstore"}
      PROVE  TreeInv'
  BY <1>t, <1>s, TreeFrame
<1>e. /\ \A n \in expanded : n \in Node /\ InTree(n)
      /\ None \notin Node
  BY <1>t, TreeAssumption DEF TreeInv, TypeOK
<1>d. ASSUME DeadEnd(t), pc[t] \in {"walk", "wloop", "iloop"}, UNCHANGED <<cand, expanded, xlock>>
      PROVE  TreeInv'
  <2>1. CASE Backtrack /\ cur[t] # Root
    <3>1. CASE cur[t] = base[t] \/ base[t] = None
      <4>1. pc'[t] = "iloop" /\ base'[t] = None /\ cur'[t] = Parent[cur[t]]
        BY <1>d, <1>f, <2>1, <3>1 DEF DeadEnd, Goto
      <4>2. cur[t] \in expanded
        BY <1>d, <1>t, <1>e, <3>1 DEF TreeCursor, Rollout
      <4>3. Parent[cur[t]] \in expanded
        BY <4>2, <1>e, <2>1 DEF InTree
      <4>. QED
        BY <1>d, <1>s, <4>1, <4>3 DEF TreeCursor, Rollout, Expanding
    <3>2. CASE cur[t] # base[t] /\ base[t] # None
      <4>1. pc'[t] = "wloop" /\ base'[t] = base[t]
        BY <1>d, <1>f, <2>1, <3>2 DEF DeadEnd, Goto
      <4>2. base[t] \in expanded
        BY <1>d, <1>t, <3>2 DEF TreeCursor, Rollout
      <4>. QED
        BY <1>d, <1>s, <4>1, <4>2 DEF TreeCursor, Rollout, Expanding
    <3>. QED
      BY <3>1, <3>2
  <2>2. CASE ~(Backtrack /\ cur[t] # Root)
    <3>1. pc'[t] = "start" /\ base'[t] = None
      BY <1>d, <1>f, <2>2 DEF DeadEnd, Goto, Home
    <3>. QED
      BY <1>d, <1>s, <3>1 DEF TreeCursor, Rollout, Expanding
  <2>. QED
    BY <2>1, <2>2
<1>. USE DEF Goto, Ready, treeVars, globVars, scanVars, curVars, InTree, Rollout, Expanding
<1>1. CASE Clear(t)
  <2>1. /\ pend[t] \in dead /\ cand' = cand \ {pend[t]} /\ UNCHANGED <<expanded, xlock, dead, made>>
        /\ UNCHANGED <<pc, cur, base, todo, seen, fresh>>
    BY <1>1, <1>t DEF Clear, Taken, CursorTyped
  <2>2. \A u \in Thread \ {t} : TreeCursor(u)'
    BY <1>t, <2>1, OtherCursor
  <2>3. TreeCursor(t)'
    BY <1>t, <2>1 DEF TreeCursor
  <2>. QED
    BY <2>1, <2>2, <2>3 DEF TreeInv
<1>2. CASE ReadCut(t)
  BY <1>2, <1>f, <1>t, <1>s DEF ReadCut, TreeCursor, CursorTyped, AtRoot
<1>3. CASE ReadEpoch(t)
  BY <1>3, <1>f, <1>t, <1>s DEF ReadEpoch, TreeCursor, CursorTyped, AtRoot
<1>4. CASE CutRoot(t)
  BY <1>4, <1>f, <1>t, <1>s DEF CutRoot, CutNode, TreeCursor
<1>5. CASE RootExpanded(t)
  BY <1>5, <1>f, <1>t, <1>s DEF RootExpanded, TreeCursor, CursorTyped, AtRoot
<1>6. CASE ExpandCheck(t)
  BY <1>6, <1>f, <1>t, <1>s DEF ExpandCheck, CutNode, Unexpandable, TreeCursor
<1>7. CASE ExpandLock(t)
  <2>. DEFINE n == cur[t]
  <2>1. CASE /\ Goto(t, Unexpandable(t)) \/ Goto(t, "panic")
             /\ UNCHANGED <<cand, xlock, todo>>
    <3>1. pc'[t] \in {"enter", "retry", "panic"} /\ pc[t] = "xlock"
      BY <1>7, <2>1, <1>f, <1>t DEF ExpandLock, Unexpandable, TypeOK
    <3>2. pc'[t] = "retry" => cur'[t] = cur[t]
      BY <1>7 DEF ExpandLock
    <3>. QED
      BY <1>7, <2>1, <3>1, <3>2, <1>t, <1>s DEF ExpandLock, TreeCursor
  <2>2. CASE /\ ~Beaten(n) /\ cand' = Taken(n) /\ xlock' = [xlock EXCEPT ![n] = t]
             /\ todo' = [todo EXCEPT ![t] = Kids[n]] /\ Goto(t, "xvisit")
    <3>1. /\ n \notin expanded /\ cand' = cand \ {n} /\ xlock'[n] = t
          /\ \A m \in Node \ {n} : xlock'[m] = xlock[m]
          /\ xlock[n] = None /\ todo'[t] = Kids[n] /\ pc'[t] = "xvisit" /\ cur' = cur
          /\ UNCHANGED <<expanded, dead, made, base>> /\ pc[t] = "xlock"
      BY <1>7, <2>2, <1>f, <1>t DEF ExpandLock, Beaten, Taken, TypeOK
    <3>2. InTree(n)
      BY <3>1, <1>t DEF TreeCursor
    <3>3. TreeCursor(t)'
      BY <1>t, <3>1, <3>2 DEF TreeCursor
    <3>4. \A u \in Thread \ {t} : TreeCursor(u)'
      <4>. SUFFICES ASSUME NEW u \in Thread \ {t} PROVE TreeCursor(u)'
        OBVIOUS
      <4>1. \A m \in Node : xlock[m] = u => xlock'[m] = u
        BY <3>1, TreeAssumption
      <4>. QED
        BY <1>t, <3>1, <3>2, <4>1, OtherCursor
    <3>5. \A m \in Node, u \in Thread :
            xlock'[m] = u => cur'[u] = m /\ pc'[u] \in {"xvisit", "xstore"}
      BY <1>t, <3>1 DEF TreeInv, Keeps
    <3>6. \A m \in Node : InTree(m)' /\ m \notin expanded' /\ xlock'[m] = None /\ m \notin dead'
                         => m \in cand'
      BY <3>1, TreeAssumption DEF TreeInv
    <3>7. \A m \in expanded' : InTree(m)' /\ Kids[m] \subseteq made' /\ m \notin cand'
      BY <3>1 DEF TreeInv
    <3>. QED
      BY <3>3, <3>4, <3>5, <3>6, <3>7 DEF TreeInv
  <2>. QED
    BY <1>7, <2>1, <2>2 DEF ExpandLock
<1>8. CASE ExpandVisit(t)
  <2>. DEFINE k == NextKid(todo[t])
  <2>1. /\ k \in todo[t] /\ Visit(t, k) /\ pc[t] = "xvisit"
        /\ UNCHANGED <<cand, expanded, xlock, cur, base>>
    BY <1>8, <1>k DEF ExpandVisit
  <2>2. k \in made' /\ made \subseteq made' /\ dead \subseteq dead'
    BY <2>1, <1>t DEF Visit, Create, Keeps
  <2>3. \/ pc'[t] = "xstore" /\ todo'[t] = todo[t]
        \/ k \in dead' /\ todo'[t] = todo[t] \ {k} /\ pc'[t] = "xvisit"
    BY <1>8, <1>f, <2>1 DEF ExpandVisit, Yields
  <2>4. TreeCursor(t)'
    BY <1>t, <2>1, <2>2, <2>3 DEF TreeCursor
  <2>. QED
    BY <1>t, <2>1, <2>3, <2>4, TreeFrame
<1>9. CASE ExpandStore(t)
  <2>. DEFINE k == NextKid(todo[t])
  <2>1. /\ k \in todo[t] /\ k \in Kids[cur[t]] /\ k \in made /\ pc[t] = "xstore" /\ pc'[t] = "xvisit"
        /\ cand' = cand \cup {k} /\ todo'[t] = todo[t] \ {k}
        /\ UNCHANGED <<expanded, xlock, made, dead, cur, base>>
    BY <1>9, <1>f, <1>k, <1>t DEF ExpandStore, CursorTyped, Scanning
  <2>2. ~InTree(k) /\ k # cur[t]
    <3>1. cur[t] \notin expanded /\ InTree(cur[t])
      BY <1>t, <2>1 DEF TreeCursor
    <3>2. Parent[k] = cur[t] /\ k # Root
      BY <1>t, <2>1, KidsAndParents
    <3>. QED
      BY <3>1, <3>2
  <2>3. \A u \in Thread \ {t} : TreeCursor(u)'
    BY <1>t, <2>1, <2>2, OtherCursor
  <2>4. TreeCursor(t)'
    BY <1>t, <2>1, <2>2 DEF TreeCursor
  <2>5. k \notin expanded
    BY <2>2 DEF TreeInv
  <2>6. \A m \in Node, u \in Thread :
            xlock'[m] = u => cur'[u] = m /\ pc'[u] \in {"xvisit", "xstore"}
    BY <1>t, <2>1 DEF TreeInv, Keeps
  <2>. QED
    BY <2>1, <2>3, <2>4, <2>5, <2>6 DEF TreeInv
<1>10. CASE ExpandDone(t)
  <2>. DEFINE n == cur[t]
  <2>1. /\ todo[t] = {} /\ pc[t] = "xvisit" /\ pc'[t] = "walk" /\ base'[t] = n
        /\ expanded' = expanded \cup {n} /\ xlock'[n] = None
        /\ \A m \in Node \ {n} : xlock'[m] = xlock[m]
        /\ UNCHANGED <<cand, made, dead, cur>>
    BY <1>10, <1>f, <1>t DEF ExpandDone, TypeOK
  <2>2. /\ xlock[n] = t /\ n \notin expanded /\ n \notin cand /\ InTree(n)
        /\ Kids[n] \subseteq made /\ Kids[n] \subseteq dead \cup cand
    BY <1>t, <2>1 DEF TreeCursor
  <2>3. TreeCursor(t)'
    BY <2>1 DEF TreeCursor
  <2>4. \A u \in Thread \ {t} : TreeCursor(u)'
    <3>. SUFFICES ASSUME NEW u \in Thread \ {t} PROVE TreeCursor(u)'
      OBVIOUS
    <3>1. \A m \in Node : xlock[m] = u => xlock'[m] = u /\ (m \in expanded' => m \in expanded)
      BY <2>1, <2>2
    <3>. QED
      BY <1>t, <2>1, <3>1, OtherCursor
  <2>5. \A m \in Node, u \in Thread :
            xlock'[m] = u => cur'[u] = m /\ pc'[u] \in {"xvisit", "xstore"}
    <3>. SUFFICES ASSUME NEW m \in Node, NEW u \in Thread, xlock'[m] = u
                  PROVE  cur'[u] = m /\ pc'[u] \in {"xvisit", "xstore"}
      OBVIOUS
    <3>1. m # n /\ xlock[m] = u
      BY <2>1, TreeAssumption
    <3>2. u # t
      BY <3>1 DEF TreeInv
    <3>. QED
      BY <1>t, <3>1, <3>2 DEF TreeInv, Keeps
  <2>6. \A m \in Node : InTree(m)' /\ m \notin expanded' /\ xlock'[m] = None /\ m \notin dead'
                         => m \in cand'
    <3>. SUFFICES ASSUME NEW m \in Node, InTree(m)', m \notin expanded', xlock'[m] = None,
                         m \notin dead
                  PROVE  m \in cand
      BY <2>1
    <3>1. CASE InTree(m)
      BY <2>1, <3>1 DEF TreeInv
    <3>2. CASE ~InTree(m)
      <4>1. m # Root /\ Parent[m] = n
        BY <2>1, <3>2
      <4>. QED
        BY <2>2, <4>1, KidsAndParents
    <3>. QED
      BY <3>1, <3>2
  <2>7. \A m \in expanded' : InTree(m)' /\ Kids[m] \subseteq made' /\ m \notin cand'
    BY <2>1, <2>2 DEF TreeInv
  <2>. QED
    BY <2>3, <2>4, <2>5, <2>6, <2>7 DEF TreeInv
<1>11. CASE CheckStop(t, "wloop", "wscan")
  <2>0. pc[t] = "wloop" /\ UNCHANGED <<cand, expanded, xlock>>
    BY <1>11 DEF CheckStop
  <2>1. CASE DeadEnd(t)
    BY <1>d, <2>0, <2>1
  <2>2. CASE Goto(t, "done") /\ Home(t)
    BY <1>f, <1>s, <2>0, <2>2 DEF Home, TreeCursor
  <2>3. CASE Goto(t, "wscan") /\ UNCHANGED <<cur, base, seen>>
    BY <1>f, <1>t, <1>s, <2>0, <2>3 DEF TreeCursor, CursorTyped
  <2>. QED
    BY <1>11, <2>1, <2>2, <2>3 DEF CheckStop
<1>12. CASE WalkEnter(t)
  <2>0. pc[t] = "walk" /\ UNCHANGED <<cand, expanded, xlock>>
    BY <1>12 DEF WalkEnter
  <2>1. CASE DeadEnd(t)
    BY <1>d, <2>0, <2>1
  <2>2. CASE (Goto(t, "wloop") \/ Goto(t, "found")) /\ UNCHANGED <<cur, base>>
    BY <1>f, <1>t, <1>s, <2>0, <2>2 DEF TreeCursor
  <2>. QED
    BY <1>12, <2>1, <2>2 DEF WalkEnter
<1>13. CASE Found(t)
  BY <1>13, <1>f, <1>s DEF Found, Home, TreeCursor
<1>14. CASE WalkVisit(t)
  BY <1>14, <1>t, <1>s DEF WalkVisit, TreeCursor
<1>15. CASE WalkPick(t)
  <2>1. /\ pc[t] = "wscan" /\ pc'[t] \in {"walk", "wloop", "panic"} /\ base' = base
        /\ UNCHANGED <<cand, expanded, xlock>>
    BY <1>15, <1>f DEF WalkPick, NoChild
  <2>. QED
    BY <1>s, <1>t, <2>1 DEF TreeCursor
<1>16. CASE CheckStop(t, "iloop", "iscan")
  <2>0. pc[t] = "iloop" /\ UNCHANGED <<cand, expanded, xlock>>
    BY <1>16 DEF CheckStop
  <2>1. CASE DeadEnd(t)
    BY <1>d, <2>0, <2>1
  <2>2. CASE Goto(t, "done") /\ Home(t)
    BY <1>f, <1>s, <2>0, <2>2 DEF Home, TreeCursor
  <2>3. CASE Goto(t, "iscan") /\ UNCHANGED <<cur, base, seen>>
    BY <1>f, <1>t, <1>s, <2>0, <2>3 DEF TreeCursor, CursorTyped
  <2>. QED
    BY <1>16, <2>1, <2>2, <2>3 DEF CheckStop
<1>17. CASE Enter(t)
  BY <1>17, <1>f, <1>t, <1>s DEF Enter, TreeCursor
<1>18. CASE TreeVisit(t)
  <2>1. /\ pc[t] = "iscan" /\ pc'[t] \in {"iscan", "panic"}
        /\ UNCHANGED <<cand, expanded, xlock, cur, base>>
    BY <1>18, <1>f DEF TreeVisit, CutNode
  <2>2. seen'[t] \subseteq seen[t] \cup expanded
    BY <1>18, <1>f DEF TreeVisit
  <2>. QED
    BY <1>s, <1>t, <2>1, <2>2 DEF TreeCursor
<1>19. CASE TreePick(t)
  <2>1. /\ pc[t] = "iscan" /\ UNCHANGED <<cand, expanded, xlock, base>>
        /\ pc'[t] \in {"expand", "enter", "iloop", "panic"}
        /\ pc'[t] = "iloop" => cur'[t] = cur[t]
    BY <1>19, <1>f, <1>t DEF TreePick, NoChild, TypeOK
  <2>2. pc'[t] = "expand" => cur'[t] \in fresh[t]
    BY <1>19, <1>f, <1>t DEF TreePick, NoChild, PickChild, TypeOK
  <2>3. cur[t] \in expanded /\ fresh[t] \subseteq Kids[cur[t]]
    BY <1>t, <2>1 DEF TreeCursor, CursorTyped
  <2>4. pc'[t] = "expand" => InTree(cur'[t])
    BY <1>t, <2>2, <2>3, KidsAndParents
  <2>. QED
    BY <1>s, <1>t, <2>1, <2>3, <2>4 DEF TreeCursor
<1>20. CASE Retry(t)
  BY <1>20, <1>f, <1>t, <1>s DEF Retry, TreeCursor, CursorTyped
<1>. QED
  BY <1>1, <1>2, <1>3, <1>4, <1>5, <1>6, <1>7, <1>8, <1>9, <1>10, <1>11, <1>12, <1>13,
     <1>14, <1>15, <1>16, <1>17, <1>18, <1>19, <1>20 DEF ThreadNext

LEMMA TreeStep == TypeInv /\ TypeInv' /\ TreeInv /\ [Next]_vars => TreeInv'
<1>. SUFFICES ASSUME TypeInv, TypeInv', TreeInv, [Next]_vars PROVE TreeInv'
  OBVIOUS
<1>1. CASE \E t \in Thread : ThreadNext(t)
  BY <1>1, ThreadTree
<1>2. CASE UNCHANGED <<treeVars, scanVars, curVars, pc>>
  BY <1>2 DEF TreeInv, TreeCursor, InTree, treeVars, scanVars, curVars
<1>3. CASE RestartReset
  <2>1. /\ expanded' = {} /\ cand' = {Root} /\ \A t \in Thread : pc[t] = "idle"
        /\ UNCHANGED <<xlock, pc, cur, base>>
    BY <1>3 DEF RestartReset, Reset, TypeInv, curVars
  <2>2. \A n : InTree(n)' => n = Root
    BY <2>1 DEF InTree
  <2>3. \A t \in Thread : TreeCursor(t)'
    BY <2>1 DEF TreeInv, TreeCursor, Rollout, Expanding
  <2>. QED
    BY <2>1, <2>2, <2>3 DEF TreeInv
<1>4. CASE CommitCheck \/ Backpropagate \/ NewBest \/ StopExploration \/ RestartBump
  BY <1>2, <1>4 DEF CommitCheck, Backpropagate, NewBest, StopExploration, RestartBump
<1>5. CASE UNCHANGED vars
  BY <1>2, <1>5 DEF vars
<1>. QED
  BY <1>1, <1>3, <1>4, <1>5 DEF Next, MonitorNext

LEMMA TreeSound == Spec => [](TypeInv /\ DeadInv /\ TreeInv)
<1>1. Init => TypeInv /\ DeadInv /\ TreeInv
  BY TypeInit, DeadInit, TreeInit
<1>2. TypeInv /\ DeadInv /\ TreeInv /\ [Next]_vars => (TypeInv /\ DeadInv /\ TreeInv)'
  BY TypeStep, DeadStep, TreeStep
<1>. QED
  BY <1>1, <1>2, PTL DEF Spec

(***************************************************************************)
(* A node is expanded once, by the thread that took its candidate under    *)
(* the write lock, after it created all the children; a restart forgets    *)
(* the whole explicit tree at once.                                        *)
(***************************************************************************)
THEOREM TreeIsExplicit == Spec => []ExplicitTree
<1>1. TreeInv => ExplicitTree
  BY DEF TreeInv, ExplicitTree
<1>. QED
  BY <1>1, TreeSound, PTL

-----------------------------------------------------------------------------
(* The assertions of the descent.                                           *)

\* The store is never restarted, and the root has something to decide.
PlainStore == MaxRestart = 0 /\ Kids[Root] # {}

LEMMA StartInit == Init => StartInv /\ NoPanic
  BY DEF Init, StartInv, NoPanic, Early, AtRoot

(***************************************************************************)
(* Until the root is expanded every cursor is on it, with the initial cut. *)
(***************************************************************************)
LEMMA EarlyStep ==
    ASSUME TypeInv, TypeInv', TreeInv, StartInv, Root \notin expanded', NEW t \in Thread, ThreadNext(t)
    PROVE  /\ mail' = {} /\ (Root \in dead' => Bound[Root] >= InitCut)
           /\ ccut'[t] = InitCut /\ cur'[t] = Root /\ pc'[t] \in Early
           /\ pc'[t] \in Early \ {"idle", "start", "epoch", "root", "done"} => Below(Root, InitCut)
<1>t. TypeOK /\ CursorTyped(t) /\ Root \notin expanded
  BY ThreadKeeps DEF TypeInv, Keeps
<1>s. /\ cut = InitCut /\ mail = {} /\ (Root \in dead => Bound[Root] >= InitCut)
      /\ ccut[t] = InitCut /\ cur[t] = Root /\ pc[t] \in Early
      /\ pc[t] \in Early \ {"idle", "start", "epoch", "root", "done"} => Below(Root, InitCut)
  BY <1>t DEF StartInv
<1>b. InitCut \in Nat /\ Bound[Root] \in Nat
  BY BoundsAndCuts, KidsAndParents
<1>p. pc[t] = "xlock" /\ xlock[Root] = None /\ Root \notin dead => Root \in cand
  BY <1>t, KidsAndParents DEF TreeInv, InTree
<1>f. \A x : /\ [pc EXCEPT ![t] = x][t] = x /\ [ccut EXCEPT ![t] = x][t] = x
  BY <1>t DEF TypeOK
<1>. USE <1>s, <1>b, <1>f DEF Goto, Ready, Early, AtRoot, treeVars, curVars, Below
<1>1. CASE Clear(t)
  BY <1>1, <1>t DEF Clear, Taken, CursorTyped
<1>2. CASE ReadCut(t)
  BY <1>2, <1>t DEF ReadCut, CursorTyped
<1>3. CASE ReadEpoch(t)
  BY <1>3, <1>t DEF ReadEpoch, CursorTyped
<1>4. CASE CutRoot(t)
  BY <1>4 DEF CutRoot, CutNode, Kill, Live
<1>5. CASE RootExpanded(t)
  BY <1>5, <1>t DEF RootExpanded, CursorTyped
<1>6. CASE ExpandCheck(t)
  <2>1. Live(Root) /\ Below(Root, ccut[t])
    BY <1>6 DEF ExpandCheck, Live
  <2>2. Goto(t, "xlock") /\ UNCHANGED <<dead, pend>>
    BY <1>6, <1>t, <2>1 DEF ExpandCheck, CutNode
  <2>. QED
    BY <1>6, <2>2 DEF ExpandCheck
<1>7. CASE ExpandLock(t)
  <2>1. Live(Root) /\ Below(Root, InitCut)
    BY <1>7 DEF ExpandLock, Live
  <2>2. pc'[t] \in {"xvisit", "panic"}
    BY <1>7, <1>t, <2>1 DEF ExpandLock, Beaten
  <2>3. pc'[t] # "panic"
    BY <1>7, <1>t, <2>1, <1>p DEF ExpandLock, Beaten
  <2>. QED
    BY <1>7, <2>1, <2>2, <2>3 DEF ExpandLock
<1>8. CASE ExpandVisit(t)
  <2>. DEFINE k == NextKid(todo[t])
  <2>1. k \in Kids[Root]
    BY <1>8, <1>t, NextKidIn DEF ExpandVisit, TypeOK, CursorTyped, Scanning
  <2>2. k # Root /\ Visit(t, k)
    BY <1>8, <2>1, KidsAndParents DEF ExpandVisit
  <2>3. Root \in dead' => Root \in dead
    BY <2>2 DEF Visit, Create, Kill
  <2>4. pc'[t] \in {"xvisit", "xstore"}
    BY <1>8 DEF ExpandVisit
  <2>. QED
    BY <1>8, <2>3, <2>4 DEF ExpandVisit
<1>9. CASE ExpandStore(t)
  BY <1>9, <1>t DEF ExpandStore, CursorTyped
<1>10. CASE ExpandDone(t)
  BY <1>10 DEF ExpandDone
<1>11. CASE CheckStop(t, "wloop", "wscan")
  BY <1>11 DEF CheckStop
<1>12. CASE WalkEnter(t)
  BY <1>12 DEF WalkEnter
<1>13. CASE Found(t)
  BY <1>13 DEF Found
<1>14. CASE WalkVisit(t)
  BY <1>14 DEF WalkVisit
<1>15. CASE WalkPick(t)
  BY <1>15 DEF WalkPick
<1>16. CASE CheckStop(t, "iloop", "iscan")
  BY <1>16 DEF CheckStop
<1>17. CASE Enter(t)
  BY <1>17 DEF Enter
<1>18. CASE TreeVisit(t)
  BY <1>18 DEF TreeVisit
<1>19. CASE TreePick(t)
  BY <1>19 DEF TreePick
<1>20. CASE Retry(t)
  BY <1>20 DEF Retry
<1>. QED
  BY <1>1, <1>2, <1>3, <1>4, <1>5, <1>6, <1>7, <1>8, <1>9, <1>10, <1>11, <1>12, <1>13,
     <1>14, <1>15, <1>16, <1>17, <1>18, <1>19, <1>20 DEF ThreadNext

(***************************************************************************)
(* What a step of a thread leads to: an entered node is expanded and not   *)
(* an implementation, and no assertion fails.                              *)
(***************************************************************************)
LEMMA AssertionsHold ==
    ASSUME PlainStore, TypeInv, TypeInv', DeadInv, TreeInv, StartInv, NoPanic,
           NEW t \in Thread, ThreadNext(t)
    PROVE  pc'[t] # "panic" /\ (pc'[t] = "enter" => cur'[t] \in expanded' /\ cur'[t] \notin Impl)
<1>t. /\ TypeOK /\ CursorTyped(t) /\ TreeCursor(t) /\ ScanSound(t) /\ pc[t] # "panic"
      /\ expanded \subseteq expanded'
  BY ThreadKeeps DEF TypeInv, TreeInv, DeadInv, Keeps, NoPanic
<1>f. \A x : /\ [pc EXCEPT ![t] = x][t] = x /\ [cur EXCEPT ![t] = x][t] = x
  BY <1>t DEF TypeOK
<1>r. Root \notin Impl
  BY DEF PlainStore, Impl
<1>e. pc[t] = "enter" => cur[t] \in expanded /\ cur[t] \notin Impl
  BY DEF StartInv
<1>b. Root \notin expanded /\ pc[t] \in {"expand", "xlock"} =>
         Root \notin dead /\ Below(Root, ccut[t])
  BY BoundsAndCuts, KidsAndParents DEF StartInv, Early, AtRoot, Below
<1>. USE <1>t, <1>f DEF Goto, Ready, treeVars, curVars
<1>1. CASE Clear(t)
  BY <1>1, <1>e DEF Clear
<1>2. CASE ReadCut(t)
  BY <1>2, <1>e DEF ReadCut
<1>3. CASE ReadEpoch(t)
  BY <1>3, <1>e DEF ReadEpoch
<1>4. CASE CutRoot(t)
  BY <1>4 DEF CutRoot, CutNode
<1>5. CASE RootExpanded(t)
  BY <1>5, <1>r DEF RootExpanded, CursorTyped, AtRoot
<1>6. CASE ExpandCheck(t)
  <2>1. pc'[t] # "panic" /\ UNCHANGED <<cur, expanded>>
    BY <1>6 DEF ExpandCheck, CutNode, Unexpandable
  <2>2. pc'[t] = "enter" => cur[t] = Root
    BY <1>6 DEF ExpandCheck, CutNode, Unexpandable
  <2>3. cur[t] = Root /\ Root \notin expanded => pc'[t] = "xlock"
    BY <1>6, <1>b DEF ExpandCheck, CutNode, Live
  <2>. QED
    BY <1>r, <2>1, <2>2, <2>3
<1>7. CASE ExpandLock(t)
  <2>1. pc[t] = "xlock" /\ xlock[cur[t]] = None /\ UNCHANGED <<cur, expanded>> /\ cur[t] \in Node
    BY <1>7 DEF ExpandLock, TypeOK
  <2>2. cur[t] \in cand \/ cur[t] \in dead \/ cur[t] \in expanded
    BY <2>1 DEF TreeInv, TreeCursor, Expanding
  <2>3. pc'[t] # "panic"
    BY <1>7, <2>2 DEF ExpandLock, Beaten, Live, Unexpandable
  <2>4. pc'[t] = "enter" => cur[t] = Root
    BY <1>7 DEF ExpandLock, Unexpandable
  <2>5. cur[t] = Root /\ Root \notin expanded => pc'[t] # "enter"
    BY <1>7, <1>b, <2>1, <2>2 DEF ExpandLock, Beaten
  <2>. QED
    BY <1>r, <2>1, <2>3, <2>4, <2>5
<1>8. CASE ExpandVisit(t)
  BY <1>8 DEF ExpandVisit
<1>9. CASE ExpandStore(t)
  BY <1>9, <1>e DEF ExpandStore
<1>10. CASE ExpandDone(t)
  BY <1>10, <1>e DEF ExpandDone
<1>11. CASE CheckStop(t, "wloop", "wscan")
  BY <1>11, DeadEndTyped DEF CheckStop
<1>12. CASE WalkEnter(t)
  BY <1>12, DeadEndTyped DEF WalkEnter
<1>13. CASE Found(t)
  BY <1>13 DEF Found
<1>14. CASE WalkVisit(t)
  BY <1>14, <1>e DEF WalkVisit
<1>15. CASE WalkPick(t)
  <2>1. PickChild(seen[t], ccut[t]) = seen[t]
    BY DEF ScanSound, PickChild
  <2>. QED
    BY <1>15, <2>1 DEF WalkPick, NoChild
<1>16. CASE CheckStop(t, "iloop", "iscan")
  BY <1>16, DeadEndTyped DEF CheckStop
<1>17. CASE Enter(t)
  BY <1>17, <1>e DEF Enter
<1>18. CASE TreeVisit(t)
  <2>. DEFINE k == NextKid(todo[t])
  <2>1. k \in made
    <3>1. k \in Kids[cur[t]] /\ cur[t] \in expanded
      BY <1>18, NextKidIn DEF TreeVisit, TypeOK, CursorTyped, TreeCursor, Scanning
    <3>. QED
      BY <3>1 DEF TreeInv
  <2>. QED
    BY <1>18, <2>1 DEF TreeVisit, CutNode
<1>19. CASE TreePick(t)
  <2>1. /\ PickChild(fresh[t], ccut[t]) = fresh[t] /\ PickChild(seen[t], ccut[t]) = seen[t]
        /\ PickChild(fresh[t] \cup seen[t], ccut[t]) = fresh[t] \cup seen[t]
    BY DEF ScanSound, PickChild
  <2>2. pc'[t] # "panic"
    BY <1>19, <2>1 DEF TreePick, NoChild
  <2>3. pc'[t] = "enter" => cur'[t] \in seen[t] \ Impl
    BY <1>19, <2>1 DEF TreePick, NoChild, TypeOK
  <2>4. seen[t] \subseteq expanded
    BY <1>19 DEF TreePick, TreeCursor
  <2>. QED
    BY <2>2, <2>3, <2>4
<1>20. CASE Retry(t)
  BY <1>20, <1>e DEF Retry
<1>. QED
  BY <1>1, <1>2, <1>3, <1>4, <1>5, <1>6, <1>7, <1>8, <1>9, <1>10, <1>11, <1>12, <1>13,
     <1>14, <1>15, <1>16, <1>17, <1>18, <1>19, <1>20 DEF ThreadNext

LEMMA StartStep ==
    ASSUME PlainStore, TypeInv, TypeInv', DeadInv, TreeInv, StartInv, NoPanic, [Next]_vars
    PROVE  StartInv' /\ NoPanic'
<1>1. CASE \E t \in Thread : ThreadNext(t)
  <2>. PICK t \in Thread : ThreadNext(t)
    BY <1>1
  <2>1. Keeps(t)
    BY ThreadKeeps DEF TypeInv
  <2>2. pc'[t] # "panic" /\ (pc'[t] = "enter" => cur'[t] \in expanded' /\ cur'[t] \notin Impl)
    BY AssertionsHold
  <2>3. /\ NoPanic'
        /\ \A u \in Thread : pc'[u] = "enter" => cur'[u] \in expanded' /\ cur'[u] \notin Impl
    BY <2>1, <2>2 DEF NoPanic, Keeps, StartInv
  <2>4. ASSUME Root \notin expanded'
        PROVE  /\ cut' = InitCut /\ mail' = {} /\ mpc' = "recv"
               /\ Root \in dead' => Bound[Root] >= InitCut
               /\ \A u \in Thread :
                    /\ ccut'[u] = InitCut /\ cur'[u] = Root /\ pc'[u] \in Early
                    /\ pc'[u] \in Early \ {"idle", "start", "epoch", "root", "done"} =>
                         Below(Root, InitCut)
    <3>1. Root \notin expanded
      BY <2>1, <2>4 DEF Keeps
    <3>2. /\ mail' = {} /\ (Root \in dead' => Bound[Root] >= InitCut)
          /\ ccut'[t] = InitCut /\ cur'[t] = Root /\ pc'[t] \in Early
          /\ pc'[t] \in Early \ {"idle", "start", "epoch", "root", "done"} => Below(Root, InitCut)
      BY <2>4, EarlyStep
    <3>. QED
      BY <2>1, <3>1, <3>2 DEF Keeps, StartInv
  <2>5. restart_id' = 0 /\ rpc' = "none"
    BY <2>1 DEF Keeps, StartInv
  <2>. QED
    BY <2>3, <2>4, <2>5 DEF StartInv, Below
<1>2. CASE /\ UNCHANGED <<treeVars, curVars, pc, restart_id, rpc>>
           /\ Root \notin expanded => UNCHANGED <<cut, mail, mpc>>
  BY <1>2 DEF StartInv, NoPanic, treeVars, curVars, Below
<1>3. CASE CommitCheck \/ Backpropagate \/ NewBest
  BY <1>2, <1>3 DEF StartInv, CommitCheck, Backpropagate, NewBest, globVars
<1>4. CASE StopExploration \/ UNCHANGED vars
  BY <1>2, <1>4 DEF StopExploration, vars, globVars, monVars
<1>5. ~RestartBump /\ ~RestartReset
  BY DEF StartInv, PlainStore, RestartBump, RestartReset
<1>. QED
  BY <1>1, <1>3, <1>4, <1>5 DEF Next, MonitorNext

(***************************************************************************)
(* Without restarts and with a choice to make at the root, no assertion or *)
(* expect of explore, expand, select_intree and the walker fails, in any   *)
(* interleaving of any number of threads.  Both hypotheses are needed: a   *)
(* restart leaves a dead root without its explicit tree, and a root that   *)
(* is an implementation fails the first assertion of select_intree.        *)
(***************************************************************************)
THEOREM DescentNeverPanics ==
    ASSUME PlainStore
    PROVE  Spec => []NoPanic
<1>1. Init => StartInv /\ NoPanic
  BY StartInit
<1>2. ASSUME TypeInv, TypeInv', DeadInv, TreeInv, StartInv, NoPanic, [Next]_vars
      PROVE  StartInv' /\ NoPanic'
  BY <1>2, PlainStore, StartStep
<1>. QED
  BY <1>1, <1>2, TreeSound, PTL DEF Spec
=============================================================================
