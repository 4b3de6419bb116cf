--------------------------- MODULE TreePolicyProofs ---------------------------
(***************************************************************************)
(* The tree policies at a node, for any number of threads and edges: round *)
(* robin stays balanced, and the statistics of TAG agree with the history. *)
(***************************************************************************)
EXTENDS TreePolicy, FiniteSetTheorems, WellFoundedInduction, TLAPS

-----------------------------------------------------------------------------
(* Sums and folds over finite sets.                                          *)

LEMMA LeastNatural ==
    ASSUME NEW S \in SUBSET Nat, S # {}
    PROVE  Min(S) \in S /\ \A m \in S : Min(S) <= m
<1>1. IsWellFoundedOn(OpToRel(<, Nat), Nat)
  BY NatLessThanWellFounded
<1>2. PICK n \in S : \A m \in S : ~(<<m, n>> \in OpToRel(<, Nat))
  BY <1>1, WFMin
<1>3. \A m \in S : ~(m < n)
  BY <1>2 DEF OpToRel
<1>4. \A m \in S : n <= m
  BY <1>3
<1>. QED
  BY <1>4 DEF Min

\* A recursive function over the subsets of a finite set exists: it is built up to one
\* cardinality after the other.
Chooses(S, ch) ==
    ch \in [SUBSET S -> S \cup {{}}] /\ \A T \in SUBSET S : T # {} => ch[T] \in T

FoldOf(S, base, op, ch, g) ==
    \A T \in SUBSET S : g[T] = IF T = {} THEN base ELSE op[ch[T], g[T \ {ch[T]}]]

LEMMA FoldExists ==
    ASSUME NEW S, IsFiniteSet(S), NEW B, NEW base \in B, NEW op \in [S \X B -> B],
           NEW ch, Chooses(S, ch)
    PROVE  \E g \in [SUBSET S -> B] : FoldOf(S, base, op, ch, g)
<1>h. ch \in [SUBSET S -> S \cup {{}}] /\ \A T \in SUBSET S : T # {} => ch[T] \in T
  BY DEF Chooses
<1>. DEFINE Val(g, T) == IF T = {} THEN base ELSE op[ch[T], g[T \ {ch[T]}]]
            Upto(n, g) == \A T \in SUBSET S : Cardinality(T) <= n => g[T] = Val(g, T)
            Bad == {n \in Nat : ~\E g \in [SUBSET S -> B] : Upto(n, g)}
<1>c. \A T \in SUBSET S : /\ IsFiniteSet(T) /\ Cardinality(T) \in Nat
                          /\ Cardinality(T) <= Cardinality(S) /\ (Cardinality(T) = 0 <=> T = {})
                          /\ \A x \in T : Cardinality(T \ {x}) = Cardinality(T) - 1
  BY FS_Subset, FS_CardinalityType, FS_EmptySet, FS_RemoveElement
<1>t. \A g \in [SUBSET S -> B], T \in SUBSET S : Val(g, T) \in B
  <2>. SUFFICES ASSUME NEW g \in [SUBSET S -> B], NEW T \in SUBSET S, T # {}
                PROVE  op[ch[T], g[T \ {ch[T]}]] \in B
    OBVIOUS
  <2>1. ch[T] \in S /\ g[T \ {ch[T]}] \in B
    BY <1>h
  <2>2. <<ch[T], g[T \ {ch[T]}]>> \in S \X B
    BY <2>1
  <2>. QED
    BY <2>2
<1>0. Bad \subseteq Nat
  OBVIOUS
<1>. HIDE DEF Bad
<1>1. Bad = {}
  <2>. SUFFICES ASSUME Bad # {} PROVE FALSE
    OBVIOUS
  <2>1. PICK n \in Bad : \A m \in Bad : n <= m
    BY <1>0, LeastNatural
  <2>2. CASE n = 0
    <3>. DEFINE h == [T \in SUBSET S |-> base]
    <3>1. ASSUME NEW T \in SUBSET S, Cardinality(T) <= 0 PROVE T = {}
      <4>1. Cardinality(T) \in Nat /\ (Cardinality(T) = 0 <=> T = {})
        BY <1>c
      <4>. QED
        BY <3>1, <4>1
    <3>2. h \in [SUBSET S -> B] /\ Upto(0, h)
      BY <3>1
    <3>. QED
      BY <2>1, <2>2, <3>2 DEF Bad
  <2>3. CASE n # 0
    <3>1. n \in Nat /\ n - 1 \in Nat /\ n - 1 \notin Bad
      BY <2>1, <2>3, <1>0
    <3>2. PICK g \in [SUBSET S -> B] : Upto(n - 1, g)
      BY <3>1 DEF Bad
    <3>. DEFINE h == [T \in SUBSET S |-> IF Cardinality(T) <= n - 1 THEN g[T] ELSE Val(g, T)]
    <3>3. h \in [SUBSET S -> B]
      BY <1>t
    <3>4. ASSUME NEW T \in SUBSET S, Cardinality(T) <= n PROVE h[T] = Val(h, T)
      <4>1. h[T] = Val(g, T)
        BY <3>2
      <4>2. T # {} => h[T \ {ch[T]}] = g[T \ {ch[T]}]
        <5>. SUFFICES ASSUME T # {} PROVE h[T \ {ch[T]}] = g[T \ {ch[T]}]
          OBVIOUS
        <5>1. /\ Cardinality(T \ {ch[T]}) = Cardinality(T) - 1 /\ Cardinality(T) \in Nat
              /\ T \ {ch[T]} \in SUBSET S
          BY <1>c, <1>h
        <5>2. Cardinality(T \ {ch[T]}) <= n - 1
          BY <3>1, <3>4, <5>1
        <5>. QED
          BY <5>1, <5>2
      <4>. QED
        BY <4>1, <4>2
    <3>. HIDE DEF h
    <3>. QED
      BY <2>1, <3>3, <3>4 DEF Bad
  <2>. QED
    BY <2>2, <2>3
<1>2. Cardinality(S) \in Nat
  BY <1>c
<1>3. PICK g \in [SUBSET S -> B] : Upto(Cardinality(S), g)
  BY <1>1, <1>2 DEF Bad
<1>. QED
  BY <1>3, <1>c DEF FoldOf

Pick(T) == CHOOSE x \in T : TRUE

\* g computes the sum of f over the subsets of S, an element at a time.
Sums(f, S, g) ==
    g = [T \in SUBSET S |-> IF T = {} THEN 0 ELSE f[Pick(T)] + g[T \ {Pick(T)}]]

LEMMA TotalIsSums ==
    ASSUME NEW f, NEW S
    PROVE  Total(f, S) = (CHOOSE g : Sums(f, S, g))[S]
BY DEF Total, MapThenSumSet, MapThenFoldSet, Sums, Pick

LEMMA SumsExist ==
    ASSUME NEW S, IsFiniteSet(S), NEW f, \A x \in S : f[x] \in Int
    PROVE  \E g \in [SUBSET S -> Int] : Sums(f, S, g)
<1>. DEFINE op == [p \in S \X Int |-> f[p[1]] + p[2]]
            ch == [T \in SUBSET S |-> IF T = {} THEN {} ELSE Pick(T)]
<1>p. \A T \in SUBSET S : T # {} => Pick(T) \in T
  BY DEF Pick
<1>1. op \in [S \X Int -> Int]
  OBVIOUS
<1>2. ch \in [SUBSET S -> S \cup {{}}] /\ \A T \in SUBSET S : T # {} => ch[T] \in T
  BY <1>p
<1>3. \A x \in S, v \in Int : op[x, v] = f[x] + v
  OBVIOUS
<1>4. \A T \in SUBSET S : T # {} => ch[T] = Pick(T)
  OBVIOUS
<1>. HIDE DEF op, ch
<1>5. PICK g \in [SUBSET S -> Int] : FoldOf(S, 0, op, ch, g)
  <2>1. 0 \in Int /\ Chooses(S, ch)
    BY <1>2 DEF Chooses
  <2>. QED
    BY <1>1, <2>1, FoldExists, Zenon
<1>6. ASSUME NEW T \in SUBSET S
      PROVE  g[T] = IF T = {} THEN 0 ELSE f[Pick(T)] + g[T \ {Pick(T)}]
  <2>1. CASE T = {}
    BY <1>5, <2>1 DEF FoldOf
  <2>2. CASE T # {}
    <3>1. Pick(T) \in S /\ g[T \ {Pick(T)}] \in Int /\ ch[T] = Pick(T)
      BY <1>p, <1>4, <2>2
    <3>. QED
      BY <1>3, <1>5, <2>2, <3>1 DEF FoldOf
  <2>. QED
    BY <2>1, <2>2
<1>. QED
  BY <1>6 DEF Sums

LEMMA SumsUnique ==
    ASSUME NEW S, IsFiniteSet(S), NEW f, NEW U, NEW g, NEW h, Sums(f, S, g), Sums(f, U, h),
           S \subseteq U
    PROVE  g[S] = h[S]
<1>. DEFINE Bad == {n \in Nat : \E T \in SUBSET S : Cardinality(T) = n /\ g[T] # h[T]}
<1>c. \A T \in SUBSET S : /\ IsFiniteSet(T) /\ Cardinality(T) \in Nat
                          /\ \A x \in T : Cardinality(T \ {x}) = Cardinality(T) - 1
  BY FS_Subset, FS_CardinalityType, FS_EmptySet, FS_RemoveElement
<1>p. \A T : T # {} => Pick(T) \in T
  BY DEF Pick
<1>0. Bad \subseteq Nat
  OBVIOUS
<1>1. ASSUME NEW T \in SUBSET S
      PROVE  /\ g[T] = IF T = {} THEN 0 ELSE f[Pick(T)] + g[T \ {Pick(T)}]
             /\ h[T] = IF T = {} THEN 0 ELSE f[Pick(T)] + h[T \ {Pick(T)}]
  BY DEF Sums
<1>. HIDE DEF Bad
<1>2. Bad = {}
  <2>. SUFFICES ASSUME Bad # {} PROVE FALSE
    OBVIOUS
  <2>1. PICK n \in Bad : \A m \in Bad : n <= m
    BY <1>0, LeastNatural
  <2>2. PICK T \in SUBSET S : Cardinality(T) = n /\ g[T] # h[T]
    BY <2>1 DEF Bad
  <2>3. T # {}
    BY <1>1, <2>2
  <2>4. /\ Pick(T) \in T /\ T \ {Pick(T)} \in SUBSET S
        /\ Cardinality(T \ {Pick(T)}) = n - 1 /\ n - 1 \in Nat /\ n \in Nat
    BY <1>c, <1>p, <2>2, <2>3
  <2>5. n - 1 \notin Bad
    BY <2>1, <2>4
  <2>6. g[T \ {Pick(T)}] = h[T \ {Pick(T)}]
    BY <2>4, <2>5 DEF Bad
  <2>. QED
    BY <1>1, <2>2, <2>3, <2>6
<1>. QED
  BY <1>2, <1>c DEF Bad

LEMMA TotalPick ==
    ASSUME NEW S, IsFiniteSet(S), NEW f, \A x \in S : f[x] \in Int
    PROVE  /\ Total(f, S) \in Int
           /\ S = {} => Total(f, S) = 0
           /\ S # {} => Total(f, S) = f[Pick(S)] + Total(f, S \ {Pick(S)})
<1>. DEFINE G(T) == CHOOSE g : Sums(f, T, g)
<1>1. PICK g \in [SUBSET S -> Int] : Sums(f, S, g)
  BY SumsExist
<1>2. \A T \in SUBSET S : Total(f, T) = g[T]
  <2>. SUFFICES ASSUME NEW T \in SUBSET S PROVE Total(f, T) = g[T]
    OBVIOUS
  <2>1. IsFiniteSet(T) /\ \A x \in T : f[x] \in Int
    BY FS_Subset
  <2>2. \E h : Sums(f, T, h)
    BY <2>1, SumsExist
  <2>3. Sums(f, T, G(T))
    BY <2>2
  <2>4. G(T)[T] = g[T]
    BY <1>1, <2>1, <2>3, SumsUnique
  <2>. QED
    BY <2>4, TotalIsSums
<1>3. g[S] = IF S = {} THEN 0 ELSE f[Pick(S)] + g[S \ {Pick(S)}]
  BY <1>1 DEF Sums
<1>. QED
  BY <1>1, <1>2, <1>3

\* A sum may start with any element of its set.
LEMMA TotalSplit ==
    ASSUME NEW S, IsFiniteSet(S), NEW f, \A x \in S : f[x] \in Int, NEW x \in S
    PROVE  Total(f, S) = f[x] + Total(f, S \ {x})
<1>. DEFINE Bad == {n \in Nat : \E T \in SUBSET S : \E y \in T :
                      Cardinality(T) = n /\ Total(f, T) # f[y] + Total(f, T \ {y})}
<1>c. \A T \in SUBSET S : /\ IsFiniteSet(T) /\ Cardinality(T) \in Nat
                          /\ \A y \in T : Cardinality(T \ {y}) = Cardinality(T) - 1
  BY FS_Subset, FS_CardinalityType, FS_EmptySet, FS_RemoveElement
<1>p. \A T : T # {} => Pick(T) \in T
  BY DEF Pick
<1>0. Bad \subseteq Nat
  OBVIOUS
<1>1. \A T \in SUBSET S : /\ Total(f, T) \in Int
                          /\ T # {} => Total(f, T) = f[Pick(T)] + Total(f, T \ {Pick(T)})
  <2>. SUFFICES ASSUME NEW T \in SUBSET S
                PROVE  /\ Total(f, T) \in Int
                       /\ T # {} => Total(f, T) = f[Pick(T)] + Total(f, T \ {Pick(T)})
    OBVIOUS
  <2>1. IsFiniteSet(T) /\ \A y \in T : f[y] \in Int
    BY <1>c
  <2>. QED
    BY <2>1, TotalPick
<1>. HIDE DEF Bad
<1>2. Bad = {}
  <2>. SUFFICES ASSUME Bad # {} PROVE FALSE
    OBVIOUS
  <2>1. PICK n \in Bad : \A m \in Bad : n <= m
    BY <1>0, LeastNatural
  <2>a. PICK T \in SUBSET S : \E y \in T :
            Cardinality(T) = n /\ Total(f, T) # f[y] + Total(f, T \ {y})
    BY <2>1 DEF Bad
  <2>2. PICK y \in T : Cardinality(T) = n /\ Total(f, T) # f[y] + Total(f, T \ {y})
    BY <2>a
  <2>. DEFINE c == Pick(T)
  <2>3. c \in T /\ Total(f, T) = f[c] + Total(f, T \ {c}) /\ c # y
    BY <1>1, <1>p, <2>2
  <2>. HIDE DEF c
  <2>4. /\ n \in Nat /\ n - 1 \in Nat
        /\ Cardinality(T \ {c}) = n - 1 /\ Cardinality(T \ {y}) = n - 1
    BY <1>c, <2>2, <2>3
  <2>5. n - 1 \notin Bad
    BY <2>1, <2>4
  <2>6. /\ Total(f, T \ {c}) = f[y] + Total(f, (T \ {c}) \ {y})
        /\ Total(f, T \ {y}) = f[c] + Total(f, (T \ {y}) \ {c})
    BY <2>2, <2>3, <2>4, <2>5 DEF Bad
  <2>7. Total(f, (T \ {c}) \ {y}) = Total(f, (T \ {y}) \ {c})
    <3>1. (T \ {c}) \ {y} = (T \ {y}) \ {c}
      OBVIOUS
    <3>. QED
      BY <3>1, Zenon
  <2>8. f[c] \in Int /\ f[y] \in Int /\ Total(f, (T \ {y}) \ {c}) \in Int
    BY <1>1, <2>2, <2>3
  <2>. QED
    BY <2>2, <2>3, <2>6, <2>7, <2>8
<1>3. Cardinality(S) \in Nat /\ Cardinality(S) \notin Bad
  BY <1>2, <1>c
<1>. QED
  BY <1>3 DEF Bad
\* Sums grow with their terms.
LEMMA TotalMono ==
    ASSUME NEW S, IsFiniteSet(S), NEW f, NEW g,
           \A x \in S : f[x] \in Int /\ g[x] \in Int /\ f[x] <= g[x]
    PROVE  Total(f, S) <= Total(g, S)
<1>. DEFINE Bad == {n \in Nat : \E T \in SUBSET S : Cardinality(T) = n /\ ~(Total(f, T) <= Total(g, T))}
<1>c. \A T \in SUBSET S : /\ IsFiniteSet(T) /\ Cardinality(T) \in Nat
                          /\ \A y \in T : Cardinality(T \ {y}) = Cardinality(T) - 1
  BY FS_Subset, FS_CardinalityType, FS_EmptySet, FS_RemoveElement
<1>p. \A T : T # {} => Pick(T) \in T
  BY DEF Pick
<1>0. Bad \subseteq Nat
  OBVIOUS
<1>. HIDE DEF Bad
<1>2. Bad = {}
  <2>. SUFFICES ASSUME Bad # {} PROVE FALSE
    OBVIOUS
  <2>1. PICK n \in Bad : \A m \in Bad : n <= m
    BY <1>0, LeastNatural
  <2>2. PICK T \in SUBSET S : Cardinality(T) = n /\ ~(Total(f, T) <= Total(g, T))
    BY <2>1 DEF Bad
  <2>3. /\ Total(f, T) \in Int /\ Total(g, T) \in Int
        /\ T = {} => Total(f, T) = 0 /\ Total(g, T) = 0
        /\ T # {} => Total(f, T) = f[Pick(T)] + Total(f, T \ {Pick(T)})
        /\ T # {} => Total(g, T) = g[Pick(T)] + Total(g, T \ {Pick(T)})
    BY <1>c, TotalPick
  <2>4. T # {}
    BY <2>2, <2>3
  <2>. DEFINE c == Pick(T)
              U == T \ {c}
  <2>5. c \in T /\ c \in S /\ U \in SUBSET S
    BY <1>p, <2>4
  <2>6. n \in Nat /\ n - 1 \in Nat /\ Cardinality(U) = n - 1
    BY <1>c, <2>2, <2>5
  <2>7. n - 1 \notin Bad
    BY <2>1, <2>6
  <2>8. Total(f, U) <= Total(g, U)
    BY <2>5, <2>6, <2>7 DEF Bad
  <2>9. Total(f, U) \in Int /\ Total(g, U) \in Int
    BY <1>c, <2>5, TotalPick
  <2>10. /\ Total(f, T) = f[c] + Total(f, U) /\ Total(g, T) = g[c] + Total(g, U)
         /\ f[c] \in Int /\ g[c] \in Int /\ f[c] <= g[c]
    BY <2>3, <2>4, <2>5
  <2>. HIDE DEF c, U
  <2>. QED
    BY <2>2, <2>8, <2>9, <2>10
<1>3. Cardinality(S) \in Nat /\ Cardinality(S) \notin Bad
  BY <1>2, <1>c
<1>. QED
  BY <1>3 DEF Bad

LEMMA TotalNat ==
    ASSUME NEW S, IsFiniteSet(S), NEW f, \A x \in S : f[x] \in Nat
    PROVE  /\ Total(f, S) \in Nat
           /\ \A x \in S : f[x] <= Total(f, S)
<1>. DEFINE Bad == {n \in Nat : \E T \in SUBSET S : Cardinality(T) = n /\ Total(f, T) \notin Nat}
<1>c. \A T \in SUBSET S : /\ IsFiniteSet(T) /\ Cardinality(T) \in Nat
                          /\ \A y \in T : Cardinality(T \ {y}) = Cardinality(T) - 1
  BY FS_Subset, FS_CardinalityType, FS_EmptySet, FS_RemoveElement
<1>p. \A T : T # {} => Pick(T) \in T
  BY DEF Pick
<1>0. Bad \subseteq Nat
  OBVIOUS
<1>. HIDE DEF Bad
<1>2. Bad = {}
  <2>. SUFFICES ASSUME Bad # {} PROVE FALSE
    OBVIOUS
  <2>1. PICK n \in Bad : \A m \in Bad : n <= m
    BY <1>0, LeastNatural
  <2>2. PICK T \in SUBSET S : Cardinality(T) = n /\ Total(f, T) \notin Nat
    BY <2>1 DEF Bad
  <2>3. /\ T = {} => Total(f, T) = 0
        /\ T # {} => Total(f, T) = f[Pick(T)] + Total(f, T \ {Pick(T)})
    <3>1. IsFiniteSet(T) /\ \A x \in T : f[x] \in Int
      BY <1>c
    <3>. QED
      BY <3>1, TotalPick
  <2>4. T # {}
    BY <2>2, <2>3
  <2>5. Pick(T) \in T /\ T \ {Pick(T)} \in SUBSET S
    BY <1>p, <2>4
  <2>6. n \in Nat /\ n - 1 \in Nat /\ Cardinality(T \ {Pick(T)}) = n - 1
    BY <1>c, <2>2, <2>5
  <2>7. n - 1 \notin Bad
    BY <2>1, <2>6
  <2>8. Total(f, T \ {Pick(T)}) \in Nat
    BY <2>5, <2>6, <2>7 DEF Bad
  <2>. QED
    BY <2>2, <2>3, <2>4, <2>5, <2>8
<1>3. \A T \in SUBSET S : Total(f, T) \in Nat
  BY <1>2, <1>c DEF Bad
<1>4. ASSUME NEW x \in S PROVE f[x] <= Total(f, S)
  <2>1. Total(f, S) = f[x] + Total(f, S \ {x})
    <3>1. \A y \in S : f[y] \in Int
      OBVIOUS
    <3>. QED
      BY <3>1, TotalSplit
  <2>2. Total(f, S \ {x}) \in Nat /\ f[x] \in Nat
    BY <1>3
  <2>. QED
    BY <2>1, <2>2
<1>. QED
  BY <1>3, <1>4

\* What a sum gains when one of its terms changes.
LEMMA TotalUpdate ==
    ASSUME NEW S, IsFiniteSet(S), NEW f, NEW g, NEW x \in S,
           \A y \in S : f[y] \in Int /\ g[y] \in Int,
           \A y \in S \ {x} : f[y] = g[y]
    PROVE  Total(g, S) = Total(f, S) + (g[x] - f[x])
<1>1. IsFiniteSet(S \ {x})
  BY FS_Subset
<1>2. Total(f, S) = f[x] + Total(f, S \ {x}) /\ Total(g, S) = g[x] + Total(g, S \ {x})
  BY TotalSplit
<1>3. Total(f, S \ {x}) \in Int /\ Total(g, S \ {x}) \in Int
  BY <1>1, TotalPick
<1>4. \A y \in S \ {x} : f[y] <= g[y] /\ g[y] <= f[y]
  OBVIOUS
<1>5. Total(f, S \ {x}) <= Total(g, S \ {x}) /\ Total(g, S \ {x}) <= Total(f, S \ {x})
  BY <1>1, <1>4, TotalMono
<1>. QED
  BY <1>2, <1>3, <1>5

LEMMA TotalSame ==
    ASSUME NEW S, IsFiniteSet(S), NEW f, NEW g, \A y \in S : f[y] \in Int /\ g[y] \in Int /\ f[y] = g[y]
    PROVE  Total(g, S) = Total(f, S)
<1>1. \A y \in S : f[y] <= g[y] /\ g[y] <= f[y]
  OBVIOUS
<1>2. Total(f, S) <= Total(g, S) /\ Total(g, S) <= Total(f, S)
  BY <1>1, TotalMono
<1>3. Total(f, S) \in Int /\ Total(g, S) \in Int
  BY TotalPick
<1>. QED
  BY <1>2, <1>3

LEMMA TotalZero ==
    ASSUME NEW S, IsFiniteSet(S), NEW f, \A x \in S : f[x] = 0
    PROVE  Total(f, S) = 0
<1>. DEFINE z == [T \in SUBSET S |-> 0]
            G == CHOOSE g : Sums(f, S, g)
<1>p. \A T \in SUBSET S : T # {} => Pick(T) \in S
  BY DEF Pick
<1>1. ASSUME NEW T \in SUBSET S
      PROVE  z[T] = IF T = {} THEN 0 ELSE f[Pick(T)] + z[T \ {Pick(T)}]
  BY <1>p
<1>2. Sums(f, S, z)
  BY <1>1 DEF Sums
<1>3. Sums(f, S, G)
  BY <1>2
<1>4. G[S] = z[S]
  <2>. HIDE DEF z, G
  <2>. QED
    BY <1>2, <1>3, SumsUnique
<1>. QED
  BY <1>4, TotalIsSums

-----------------------------------------------------------------------------
(* Round robin.                                                              *)

\* Thread t has loaded the visits of edge e.
HasRead(t, e) == pc[t] = "visits" /\ e \in view[t] \ todo[t]

\* The threads that may still pick edge e because they saw at most k visits.
Reader(e, k) == {t \in Thread : HasRead(t, e) /\ snap[t][e] <= k}

TypeInv ==
    /\ live \subseteq Edge /\ visits \in [Edge -> Nat]
    /\ pc \in [Thread -> {"idle", "visits"}]
    /\ view \in [Thread -> SUBSET Edge] /\ todo \in [Thread -> SUBSET Edge]
    /\ snap \in [Thread -> [Edge -> Nat]]

\* What was loaded is not above the counter, and no live edge is left out.
ViewInv ==
    \A t \in Thread :
        /\ pc[t] = "visits" => live \subseteq view[t]
        /\ \A f \in Edge : HasRead(t, f) => snap[t][f] <= visits[f]

(***************************************************************************)
(* When a live edge has at most k visits, another one is above k by at     *)
(* most the number of threads that can no longer pick it because they saw  *)
(* at most k visits of it.                                                 *)
(***************************************************************************)
GapInv ==
    \A e, f \in live : \A k \in Nat :
        visits[f] <= k => visits[e] + Cardinality(Reader(e, k)) <= k + Cardinality(Thread)

RoundRobinInv == policy = "rr" => TypeInv /\ ViewInv /\ GapInv

-----------------------------------------------------------------------------
LEMMA ReaderCount ==
    ASSUME NEW S \in SUBSET Thread
    PROVE  /\ IsFiniteSet(S) /\ Cardinality(S) \in Nat /\ Cardinality(Thread) \in Nat
           /\ Cardinality(S) <= Cardinality(Thread)
           /\ \A t \in S : Cardinality(S \ {t}) = Cardinality(S) - 1
           /\ \A t \in Thread \ S : /\ Cardinality(S \cup {t}) = Cardinality(S) + 1
                                    /\ Cardinality(S) + 1 <= Cardinality(Thread)
<1>1. IsFiniteSet(Thread)
  BY PolicyAssumption
<1>2. \A U \in SUBSET Thread : /\ IsFiniteSet(U) /\ Cardinality(U) \in Nat
                               /\ Cardinality(U) <= Cardinality(Thread)
  BY <1>1, FS_Subset, FS_CardinalityType
<1>3. \A t \in S : Cardinality(S \ {t}) = Cardinality(S) - 1
  BY <1>2, FS_RemoveElement
<1>4. ASSUME NEW t \in Thread \ S
      PROVE  /\ Cardinality(S \cup {t}) = Cardinality(S) + 1
             /\ Cardinality(S) + 1 <= Cardinality(Thread)
  <2>1. Cardinality(S \cup {t}) = Cardinality(S) + 1
    BY <1>2, FS_AddElement
  <2>2. S \cup {t} \in SUBSET Thread
    OBVIOUS
  <2>. QED
    BY <1>2, <2>1, <2>2
<1>. QED
  BY <1>1, <1>2, <1>3, <1>4, FS_CardinalityType

LEMMA RoundRobinInit == Init => RoundRobinInv
<1>. SUFFICES ASSUME Init, policy = "rr" PROVE TypeInv /\ ViewInv /\ GapInv
  BY DEF RoundRobinInv
<1>1. TypeInv
  BY PolicyAssumption DEF Init, TypeInv, Zero
<1>2. ViewInv
  BY DEF Init, ViewInv, HasRead
<1>3. \A e, k : Reader(e, k) = {}
  BY DEF Init, Reader, HasRead
<1>4. Cardinality({}) = 0 /\ Cardinality(Thread) \in Nat
  BY FS_EmptySet, ReaderCount
<1>5. GapInv
  <2>. SUFFICES ASSUME NEW e \in live, NEW k \in Nat
                PROVE  visits[e] + Cardinality(Reader(e, k)) <= k + Cardinality(Thread)
    BY DEF GapInv
  <2>1. visits[e] = 0 /\ Cardinality(Reader(e, k)) = 0
    BY <1>3, <1>4 DEF Init, Zero
  <2>. QED
    BY <1>4, <2>1
<1>. QED
  BY <1>1, <1>2, <1>5

-----------------------------------------------------------------------------
(* One case per step that round robin can take.                             *)

LEMMA BeginKeeps ==
    ASSUME TypeInv, ViewInv, GapInv, NEW t \in Thread, Begin(t)
    PROVE  TypeInv' /\ ViewInv' /\ GapInv'
<1>1. /\ pc' = [pc EXCEPT ![t] = "visits"] /\ pc[t] = "idle"
      /\ view' = [view EXCEPT ![t] = live] /\ todo' = [todo EXCEPT ![t] = live]
      /\ UNCHANGED <<live, visits, snap>>
  BY DEF Begin, Goto, statVars
<1>2. TypeInv'
  BY <1>1 DEF TypeInv
<1>3. \A u \in Thread, e \in Edge : HasRead(u, e)' <=> HasRead(u, e)
  BY <1>1 DEF TypeInv, HasRead
<1>4. ViewInv'
  BY <1>1, <1>3 DEF ViewInv, TypeInv
<1>5. \A e \in Edge, k \in Nat : Reader(e, k)' = Reader(e, k)
  BY <1>1, <1>3 DEF Reader
<1>6. GapInv'
  BY <1>1, <1>5 DEF GapInv, TypeInv
<1>. QED
  BY <1>2, <1>4, <1>6

LEMMA ReadKeeps ==
    ASSUME TypeInv, ViewInv, GapInv, NEW t \in Thread, ReadVisits(t)
    PROVE  TypeInv' /\ ViewInv' /\ GapInv'
<1>0. PICK x \in Edge : x = Min(todo[t]) /\ x \in todo[t]
  BY LeastNatural, PolicyAssumption DEF ReadVisits, TypeInv
<1>1. /\ pc[t] = "visits" /\ UNCHANGED <<live, visits, pc, view>>
      /\ snap' = [snap EXCEPT ![t][x] = visits[x]] /\ todo' = [todo EXCEPT ![t] = @ \ {x}]
  BY <1>0 DEF ReadVisits, statVars
<1>2. /\ \A u \in Thread : u # t => snap'[u] = snap[u] /\ todo'[u] = todo[u]
      /\ todo'[t] = todo[t] \ {x} /\ snap'[t][x] = visits[x]
      /\ \A e \in Edge : e # x => snap'[t][e] = snap[t][e]
  BY <1>1 DEF TypeInv
<1>3. TypeInv'
  BY <1>1 DEF TypeInv
<1>4. /\ \A u \in Thread, e \in Edge : u # t \/ e # x => (HasRead(u, e)' <=> HasRead(u, e))
      /\ ~HasRead(t, x)
  BY <1>0, <1>1, <1>2 DEF HasRead
<1>5. ViewInv'
  <2>. SUFFICES ASSUME NEW u \in Thread, NEW f \in Edge, HasRead(u, f)'
                PROVE  snap'[u][f] <= visits[f]
    BY <1>1 DEF ViewInv
  <2>1. CASE u = t /\ f = x
    BY <1>2, <2>1 DEF TypeInv
  <2>2. CASE u # t \/ f # x
    BY <1>2, <1>4, <2>2 DEF ViewInv
  <2>. QED
    BY <2>1, <2>2
<1>6. GapInv'
  <2>. SUFFICES ASSUME NEW e \in live, NEW f \in live, NEW k \in Nat, visits[f] <= k
                PROVE  visits[e] + Cardinality(Reader(e, k)') <= k + Cardinality(Thread)
    BY <1>1 DEF GapInv
  <2>t. visits[e] \in Nat /\ visits[f] \in Nat /\ e \in Edge
    BY DEF TypeInv
  <2>c. /\ Reader(e, k) \in SUBSET Thread /\ Reader(e, k)' \in SUBSET Thread
        /\ Cardinality(Reader(e, k)) \in Nat /\ Cardinality(Thread) \in Nat
        /\ Cardinality(Reader(e, k)') \in Nat
        /\ Cardinality(Reader(e, k)') <= Cardinality(Thread)
    BY ReaderCount DEF Reader
  <2>1. CASE visits[e] <= k
    BY <2>1, <2>c, <2>t
  <2>2. CASE visits[e] > k
    <3>1. Reader(e, k)' = Reader(e, k)
      <4>1. \A u \in Thread : HasRead(u, e)' /\ snap'[u][e] <= k <=> HasRead(u, e) /\ snap[u][e] <= k
        <5>. SUFFICES ASSUME NEW u \in Thread
                      PROVE  HasRead(u, e)' /\ snap'[u][e] <= k <=> HasRead(u, e) /\ snap[u][e] <= k
          OBVIOUS
        <5>1. CASE u = t /\ e = x
          BY <1>2, <1>4, <2>2, <2>t, <5>1
        <5>2. CASE u # t \/ e # x
          BY <1>2, <1>4, <2>t, <5>2
        <5>. QED
          BY <5>1, <5>2
      <4>. QED
        BY <4>1 DEF Reader
    <3>2. visits[e] + Cardinality(Reader(e, k)) <= k + Cardinality(Thread)
      BY DEF GapInv
    <3>. QED
      BY <3>1, <3>2
  <2>. QED
    BY <2>1, <2>2, <2>t
<1>. QED
  BY <1>3, <1>5, <1>6

LEMMA PickKeeps ==
    ASSUME TypeInv, ViewInv, GapInv, NEW t \in Thread, PickRoundRobin(t)
    PROVE  TypeInv' /\ ViewInv' /\ GapInv'
<1>0. PICK x \in LeastVisited(t) : Down(t, x)
  BY DEF PickRoundRobin
<1>1. /\ pc[t] = "visits" /\ todo[t] = {} /\ x \in view[t] /\ x \in Edge
      /\ \A f \in view[t] : snap[t][x] <= snap[t][f]
  <2>1. pc[t] = "visits" /\ todo[t] = {} /\ x \in view[t] /\ x \in Edge
    BY DEF PickRoundRobin, Loaded, LeastVisited, TypeInv
  <2>2. \A f \in view[t] : snap[t][x] \in Nat /\ snap[t][f] \in Nat
    BY <2>1 DEF TypeInv
  <2>. QED
    BY <2>1, <2>2 DEF LeastVisited
<1>2. /\ visits' = [visits EXCEPT ![x] = @ + 1] /\ pc' = [pc EXCEPT ![t] = "idle"]
      /\ view' = [view EXCEPT ![t] = {}] /\ snap' = [snap EXCEPT ![t] = Zero]
      /\ UNCHANGED <<live, todo>>
  BY <1>0 DEF Down, Goto
<1>3. TypeInv'
  BY <1>1, <1>2 DEF TypeInv, Zero
<1>4. /\ pc'[t] = "idle" /\ \A u \in Thread \ {t} : pc'[u] = pc[u] /\ view'[u] = view[u] /\ snap'[u] = snap[u]
      /\ visits'[x] = visits[x] + 1 /\ \A e \in Edge \ {x} : visits'[e] = visits[e]
      /\ \A e \in Edge : visits[e] \in Nat /\ visits'[e] \in Nat /\ visits[e] <= visits'[e]
  BY <1>1, <1>2 DEF TypeInv
<1>5. /\ \A u \in Thread \ {t}, e \in Edge : HasRead(u, e)' <=> HasRead(u, e)
      /\ \A e \in Edge : ~HasRead(t, e)'
  BY <1>2, <1>4 DEF HasRead
<1>6. ViewInv'
  <2>1. ASSUME NEW u \in Thread \ {t}, NEW f \in Edge, HasRead(u, f)
        PROVE  snap[u][f] <= visits'[f]
    BY <1>4, <2>1 DEF ViewInv, TypeInv
  <2>. QED
    BY <1>2, <1>4, <1>5, <2>1 DEF ViewInv
<1>7. GapInv'
  <2>. SUFFICES ASSUME NEW e \in live, NEW f \in live, NEW k \in Nat, visits'[f] <= k
                PROVE  visits'[e] + Cardinality(Reader(e, k)') <= k + Cardinality(Thread)
    BY <1>2 DEF GapInv
  <2>t. e \in Edge /\ f \in Edge /\ visits[f] <= k
    BY <1>4 DEF TypeInv
  <2>g. visits[e] + Cardinality(Reader(e, k)) <= k + Cardinality(Thread)
    BY <2>t DEF GapInv
  <2>r. Reader(e, k)' = Reader(e, k) \ {t}
    BY <1>4, <1>5, <2>t DEF Reader
  <2>c. /\ Reader(e, k) \in SUBSET Thread /\ Cardinality(Reader(e, k)) \in Nat
        /\ Cardinality(Thread) \in Nat
        /\ t \in Reader(e, k) => Cardinality(Reader(e, k)') = Cardinality(Reader(e, k)) - 1
    BY <2>r, ReaderCount DEF Reader
  <2>d. t \notin Reader(e, k) => Reader(e, k)' = Reader(e, k)
    BY <2>r
  <2>1. CASE e = x
    <3>1. HasRead(t, e) /\ HasRead(t, f) /\ f \in view[t]
      BY <1>1, <2>1 DEF HasRead, ViewInv
    <3>2. snap[t][e] <= snap[t][f] /\ snap[t][f] <= visits[f]
      BY <1>1, <2>1, <2>t, <3>1 DEF ViewInv
    <3>3. snap[t][e] <= k
      BY <2>t, <3>2, <1>4 DEF TypeInv
    <3>4. t \in Reader(e, k)
      BY <3>1, <3>3 DEF Reader
    <3>. QED
      BY <1>4, <2>1, <2>c, <2>g, <2>t, <3>4
  <2>2. CASE e # x
    <3>1. visits'[e] = visits[e]
      BY <1>4, <2>2, <2>t
    <3>. QED
      BY <1>4, <2>c, <2>d, <2>g, <2>t, <3>1
  <2>. QED
    BY <2>1, <2>2
<1>. QED
  BY <1>3, <1>6, <1>7

LEMMA RestartKeeps ==
    ASSUME TypeInv, Restart
    PROVE  TypeInv' /\ ViewInv' /\ GapInv'
<1>1. /\ visits' = Zero /\ UNCHANGED <<live, pc, view, todo, snap>>
      /\ \A t \in Thread : pc[t] = "idle"
  BY DEF Restart, Reset, threadVars
<1>2. TypeInv'
  BY <1>1 DEF TypeInv, Zero
<1>3. \A u \in Thread : \A e : ~HasRead(u, e)'
  BY <1>1 DEF HasRead
<1>4. ViewInv'
  BY <1>1, <1>3 DEF ViewInv
<1>5. \A e, k : Reader(e, k)' = {}
  BY <1>3 DEF Reader
<1>6. Cardinality({}) = 0 /\ Cardinality(Thread) \in Nat
  BY FS_EmptySet, ReaderCount
<1>7. GapInv'
  <2>. SUFFICES ASSUME NEW e \in live, NEW k \in Nat
                PROVE  visits'[e] + Cardinality(Reader(e, k)') <= k + Cardinality(Thread)
    BY <1>1 DEF GapInv
  <2>1. visits'[e] = 0 /\ Cardinality(Reader(e, k)') = 0
    BY <1>1, <1>5, <1>6 DEF Zero, TypeInv
  <2>. QED
    BY <1>6, <2>1
<1>. QED
  BY <1>2, <1>4, <1>7

LEMMA RoundRobinStep == RoundRobinInv /\ [Next]_vars => RoundRobinInv'
<1>. SUFFICES ASSUME RoundRobinInv, [Next]_vars, policy' = "rr" PROVE TypeInv' /\ ViewInv' /\ GapInv'
  BY DEF RoundRobinInv
<1>p. policy = "rr"
  BY DEF Next, ThreadNext, Begin, ReadVisits, PickRoundRobin, PickUCT, PickUnvisited, Collect,
         Count, PickScore, Down, Kill, Commit, Up, UpSum, Restart, vars
<1>i. TypeInv /\ ViewInv /\ GapInv
  BY <1>p DEF RoundRobinInv
<1>1. ASSUME NEW t \in Thread, ThreadNext(t) PROVE TypeInv' /\ ViewInv' /\ GapInv'
  <2>1. Begin(t) \/ ReadVisits(t) \/ PickRoundRobin(t)
    <3>1. pc[t] \in {"idle", "visits"}
      BY <1>i DEF TypeInv
    <3>. QED
      BY <1>1, <1>p, <3>1 DEF ThreadNext, PickUCT, PickUnvisited, Collect, Count, PickScore
  <2>. QED
    BY <1>i, <2>1, BeginKeeps, ReadKeeps, PickKeeps
<1>2. CASE UNCHANGED <<visits, pc, view, todo, snap>> /\ live' \subseteq live
  <2>1. TypeInv' /\ ViewInv'
    BY <1>i, <1>2 DEF TypeInv, ViewInv, HasRead
  <2>2. \A e, k : Reader(e, k)' = Reader(e, k)
    BY <1>2 DEF Reader, HasRead
  <2>3. GapInv'
    BY <1>i, <1>2, <2>2 DEF GapInv
  <2>. QED
    BY <2>1, <2>3
<1>3. CASE Kill \/ Commit \/ Up \/ UpSum \/ UNCHANGED vars
  <2>1. UNCHANGED <<visits, pc, view, todo, snap>> /\ live' \subseteq live
    BY <1>3 DEF Kill, Commit, Up, UpSum, vars, statVars, threadVars
  <2>. QED
    BY <1>2, <2>1
<1>4. CASE Restart
  BY <1>4, <1>i, RestartKeeps
<1>. QED
  BY <1>1, <1>3, <1>4 DEF Next

(***************************************************************************)
(* RoundRobinPolicy keeps the live children of a node balanced: threads    *)
(* that chose from counters they had loaded before others counted their    *)
(* visits put two children at most one visit per thread apart.             *)
(***************************************************************************)
THEOREM RoundRobinStaysBalanced == Spec => []RoundRobinBalanced
<1>1. RoundRobinInv => RoundRobinBalanced
  <2>. SUFFICES ASSUME TypeInv, GapInv, NEW e \in live, NEW f \in live
                PROVE  visits[e] - visits[f] <= Cardinality(Thread)
    BY DEF RoundRobinInv, RoundRobinBalanced
  <2>1. visits[e] \in Nat /\ visits[f] \in Nat
    BY DEF TypeInv
  <2>2. Cardinality(Reader(e, visits[f])) \in Nat /\ Cardinality(Thread) \in Nat
    BY ReaderCount DEF Reader
  <2>3. visits[e] + Cardinality(Reader(e, visits[f])) <= visits[f] + Cardinality(Thread)
    BY <2>1 DEF GapInv
  <2>. QED
    BY <2>1, <2>2, <2>3
<1>. QED
  BY <1>1, RoundRobinInit, RoundRobinStep, PTL DEF Spec
-----------------------------------------------------------------------------
(* TAG: the sorted vectors of evaluations.                                   *)

Sorted(s) == \A i, j \in 1 .. Len(s) : i <= j => s[i] <= s[j]

\* At most topk of n evaluations.
Cap(n) == IF n < TopK THEN n ELSE TopK

LEMMA CountNat ==
    ASSUME NEW V, NEW s \in Seq(V), NEW w
    PROVE  CountLte(s, w) \in Nat /\ (s = <<>> => CountLte(s, w) = 0)
<1>1. IsFiniteSet(1 .. Len(s)) /\ DOMAIN s = 1 .. Len(s)
  BY FS_Interval
<1>2. {i \in DOMAIN s : s[i] <= w} \subseteq 1 .. Len(s)
  BY <1>1
<1>3. s = <<>> => {i \in DOMAIN s : s[i] <= w} = {}
  BY <1>1
<1>. QED
  BY <1>1, <1>2, <1>3, FS_Subset, FS_CardinalityType, FS_EmptySet DEF CountLte

LEMMA CountPrefix ==
    ASSUME NEW s \in Seq(Nat), NEW w \in Int, NEW c \in 0 .. Len(s),
           \A i \in 1 .. Len(s) : s[i] <= w <=> i <= c
    PROVE  CountLte(s, w) = c
<1>1. {i \in DOMAIN s : s[i] <= w} = 1 .. c
  OBVIOUS
<1>2. Cardinality(1 .. c) = c
  BY FS_Interval
<1>. QED
  BY <1>1, <1>2 DEF CountLte

\* In a sorted vector the evaluations up to a threshold are a prefix.
LEMMA SortedCount ==
    ASSUME NEW s \in Seq(Nat), Sorted(s), NEW w \in Int
    PROVE  /\ CountLte(s, w) \in 0 .. Len(s)
           /\ \A i \in 1 .. Len(s) : s[i] <= w <=> i <= CountLte(s, w)
<1>. DEFINE K == {k \in 0 .. Len(s) : \A i \in k + 1 .. Len(s) : ~(s[i] <= w)}
            c == Min(K)
<1>1. K \in SUBSET Nat /\ Len(s) \in K
  OBVIOUS
<1>2. c \in K /\ \A k \in K : c <= k
  BY <1>1, LeastNatural
<1>3. c \in 0 .. Len(s) /\ \A i \in c + 1 .. Len(s) : ~(s[i] <= w)
  BY <1>2
<1>4. ASSUME NEW i \in 1 .. Len(s), i <= c PROVE s[i] <= w
  <2>. SUFFICES ASSUME ~(s[i] <= w) PROVE FALSE
    OBVIOUS
  <2>1. \A j \in i .. Len(s) : s[i] <= s[j] /\ s[j] \in Nat /\ s[i] \in Nat
    BY DEF Sorted
  <2>2. \A j \in (i - 1) + 1 .. Len(s) : ~(s[j] <= w)
    BY <2>1
  <2>3. i - 1 \in K
    BY <2>2
  <2>4. c <= i - 1
    BY <1>2, <2>3
  <2>. HIDE DEF K, c
  <2>. QED
    BY <1>3, <1>4, <2>4
<1>. HIDE DEF K, c
<1>5. \A i \in 1 .. Len(s) : s[i] <= w <=> i <= c
  BY <1>3, <1>4
<1>6. CountLte(s, w) = c
  BY <1>3, <1>5, CountPrefix
<1>. QED
  BY <1>3, <1>5, <1>6

LEMMA PositionIsCount ==
    ASSUME NEW s \in Seq(Nat), NEW v \in Nat
    PROVE  Position(s, v) = CountLte(s, v - 1)
<1>1. \A i \in DOMAIN s : s[i] < v <=> s[i] <= v - 1
  OBVIOUS
<1>2. {i \in DOMAIN s : s[i] < v} = {i \in DOMAIN s : s[i] <= v - 1}
  BY <1>1
<1>. QED
  BY <1>2 DEF Position, CountLte

\* r is s with v after the first p elements.
Inserted(s, p, v, r) ==
    /\ Len(r) = Len(s) + 1
    /\ \A i \in 1 .. Len(s) + 1 : r[i] = IF i <= p THEN s[i] ELSE IF i = p + 1 THEN v ELSE s[i - 1]

LEMMA InsertShape ==
    ASSUME NEW V, NEW s \in Seq(V), NEW p \in 0 .. Len(s), NEW v \in V
    PROVE  InsertAt(s, p + 1, v) \in Seq(V) /\ Inserted(s, p, v, InsertAt(s, p + 1, v))
<1>. DEFINE a == SubSeq(s, 1, p)
            b == SubSeq(s, p + 1, Len(s))
<1>1. /\ a \in Seq(V) /\ Len(a) = p /\ \A i \in 1 .. p : a[i] = s[i]
      /\ b \in Seq(V) /\ Len(b) = Len(s) - p /\ \A i \in 1 .. Len(s) - p : b[i] = s[p + i]
  OBVIOUS
<1>2. InsertAt(s, p + 1, v) = a \o <<v>> \o b
  <2>1. (p + 1) - 1 = p
    OBVIOUS
  <2>2. InsertAt(s, p + 1, v) = SubSeq(s, 1, (p + 1) - 1) \o <<v>> \o SubSeq(s, p + 1, Len(s))
    BY Zenon DEF InsertAt
  <2>. QED
    BY <2>1, <2>2, Zenon
<1>. HIDE DEF a, b
<1>3. /\ a \o <<v>> \in Seq(V) /\ Len(a \o <<v>>) = p + 1
      /\ \A i \in 1 .. p + 1 : (a \o <<v>>)[i] = IF i <= p THEN a[i] ELSE v
  BY <1>1
<1>. DEFINE d == a \o <<v>>
<1>4. /\ d \in Seq(V) /\ Len(d) = p + 1
      /\ \A i \in 1 .. p + 1 : d[i] = IF i <= p THEN s[i] ELSE v
  BY <1>1, <1>3
<1>. HIDE DEF d
<1>5. /\ d \o b \in Seq(V) /\ Len(d \o b) = Len(s) + 1
      /\ \A i \in 1 .. Len(s) + 1 : (d \o b)[i] = IF i <= p + 1 THEN d[i] ELSE b[i - (p + 1)]
  BY <1>1, <1>4
<1>6. \A i \in 1 .. Len(s) + 1 : (d \o b)[i] =
          IF i <= p THEN s[i] ELSE IF i = p + 1 THEN v ELSE s[i - 1]
  <2>. SUFFICES ASSUME NEW i \in 1 .. Len(s) + 1
                PROVE  (d \o b)[i] = IF i <= p THEN s[i] ELSE IF i = p + 1 THEN v ELSE s[i - 1]
    OBVIOUS
  <2>1. CASE i <= p + 1
    BY <1>4, <1>5, <2>1
  <2>2. CASE ~(i <= p + 1)
    <3>1. i - (p + 1) \in 1 .. Len(s) - p /\ p + (i - (p + 1)) = i - 1
      BY <2>2
    <3>2. b[i - (p + 1)] = s[i - 1]
      BY <1>1, <3>1
    <3>. QED
      BY <1>5, <2>2, <3>2
  <2>. QED
    BY <2>1, <2>2
<1>7. InsertAt(s, p + 1, v) = d \o b
  BY <1>2 DEF d
<1>8. InsertAt(s, p + 1, v) \in Seq(V) /\ Len(InsertAt(s, p + 1, v)) = Len(s) + 1
  BY <1>5, <1>7
<1>9. ASSUME NEW i \in 1 .. Len(s) + 1
      PROVE  InsertAt(s, p + 1, v)[i] = IF i <= p THEN s[i] ELSE IF i = p + 1 THEN v ELSE s[i - 1]
  <2>1. InsertAt(s, p + 1, v)[i] = (d \o b)[i]
    BY <1>7
  <2>. QED
    BY <1>6, <2>1
<1>. QED
  BY <1>8, <1>9 DEF Inserted

LEMMA PrefixShape ==
    ASSUME NEW V, NEW s \in Seq(V), NEW p \in 0 .. Len(s)
    PROVE  /\ SubSeq(s, 1, p) \in Seq(V) /\ Len(SubSeq(s, 1, p)) = p
           /\ \A i \in 1 .. p : SubSeq(s, 1, p)[i] = s[i]
OBVIOUS

LEMMA ValueIsNat == Value \subseteq Nat /\ TopK \in Nat /\ Seq(Value) \subseteq Seq(Nat)
<1>1. Value \subseteq Nat /\ TopK \in Nat
  BY PolicyAssumption
<1>2. ASSUME NEW s \in Seq(Value) PROVE s \in Seq(Nat)
  <2>1. Len(s) \in Nat /\ s = [i \in 1 .. Len(s) |-> s[i]] /\ \A i \in 1 .. Len(s) : s[i] \in Nat
    BY <1>1
  <2>. QED
    BY <2>1
<1>. QED
  BY <1>1, <1>2

\* Evaluations::record keeps the vector sorted and counts the evaluation below every
\* threshold it meets, up to topk.
LEMMA RecordShape ==
    ASSUME NEW s \in Seq(Value), Sorted(s), Len(s) <= TopK, NEW v \in Value
    PROVE  /\ Record(s, v) \in Seq(Value) /\ Sorted(Record(s, v))
           /\ Len(Record(s, v)) = Cap(Len(s) + 1)
           /\ \A w \in Int : CountLte(Record(s, v), w) =
                 IF v <= w THEN Cap(CountLte(s, w) + 1) ELSE CountLte(s, w)
<1>. DEFINE p == Position(s, v)
            r == Record(s, v)
<1>n. /\ s \in Seq(Nat) /\ v \in Nat /\ TopK \in Nat /\ Len(s) \in Nat
      /\ \A i \in 1 .. Len(s) : s[i] \in Nat /\ s[i] \in Value
  BY ValueIsNat
<1>p. p \in 0 .. Len(s) /\ \A i \in 1 .. Len(s) : s[i] < v <=> i <= p
  <2>1. v - 1 \in Int /\ p = CountLte(s, v - 1)
    BY <1>n, PositionIsCount
  <2>2. /\ CountLte(s, v - 1) \in 0 .. Len(s)
        /\ \A i \in 1 .. Len(s) : s[i] <= v - 1 <=> i <= CountLte(s, v - 1)
    BY <1>n, <2>1, SortedCount
  <2>3. \A i \in 1 .. Len(s) : s[i] < v <=> s[i] <= v - 1
    BY <1>n
  <2>. QED
    BY <2>1, <2>2, <2>3
<1>c. \A w \in Int : /\ CountLte(s, w) \in 0 .. Len(s)
                     /\ \A i \in 1 .. Len(s) : s[i] <= w <=> i <= CountLte(s, w)
  BY <1>n, SortedCount
<1>d. r = IF p < TopK THEN InsertAt(IF Len(s) >= TopK THEN Front(s) ELSE s, p + 1, v) ELSE s
  BY DEF Record
<1>. HIDE DEF p, r
<1>1. CASE ~(p < TopK)
  <2>1. r = s /\ p = TopK /\ Len(s) = TopK
    BY <1>n, <1>p, <1>d, <1>1
  <2>2. ASSUME NEW w \in Int
        PROVE  CountLte(s, w) = IF v <= w THEN Cap(CountLte(s, w) + 1) ELSE CountLte(s, w)
    <3>. SUFFICES ASSUME v <= w PROVE CountLte(s, w) = Cap(CountLte(s, w) + 1)
      OBVIOUS
    <3>1. \A i \in 1 .. Len(s) : s[i] <= w <=> i <= Len(s)
      BY <1>n, <1>p, <2>1
    <3>2. CountLte(s, w) = Len(s)
      BY <1>n, <3>1, CountPrefix
    <3>. QED
      BY <1>n, <2>1, <3>2 DEF Cap
  <2>3. Len(s) = Cap(Len(s) + 1)
    BY <1>n, <2>1 DEF Cap
  <2>. QED
    BY <2>1, <2>2, <2>3 DEF r
<1>2. CASE p < TopK
  <2>. DEFINE b == IF Len(s) >= TopK THEN Front(s) ELSE s
  <2>1. /\ b \in Seq(Value) /\ Len(b) = Cap(Len(s) + 1) - 1 /\ p \in 0 .. Len(b)
        /\ Len(b) <= Len(s) /\ \A i \in 1 .. Len(b) : b[i] = s[i]
    <3>1. CASE Len(s) >= TopK
      <4>1. /\ Front(s) \in Seq(Value) /\ Len(Front(s)) = Len(s) - 1
            /\ \A i \in 1 .. Len(s) - 1 : Front(s)[i] = s[i]
        <5>1. Len(s) >= 1
          BY <1>n, <1>p, <1>2, <3>1
        <5>2. Len(s) - 1 \in 0 .. Len(s)
          BY <1>n, <5>1
        <5>. QED
          BY <5>2, PrefixShape, Zenon DEF Front
      <4>. QED
        BY <1>n, <1>p, <1>2, <3>1, <4>1 DEF Cap
    <3>2. CASE ~(Len(s) >= TopK)
      BY <1>n, <1>p, <1>2, <3>2 DEF Cap
    <3>. QED
      BY <3>1, <3>2
  <2>2. r = InsertAt(b, p + 1, v)
    BY <1>d, <1>2
  <2>. HIDE DEF b
  <2>3. /\ r \in Seq(Value) /\ Len(r) = Len(b) + 1
        /\ \A i \in 1 .. Len(b) + 1 : r[i] = IF i <= p THEN b[i] ELSE IF i = p + 1 THEN v ELSE b[i - 1]
    <3>1. r \in Seq(Value) /\ Inserted(b, p, v, r)
      BY <2>1, <2>2, InsertShape, Zenon
    <3>. QED
      BY <3>1 DEF Inserted
  <2>4. /\ Len(r) = Cap(Len(s) + 1) /\ Len(r) \in Nat /\ Len(r) <= TopK /\ Len(r) <= Len(s) + 1
        /\ p + 1 <= Len(r)
    BY <1>n, <1>p, <2>1, <2>3 DEF Cap
  <2>5. \A i \in 1 .. Len(r) : /\ i <= p => r[i] = s[i] /\ i \in 1 .. Len(s)
                               /\ i = p + 1 => r[i] = v
                               /\ i > p + 1 => r[i] = s[i - 1] /\ i - 1 \in 1 .. Len(s)
    <3>. SUFFICES ASSUME NEW i \in 1 .. Len(r)
                  PROVE  /\ i <= p => r[i] = s[i] /\ i \in 1 .. Len(s)
                         /\ i = p + 1 => r[i] = v
                         /\ i > p + 1 => r[i] = s[i - 1] /\ i - 1 \in 1 .. Len(s)
      OBVIOUS
    <3>1. CASE i <= p
      BY <1>p, <2>1, <2>3, <3>1
    <3>2. CASE i = p + 1
      BY <1>p, <2>1, <2>3, <3>2
    <3>3. CASE i > p + 1
      <4>1. i - 1 \in 1 .. Len(b) /\ i - 1 \in 1 .. Len(s) /\ ~(i <= p) /\ i # p + 1
        BY <1>p, <1>n, <2>1, <2>3, <3>3
      <4>. QED
        BY <2>1, <2>3, <3>3, <4>1
    <3>. QED
      BY <3>1, <3>2, <3>3, <1>p
  <2>6. Sorted(r)
    <3>. SUFFICES ASSUME NEW i \in 1 .. Len(r), NEW j \in 1 .. Len(r), i <= j PROVE r[i] <= r[j]
      BY DEF Sorted
    <3>1. \A k, l \in 1 .. Len(s) : k <= l => s[k] <= s[l]
      BY DEF Sorted
    <3>2. CASE j <= p
      BY <1>p, <2>5, <3>1, <3>2
    <3>3. CASE j = p + 1
      <4>1. r[j] = v /\ (i <= p \/ i = j)
        BY <1>p, <2>5, <3>3
      <4>2. CASE i <= p
        BY <1>n, <1>p, <2>5, <4>1, <4>2
      <4>3. CASE i = j
        BY <1>n, <4>1, <4>3
      <4>. QED
        BY <4>1, <4>2, <4>3
    <3>4. CASE j > p + 1
      <4>1. r[j] = s[j - 1] /\ j - 1 \in 1 .. Len(s) /\ ~(j - 1 <= p) /\ v <= s[j - 1]
        BY <1>n, <1>p, <2>5, <3>4
      <4>2. CASE i <= p
        BY <1>p, <2>5, <3>1, <3>4, <4>1, <4>2
      <4>3. CASE i = p + 1
        BY <2>5, <4>1, <4>3
      <4>4. CASE i > p + 1
        BY <2>5, <3>1, <4>1, <4>4
      <4>. QED
        BY <1>p, <4>2, <4>3, <4>4
    <3>. QED
      BY <1>p, <3>2, <3>3, <3>4
  <2>7. ASSUME NEW w \in Int
        PROVE  CountLte(r, w) = IF v <= w THEN Cap(CountLte(s, w) + 1) ELSE CountLte(s, w)
    <3>. DEFINE c == CountLte(s, w)
    <3>1. c \in 0 .. Len(s) /\ \A i \in 1 .. Len(s) : s[i] <= w <=> i <= c
      BY <1>c
    <3>. HIDE DEF c
    <3>2. r \in Seq(Nat)
      BY <2>3, ValueIsNat
    <3>3. CASE v <= w
      <4>1. p <= c
        BY <1>n, <1>p, <3>1, <3>3
      <4>2. Cap(c + 1) \in 0 .. Len(r) /\ p + 1 <= Cap(c + 1) /\ Cap(c + 1) <= c + 1
        BY <1>n, <1>p, <1>2, <2>4, <3>1, <4>1 DEF Cap
      <4>3. \A i \in 1 .. Len(r) : i <= Cap(c + 1) <=> i <= c + 1
        BY <1>n, <2>4, <3>1 DEF Cap
      <4>4. \A i \in 1 .. Len(r) : r[i] <= w <=> i <= Cap(c + 1)
        <5>. SUFFICES ASSUME NEW i \in 1 .. Len(r) PROVE r[i] <= w <=> i <= c + 1
          BY <4>3
        <5>1. CASE i <= p
          BY <1>n, <1>p, <2>5, <3>1, <3>3, <4>1, <5>1
        <5>2. CASE i = p + 1
          BY <1>p, <2>5, <3>1, <3>3, <4>1, <5>2
        <5>3. CASE i > p + 1
          <6>1. r[i] = s[i - 1] /\ i - 1 \in 1 .. Len(s)
            BY <2>5, <5>3
          <6>2. i - 1 <= c <=> i <= c + 1
            BY <3>1
          <6>. QED
            BY <3>1, <6>1, <6>2
        <5>. QED
          BY <1>p, <5>1, <5>2, <5>3
      <4>5. CountLte(r, w) = Cap(c + 1)
        BY <3>2, <4>2, <4>4, CountPrefix
      <4>. QED
        BY <3>3, <4>5 DEF c
    <3>4. CASE ~(v <= w)
      <4>1. c <= p
        BY <1>n, <1>p, <3>1, <3>4
      <4>2. c \in 0 .. Len(r)
        BY <1>p, <2>4, <3>1, <4>1
      <4>3. \A i \in 1 .. Len(r) : r[i] <= w <=> i <= c
        <5>. SUFFICES ASSUME NEW i \in 1 .. Len(r) PROVE r[i] <= w <=> i <= c
          OBVIOUS
        <5>1. CASE i <= p
          BY <2>5, <3>1, <5>1
        <5>2. CASE i = p + 1
          BY <1>p, <2>5, <3>1, <3>4, <4>1, <5>2
        <5>3. CASE i > p + 1
          <6>1. r[i] = s[i - 1] /\ i - 1 \in 1 .. Len(s) /\ ~(i - 1 <= p)
            BY <1>p, <2>5, <5>3
          <6>2. ~(s[i - 1] < v) /\ s[i - 1] \in Nat
            BY <1>n, <1>p, <6>1
          <6>. QED
            BY <1>n, <1>p, <3>1, <3>4, <4>1, <5>3, <6>1, <6>2
        <5>. QED
          BY <1>p, <5>1, <5>2, <5>3
      <4>4. CountLte(r, w) = c
        BY <3>2, <4>2, <4>3, CountPrefix
      <4>. QED
        BY <3>4, <4>4 DEF c
    <3>. QED
      BY <3>3, <3>4
  <2>. QED
    BY <2>3, <2>4, <2>6, <2>7 DEF r
<1>. QED
  BY <1>1, <1>2

\* One turn of the loop of RecordAll, and the loop over the first elements of a vector.
RecStep(a, v) ==
    IF a.on /\ Position(a.s, v) < TopK
    THEN [s |-> Record(a.s, v), on |-> TRUE]
    ELSE [a EXCEPT !.on = FALSE]

Recs(s, ev, g) ==
    g = [T \in SUBSET DOMAIN ev |->
            IF T = {} THEN [s |-> s, on |-> TRUE]
            ELSE RecStep(g[T \ {Max(T)}], ev[Max(T)])]

LEMMA RecordAllIsRecs ==
    ASSUME NEW s, NEW ev
    PROVE  RecordAll(s, ev) = (CHOOSE g : Recs(s, ev, g))[DOMAIN ev].s
BY DEF RecordAll, FoldLeft, MapThenFoldSet, Recs, RecStep

LEMMA GreatestNatural ==
    ASSUME NEW n \in Nat, NEW S \in SUBSET (1 .. n), S # {}
    PROVE  Max(S) \in S /\ \A m \in S : m <= Max(S)
<1>. DEFINE D == {n - m : m \in S}
<1>1. D \in SUBSET Nat /\ D # {}
  OBVIOUS
<1>2. Min(D) \in D /\ \A d \in D : Min(D) <= d
  BY <1>1, LeastNatural
<1>3. PICK x \in S : Min(D) = n - x
  BY <1>2
<1>4. \A m \in S : n - x <= n - m
  BY <1>2, <1>3
<1>5. \A m \in S : x >= m
  BY <1>4
<1>6. \E y \in S : \A m \in S : y >= m
  BY <1>5
<1>7. Max(S) \in S /\ \A m \in S : Max(S) >= m
  BY <1>6 DEF Max
<1>. QED
  BY <1>7

LEMMA RecStepType ==
    ASSUME NEW a \in [s : Seq(Value), on : BOOLEAN], NEW v \in Value
    PROVE  RecStep(a, v) \in [s : Seq(Value), on : BOOLEAN]
<1>1. CASE a.on /\ Position(a.s, v) < TopK
  <2>1. Record(a.s, v) \in Seq(Value)
    <3>. DEFINE s == a.s
                p == Position(s, v)
                b == IF Len(s) >= TopK THEN Front(s) ELSE s
    <3>1. s \in Seq(Value) /\ p < TopK
      BY <1>1
    <3>2. IsFiniteSet(DOMAIN s) /\ Cardinality(DOMAIN s) = Len(s) /\ DOMAIN s = 1 .. Len(s) /\ Len(s) \in Nat
      BY <3>1, FS_Interval
    <3>3. p \in Nat /\ p <= Len(s)
      BY <3>2, FS_Subset, FS_CardinalityType DEF Position
    <3>4. TopK \in Nat
      BY PolicyAssumption
    <3>. HIDE DEF p, s
    <3>5. b \in Seq(Value) /\ p \in 0 .. Len(b)
      <4>1. CASE Len(s) >= TopK
        <5>1. Len(s) - 1 \in 0 .. Len(s)
          BY <3>1, <3>2, <3>3, <3>4, <4>1
        <5>2. Front(s) \in Seq(Value) /\ Len(Front(s)) = Len(s) - 1
          BY <3>1, <5>1, PrefixShape, Zenon DEF Front
        <5>. QED
          BY <3>1, <3>2, <3>3, <3>4, <4>1, <5>2
      <4>2. CASE ~(Len(s) >= TopK)
        BY <3>1, <3>2, <3>3, <4>2
      <4>. QED
        BY <4>1, <4>2
    <3>6. Record(s, v) = InsertAt(b, p + 1, v)
      BY <3>1 DEF Record, p
    <3>. HIDE DEF b
    <3>7. InsertAt(b, p + 1, v) \in Seq(Value)
      BY <3>5, InsertShape, Zenon
    <3>. QED
      BY <3>6, <3>7 DEF s
  <2>. QED
    BY <1>1, <2>1 DEF RecStep
<1>2. CASE ~(a.on /\ Position(a.s, v) < TopK)
  BY <1>2 DEF RecStep
<1>. QED
  BY <1>1, <1>2

LEMMA RecsExist ==
    ASSUME NEW s \in Seq(Value), NEW ev \in Seq(Value)
    PROVE  \E g : Recs(s, ev, g)
<1>. DEFINE S == DOMAIN ev
            B == [s : Seq(Value), on : BOOLEAN]
            base == [s |-> s, on |-> TRUE]
            op == [q \in S \X B |-> RecStep(q[2], ev[q[1]])]
            ch == [T \in SUBSET S |-> IF T = {} THEN {} ELSE Max(T)]
<1>1. IsFiniteSet(S) /\ S = 1 .. Len(ev) /\ Len(ev) \in Nat /\ \A i \in S : ev[i] \in Value
  BY FS_Interval
<1>2. \A T \in SUBSET S : T # {} => Max(T) \in T
  BY <1>1, GreatestNatural
<1>3. base \in B
  OBVIOUS
<1>4. op \in [S \X B -> B]
  <2>1. ASSUME NEW q \in S \X B PROVE RecStep(q[2], ev[q[1]]) \in B
    BY <1>1, RecStepType
  <2>. QED
    BY <2>1
<1>5. Chooses(S, ch)
  BY <1>2 DEF Chooses
<1>6. /\ \A x \in S, a \in B : op[x, a] = RecStep(a, ev[x])
      /\ \A T \in SUBSET S : T # {} => ch[T] = Max(T)
  OBVIOUS
<1>. HIDE DEF op, ch, B, base, S
<1>7. PICK g \in [SUBSET S -> B] : FoldOf(S, base, op, ch, g)
  BY <1>1, <1>3, <1>4, <1>5, FoldExists, Zenon
<1>8. ASSUME NEW T \in SUBSET S
      PROVE  g[T] = IF T = {} THEN base ELSE RecStep(g[T \ {Max(T)}], ev[Max(T)])
  <2>1. CASE T = {}
    BY <1>7, <2>1 DEF FoldOf
  <2>2. CASE T # {}
    <3>1. Max(T) \in S /\ g[T \ {Max(T)}] \in B /\ ch[T] = Max(T)
      BY <1>2, <1>6, <2>2
    <3>. QED
      BY <1>6, <1>7, <2>2, <3>1 DEF FoldOf
  <2>. QED
    BY <2>1, <2>2
<1>9. g = [T \in SUBSET S |-> IF T = {} THEN base ELSE RecStep(g[T \ {Max(T)}], ev[Max(T)])]
  BY <1>8
<1>. QED
  BY <1>9 DEF Recs, S, base

\* How many of the first k evaluations are up to a threshold.
Among(ev, k, w) == Cardinality({i \in 1 .. k : ev[i] <= w})

LEMMA AmongStep ==
    ASSUME NEW ev, NEW k \in Nat, NEW w
    PROVE  /\ Among(ev, 0, w) = 0 /\ Among(ev, k, w) \in Nat
           /\ Among(ev, k + 1, w) = Among(ev, k, w) + IF ev[k + 1] <= w THEN 1 ELSE 0
<1>. DEFINE A == {i \in 1 .. k : ev[i] <= w}
            C == {i \in 1 .. k + 1 : ev[i] <= w}
<1>1. IsFiniteSet(A) /\ k + 1 \notin A
  <2>1. IsFiniteSet(1 .. k)
    BY FS_Interval
  <2>2. A \subseteq 1 .. k
    OBVIOUS
  <2>. QED
    BY <2>1, <2>2, FS_Subset
<1>c. /\ Among(ev, k, w) = Cardinality(A) /\ Among(ev, k + 1, w) = Cardinality(C)
      /\ Cardinality(A) \in Nat
  BY <1>1, FS_CardinalityType DEF Among
<1>2. Among(ev, 0, w) = 0
  <2>1. {i \in 1 .. 0 : ev[i] <= w} = {}
    OBVIOUS
  <2>. QED
    BY <2>1, FS_EmptySet DEF Among
<1>3. CASE ev[k + 1] <= w
  <2>1. C = A \cup {k + 1}
    BY <1>3
  <2>2. Cardinality(A \cup {k + 1}) = Cardinality(A) + 1
    BY <1>1, FS_AddElement
  <2>. QED
    BY <1>c, <1>2, <1>3, <2>1, <2>2
<1>4. CASE ~(ev[k + 1] <= w)
  <2>1. C = A
    BY <1>4
  <2>. QED
    BY <1>c, <1>2, <1>4, <2>1
<1>. QED
  BY <1>3, <1>4

\* After k turns: the vector is filled as far as k evaluations do, and it counts no
\* more below a threshold than were offered to it.
RecOK(s, ev, k, a) ==
    /\ a.s \in Seq(Value) /\ Sorted(a.s) /\ Len(a.s) <= TopK /\ a.on \in BOOLEAN
    /\ a.on => Len(a.s) = Cap(Len(s) + k)
    /\ ~a.on => Len(a.s) = TopK
    /\ \A w \in Int : CountLte(a.s, w) <= CountLte(s, w) + Among(ev, k, w)

LEMMA RecOKStep ==
    ASSUME NEW s \in Seq(Value), Sorted(s), NEW ev \in Seq(Value), NEW k \in Nat, k + 1 \in 1 .. Len(ev),
           NEW a \in [s : Seq(Value), on : BOOLEAN], RecOK(s, ev, k, a)
    PROVE  RecOK(s, ev, k + 1, RecStep(a, ev[k + 1]))
<1>. DEFINE v == ev[k + 1]
            b == RecStep(a, v)
<1>0. v \in Value /\ v \in Nat /\ TopK \in Nat /\ Len(s) \in Nat /\ s \in Seq(Nat)
  BY ValueIsNat
<1>1. \A w \in Int : /\ CountLte(s, w) \in Nat
                     /\ Among(ev, k, w) \in Nat
                     /\ Among(ev, k + 1, w) = Among(ev, k, w) + IF v <= w THEN 1 ELSE 0
  <2>1. \A w \in Int : CountLte(s, w) \in Nat
    BY <1>0, CountNat
  <2>2. \A w \in Int : /\ Among(ev, k, w) \in Nat
                       /\ Among(ev, k + 1, w) = Among(ev, k, w) + IF v <= w THEN 1 ELSE 0
    BY AmongStep
  <2>. QED
    BY <2>1, <2>2
<1>2. /\ a.s \in Seq(Value) /\ Sorted(a.s) /\ Len(a.s) <= TopK /\ a.on \in BOOLEAN
      /\ a.s \in Seq(Nat) /\ Len(a.s) \in Nat
      /\ \A w \in Int : CountLte(a.s, w) \in Nat /\ CountLte(a.s, w) <= CountLte(s, w) + Among(ev, k, w)
  <2>1. /\ a.s \in Seq(Value) /\ Sorted(a.s) /\ Len(a.s) <= TopK /\ a.on \in BOOLEAN
        /\ \A w \in Int : CountLte(a.s, w) <= CountLte(s, w) + Among(ev, k, w)
    BY DEF RecOK
  <2>2. a.s \in Seq(Nat) /\ Len(a.s) \in Nat
    BY <2>1, ValueIsNat
  <2>3. \A w \in Int : CountLte(a.s, w) \in Nat
    BY <2>1, CountNat
  <2>. QED
    BY <2>1, <2>2, <2>3
<1>. HIDE DEF v
<1>3. CASE a.on /\ Position(a.s, v) < TopK
  <2>1. b.s = Record(a.s, v) /\ b.on = TRUE
    BY <1>3 DEF RecStep
  <2>2. /\ Record(a.s, v) \in Seq(Value) /\ Sorted(Record(a.s, v))
        /\ Len(Record(a.s, v)) = Cap(Len(a.s) + 1)
        /\ \A w \in Int : CountLte(Record(a.s, v), w) =
               IF v <= w THEN Cap(CountLte(a.s, w) + 1) ELSE CountLte(a.s, w)
    BY <1>0, <1>2, RecordShape
  <2>3. Len(b.s) = Cap(Len(s) + (k + 1)) /\ Len(b.s) <= TopK
    <3>1. Len(a.s) = Cap(Len(s) + k)
      BY <1>3 DEF RecOK
    <3>2. Len(b.s) = Cap(Len(a.s) + 1)
      BY <2>1, <2>2
    <3>3. Cap(Cap(Len(s) + k) + 1) = Cap(Len(s) + (k + 1)) /\ Cap(Len(s) + (k + 1)) <= TopK
      BY <1>0 DEF Cap
    <3>. QED
      BY <3>1, <3>2, <3>3
  <2>4. ASSUME NEW w \in Int PROVE CountLte(b.s, w) <= CountLte(s, w) + Among(ev, k + 1, w)
    <3>1. /\ CountLte(a.s, w) \in Nat /\ CountLte(s, w) \in Nat /\ Among(ev, k, w) \in Nat
          /\ CountLte(a.s, w) <= CountLte(s, w) + Among(ev, k, w)
          /\ Among(ev, k + 1, w) = Among(ev, k, w) + IF v <= w THEN 1 ELSE 0
      BY <1>1, <1>2
    <3>2. CountLte(b.s, w) = IF v <= w THEN Cap(CountLte(a.s, w) + 1) ELSE CountLte(a.s, w)
      BY <2>1, <2>2
    <3>3. Cap(CountLte(a.s, w) + 1) <= CountLte(a.s, w) + 1 /\ Cap(CountLte(a.s, w) + 1) \in Nat
      BY <1>0, <3>1 DEF Cap
    <3>. QED
      BY <3>1, <3>2, <3>3
  <2>. HIDE DEF b
  <2>5. RecOK(s, ev, k + 1, b)
    BY <2>1, <2>2, <2>3, <2>4 DEF RecOK
  <2>. QED
    BY <2>5 DEF b, v
<1>4. CASE ~(a.on /\ Position(a.s, v) < TopK)
  <2>1. b.s = a.s /\ b.on = FALSE
    BY <1>4 DEF RecStep
  <2>2. Len(a.s) = TopK
    <3>1. CASE ~a.on
      BY <3>1 DEF RecOK
    <3>2. CASE ~(Position(a.s, v) < TopK)
      <4>1. v - 1 \in Int /\ Position(a.s, v) = CountLte(a.s, v - 1)
        BY <1>0, <1>2, PositionIsCount
      <4>2. Position(a.s, v) \in 0 .. Len(a.s)
        BY <1>2, <4>1, SortedCount
      <4>. QED
        BY <1>0, <1>2, <3>2, <4>2
    <3>. QED
      BY <1>2, <1>4, <3>1, <3>2
  <2>3. ASSUME NEW w \in Int PROVE CountLte(a.s, w) <= CountLte(s, w) + Among(ev, k + 1, w)
    <3>1. /\ CountLte(a.s, w) \in Nat /\ CountLte(s, w) \in Nat /\ Among(ev, k, w) \in Nat
          /\ CountLte(a.s, w) <= CountLte(s, w) + Among(ev, k, w)
          /\ Among(ev, k + 1, w) = Among(ev, k, w) + IF v <= w THEN 1 ELSE 0
      BY <1>1, <1>2
    <3>. QED
      BY <3>1
  <2>. HIDE DEF b
  <2>5. RecOK(s, ev, k + 1, b)
    BY <1>2, <2>1, <2>2, <2>3 DEF RecOK
  <2>. QED
    BY <2>5 DEF b, v
<1>. QED
  BY <1>3, <1>4

\* The loop that merges a vector of evaluations into another one.
LEMMA RecordAllShape ==
    ASSUME NEW s \in Seq(Value), Sorted(s), Len(s) <= TopK, NEW ev \in Seq(Value)
    PROVE  /\ RecordAll(s, ev) \in Seq(Value) /\ Sorted(RecordAll(s, ev))
           /\ Len(RecordAll(s, ev)) <= TopK /\ Len(RecordAll(s, ev)) >= Cap(Len(s) + Len(ev))
           /\ \A w \in Int : CountLte(RecordAll(s, ev), w) <= CountLte(s, w) + CountLte(ev, w)
<1>. DEFINE g == CHOOSE g : Recs(s, ev, g)
            S == [s : Seq(Value), on : BOOLEAN]
            Bad == {k \in Nat : k <= Len(ev) /\ ~(g[1 .. k] \in S /\ RecOK(s, ev, k, g[1 .. k]))}
<1>0. /\ Recs(s, ev, g) /\ DOMAIN ev = 1 .. Len(ev) /\ Len(ev) \in Nat
      /\ \A i \in 1 .. Len(ev) : ev[i] \in Value
      /\ TopK \in Nat /\ Len(s) \in Nat /\ s \in Seq(Nat)
  BY RecsExist, ValueIsNat
<1>. HIDE DEF g
<1>1. \A T \in SUBSET (1 .. Len(ev)) :
          g[T] = IF T = {} THEN [s |-> s, on |-> TRUE] ELSE RecStep(g[T \ {Max(T)}], ev[Max(T)])
  BY <1>0 DEF Recs
<1>2. g[1 .. 0] \in S /\ RecOK(s, ev, 0, g[1 .. 0])
  <2>1. g[1 .. 0] = [s |-> s, on |-> TRUE]
    <3>1. 1 .. 0 = {} /\ {} \in SUBSET (1 .. Len(ev))
      OBVIOUS
    <3>. QED
      BY <1>1, <3>1
  <2>2. Len(s) = Cap(Len(s) + 0)
    BY <1>0 DEF Cap
  <2>3. \A w \in Int : CountLte(s, w) <= CountLte(s, w) + Among(ev, 0, w)
    <3>1. \A w \in Int : CountLte(s, w) \in Nat /\ Among(ev, 0, w) = 0
      BY <1>0, SortedCount, AmongStep
    <3>. QED
      BY <3>1
  <2>. QED
    BY <2>1, <2>2, <2>3 DEF RecOK
<1>3. ASSUME NEW k \in Nat, k + 1 <= Len(ev), g[1 .. k] \in S, RecOK(s, ev, k, g[1 .. k])
      PROVE  g[1 .. k + 1] \in S /\ RecOK(s, ev, k + 1, g[1 .. k + 1])
  <2>1. Max(1 .. k + 1) = k + 1
    <3>0. k + 1 \in Nat /\ k + 1 \in 1 .. k + 1
      OBVIOUS
    <3>1. k + 1 \in Nat /\ 1 .. k + 1 # {} /\ k + 1 \in 1 .. k + 1
      BY <3>0, Zenon
    <3>2. Max(1 .. k + 1) \in 1 .. k + 1 /\ \A m \in 1 .. k + 1 : m <= Max(1 .. k + 1)
      BY <3>1, GreatestNatural
    <3>. QED
      BY <3>1, <3>2
  <2>2. (1 .. k + 1) \ {k + 1} = 1 .. k /\ 1 .. k + 1 \in SUBSET (1 .. Len(ev)) /\ 1 .. k + 1 # {}
    <3>1. k + 1 \in 1 .. k + 1
      OBVIOUS
    <3>2. 1 .. k + 1 # {}
      BY <3>1, Zenon
    <3>. QED
      BY <1>0, <1>3, <3>2
  <2>3. g[1 .. k + 1] = RecStep(g[1 .. k], ev[k + 1])
    BY <1>1, <2>1, <2>2
  <2>4. k + 1 \in 1 .. Len(ev) /\ ev[k + 1] \in Value
    BY <1>0, <1>3
  <2>5. RecStep(g[1 .. k], ev[k + 1]) \in S
    BY <1>3, <2>4, RecStepType
  <2>6. RecOK(s, ev, k + 1, RecStep(g[1 .. k], ev[k + 1]))
    BY <1>3, <2>4, RecOKStep
  <2>. QED
    BY <2>3, <2>5, <2>6
<1>. HIDE DEF S
<1>4. Bad \subseteq Nat
  OBVIOUS
<1>. HIDE DEF Bad
<1>5. Bad = {}
  <2>. SUFFICES ASSUME Bad # {} PROVE FALSE
    OBVIOUS
  <2>1. PICK k \in Bad : \A m \in Bad : k <= m
    BY <1>4, LeastNatural
  <2>2. k \in Nat /\ k <= Len(ev) /\ ~(g[1 .. k] \in S /\ RecOK(s, ev, k, g[1 .. k]))
    BY <2>1 DEF Bad
  <2>3. k # 0
    BY <1>2, <2>2
  <2>4. k - 1 \in Nat /\ (k - 1) + 1 = k /\ k - 1 \notin Bad
    BY <2>1, <2>2, <2>3
  <2>5. g[1 .. k - 1] \in S /\ RecOK(s, ev, k - 1, g[1 .. k - 1])
    BY <1>0, <2>2, <2>4 DEF Bad
  <2>6. g[1 .. (k - 1) + 1] \in S /\ RecOK(s, ev, (k - 1) + 1, g[1 .. (k - 1) + 1])
    BY <1>3, <2>2, <2>4, <2>5
  <2>. QED
    BY <2>2, <2>4, <2>6
<1>6. RecOK(s, ev, Len(ev), g[1 .. Len(ev)])
  BY <1>0, <1>5 DEF Bad
<1>7. RecordAll(s, ev) = g[1 .. Len(ev)].s
  BY <1>0, RecordAllIsRecs DEF g
<1>8. \A w : CountLte(ev, w) = Among(ev, Len(ev), w)
  BY <1>0 DEF CountLte, Among
<1>9. Cap(Len(s) + Len(ev)) <= TopK
  BY <1>0 DEF Cap
<1>. QED
  BY <1>0, <1>6, <1>7, <1>8, <1>9 DEF RecOK

-----------------------------------------------------------------------------
(* TAG: the invariant of the walk over the edges.                            *)

Below(v) == {u \in Value : u <= v}

TagType ==
    /\ live \subseteq Edge /\ live # {}
    /\ visits \in [Edge -> Nat] /\ evalns \in [Edge -> Seq(Value)]
    /\ pc \in [Thread -> {"idle", "visits", "collect", "count", "score"}]
    /\ view \in [Thread -> SUBSET Edge] /\ todo \in [Thread -> SUBSET Edge]
    /\ snap \in [Thread -> [Edge -> Nat]] /\ hits \in [Thread -> [Edge -> Nat]]
    /\ acc \in [Thread -> Seq(Value)] /\ had \in [Thread -> Nat]
    /\ log \in [Edge -> [Value -> Nat]]
    /\ mpc \in {"recv", "up", "sum"} /\ (mpc = "up" => msg[1] \in Edge)

\* Every vector of evaluations is sorted and holds the best of what was recorded.
RecordInv ==
    \A e \in Edge :
        /\ Sorted(evalns[e]) /\ Len(evalns[e]) <= TopK
        /\ policy = "tag" => \A v \in Value : CountLte(evalns[e], v) = Cap(Total(log[e], Below(v)))

\* Where a thread is in its walk, and what its own vector holds.
WalkInv(t) ==
    /\ todo[t] \subseteq view[t]
    /\ pc[t] # "idle" => view[t] # {}
    /\ pc[t] \in {"collect", "count"} => todo[t] # {}
    /\ pc[t] \in {"idle", "score"} => todo[t] = {}
    /\ pc[t] \in {"collect", "count", "score"} => \A e \in view[t] : snap[t][e] > 0
    /\ pc[t] \in {"idle", "visits"} => acc[t] = <<>> /\ had[t] = 0
    /\ Sorted(acc[t]) /\ Len(acc[t]) <= TopK /\ Len(acc[t]) >= Cap(had[t])

\* The evaluations up to w on the edges that are not left to collect from.
Collected(left, w) == [e \in Edge |-> IF e \in left THEN 0 ELSE CountLte(evalns[e], w)]

\* The successes of each edge: counted, or as they would be counted now.
Seen(t) == [e \in Edge |-> IF e \in todo[t] THEN CountLte(evalns[e], Last(acc[t])) ELSE hits[t][e]]

\* What was collected is still on the edges, because below a threshold a vector never
\* loses evaluations; hence the second pass finds at least as many.
CollectInv(t) ==
    pc[t] = "collect" => \A w \in Value : CountLte(acc[t], w) <= Total(Collected(todo[t], w), view[t])

CountInv(t) ==
    pc[t] \in {"count", "score"} /\ acc[t] # <<>> => Len(acc[t]) <= Total(Seen(t), view[t])

ThreadInv(t) == WalkInv(t) /\ CollectInv(t) /\ CountInv(t)

TagInv == TagType /\ RecordInv /\ \A t \in Thread : ThreadInv(t)

LEMMA EdgeSets ==
    ASSUME NEW S \in SUBSET Edge
    PROVE  IsFiniteSet(S) /\ (S # {} => Min(S) \in S)
<1>1. IsFiniteSet(Edge) /\ Edge \subseteq Nat
  BY PolicyAssumption
<1>2. S \in SUBSET Nat
  BY <1>1
<1>. QED
  BY <1>1, <1>2, FS_Subset, LeastNatural

LEMMA BelowFinite ==
    ASSUME NEW v \in Value
    PROVE  IsFiniteSet(Below(v))
<1>1. v \in Nat /\ \A u \in Below(v) : u \in Nat /\ u <= v
  BY ValueIsNat DEF Below
<1>2. IsFiniteSet(0 .. v)
  BY <1>1, FS_Interval
<1>3. Below(v) \subseteq 0 .. v
  BY <1>1
<1>. QED
  BY <1>2, <1>3, FS_Subset

LEMMA LastValue ==
    ASSUME NEW V, NEW s \in Seq(V), s # <<>>
    PROVE  Last(s) \in V /\ Len(s) \in Nat \ {0} /\ Len(s) \in 1 .. Len(s)
<1>1. Len(s) \in Nat /\ Len(s) # 0
  OBVIOUS
<1>2. Len(s) \in 1 .. Len(s)
  BY <1>1
<1>. QED
  BY <1>1, <1>2 DEF Last

LEMMA CapFacts ==
    /\ TopK \in Nat
    /\ \A n \in Nat : Cap(n) \in Nat /\ Cap(n) <= n /\ Cap(n) <= TopK /\ Cap(Cap(n) + 1) = Cap(n + 1)
    /\ \A n, m \in Nat : n <= m => Cap(n) <= Cap(m)
    /\ \A n, m \in Nat : Cap(Cap(n) + m) = Cap(n + m)
    /\ \A n \in Nat : n <= TopK => Cap(n) = n
    /\ Cap(0) = 0
<1>1. TopK \in Nat
  BY PolicyAssumption
<1>. QED
  BY <1>1 DEF Cap

LEMMA CapSum ==
    ASSUME NEW h \in Nat, NEW a \in Nat, NEW n \in Nat, NEW m \in Nat, a >= Cap(h), m >= Cap(a + n)
    PROVE  m >= Cap(h + n)
BY PolicyAssumption DEF Cap

LEMMA EmptySorted == Sorted(<<>>) /\ <<>> \in Seq(Value) /\ Len(<<>>) = 0
BY DEF Sorted

LEMMA CountsAreNat ==
    ASSUME TagType, NEW e \in Edge, NEW w
    PROVE  CountLte(evalns[e], w) \in Nat
<1>1. evalns[e] \in Seq(Value)
  BY DEF TagType
<1>. QED
  BY <1>1, CountNat

LEMMA TagInit == Init => TagInv
<1>. SUFFICES ASSUME Init PROVE TagInv
  OBVIOUS
<1>1. TagType
  BY PolicyAssumption, EmptySorted DEF Init, TagType, Zero, Nothing, NoLog
<1>2. RecordInv
  <2>. SUFFICES ASSUME NEW e \in Edge
                PROVE  /\ Sorted(evalns[e]) /\ Len(evalns[e]) <= TopK
                       /\ \A v \in Value : CountLte(evalns[e], v) = Cap(Total(log[e], Below(v)))
    BY DEF RecordInv
  <2>1. evalns[e] = <<>> /\ \A u \in Value : log[e][u] = 0
    BY DEF Init, Nothing, NoLog
  <2>2. ASSUME NEW v \in Value PROVE CountLte(evalns[e], v) = Cap(Total(log[e], Below(v)))
    <3>1. IsFiniteSet(Below(v))
      BY BelowFinite
    <3>2. Total(log[e], Below(v)) = 0
      BY <2>1, <3>1, TotalZero DEF Below
    <3>3. CountLte(<<>>, v) = 0
      BY EmptySorted, CountNat
    <3>. QED
      BY <2>1, <3>2, <3>3, CapFacts
  <2>. QED
    BY <2>1, <2>2, EmptySorted, CapFacts
<1>3. ASSUME NEW t \in Thread PROVE ThreadInv(t)
  <2>1. pc[t] = "idle" /\ todo[t] = {} /\ acc[t] = <<>> /\ had[t] = 0 /\ view[t] = {}
    BY DEF Init
  <2>. QED
    BY <2>1, EmptySorted, CapFacts DEF ThreadInv, WalkInv, CollectInv, CountInv
<1>. QED
  BY <1>1, <1>2, <1>3 DEF TagInv

\* A thread that does not move keeps its invariant while the vectors only gain
\* evaluations below each threshold.
LEMMA StayStill ==
    ASSUME TagType, TagType', NEW t \in Thread, ThreadInv(t),
           \A e \in Edge : \A w \in Value : CountLte(evalns[e], w) <= CountLte(evalns'[e], w),
           pc'[t] = pc[t], view'[t] = view[t], todo'[t] = todo[t], snap'[t] = snap[t],
           acc'[t] = acc[t], hits'[t] = hits[t], had'[t] = had[t]
    PROVE  ThreadInv(t)'
<1>f. view[t] \in SUBSET Edge /\ IsFiniteSet(view[t]) /\ hits[t] \in [Edge -> Nat]
  BY EdgeSets DEF TagType
<1>n. \A e \in Edge : \A w : CountLte(evalns[e], w) \in Nat /\ CountLte(evalns'[e], w) \in Nat
  <2>1. \A e \in Edge : evalns[e] \in Seq(Value) /\ evalns'[e] \in Seq(Value)
    BY DEF TagType
  <2>. QED
    BY <2>1, CountNat
<1>1. WalkInv(t)'
  BY DEF ThreadInv, WalkInv
<1>2. CollectInv(t)'
  <2>. SUFFICES ASSUME pc[t] = "collect", NEW w \in Value
                PROVE  CountLte(acc[t], w) <= Total(Collected(todo[t], w)', view[t])
    BY DEF CollectInv
  <2>. DEFINE f == Collected(todo[t], w)
              g == Collected(todo[t], w)'
  <2>1. CountLte(acc[t], w) <= Total(f, view[t])
    BY DEF ThreadInv, CollectInv
  <2>2. \A e \in view[t] : f[e] \in Int /\ g[e] \in Int /\ f[e] <= g[e]
    BY <1>f, <1>n DEF Collected
  <2>3. CountLte(acc[t], w) \in Nat
    BY CountNat DEF TagType
  <2>. HIDE DEF f, g
  <2>4. Total(f, view[t]) <= Total(g, view[t]) /\ Total(f, view[t]) \in Int /\ Total(g, view[t]) \in Int
    BY <1>f, <2>2, TotalMono, TotalPick
  <2>5. CountLte(acc[t], w) <= Total(g, view[t])
    BY <2>1, <2>3, <2>4
  <2>. QED
    BY <2>5 DEF g
<1>3. CountInv(t)'
  <2>. SUFFICES ASSUME pc[t] \in {"count", "score"}, acc[t] # <<>>
                PROVE  Len(acc[t]) <= Total(Seen(t)', view[t])
    BY DEF CountInv
  <2>. DEFINE f == Seen(t)
              g == Seen(t)'
  <2>1. Len(acc[t]) <= Total(f, view[t])
    BY DEF ThreadInv, CountInv
  <2>2. Last(acc[t]) \in Value /\ Len(acc[t]) \in Nat
    <3>1. acc[t] \in Seq(Value)
      BY DEF TagType
    <3>. QED
      BY <3>1, LastValue
  <2>3. \A e \in view[t] : f[e] \in Int /\ g[e] \in Int /\ f[e] <= g[e]
    <3>1. \A e \in Edge :
              /\ f[e] = IF e \in todo[t] THEN CountLte(evalns[e], Last(acc[t])) ELSE hits[t][e]
              /\ g[e] = IF e \in todo[t] THEN CountLte(evalns'[e], Last(acc[t])) ELSE hits[t][e]
      BY DEF Seen
    <3>. HIDE DEF f, g
    <3>2. ASSUME NEW e \in view[t] PROVE f[e] \in Int /\ g[e] \in Int /\ f[e] <= g[e]
      <4>1. /\ e \in Edge /\ hits[t][e] \in Nat
            /\ CountLte(evalns[e], Last(acc[t])) \in Nat /\ CountLte(evalns'[e], Last(acc[t])) \in Nat
            /\ CountLte(evalns[e], Last(acc[t])) <= CountLte(evalns'[e], Last(acc[t]))
        BY <1>f, <1>n, <2>2
      <4>. QED
        BY <3>1, <4>1
    <3>. QED
      BY <3>2
  <2>. HIDE DEF f, g
  <2>4. Total(f, view[t]) <= Total(g, view[t]) /\ Total(f, view[t]) \in Int /\ Total(g, view[t]) \in Int
    BY <1>f, <2>3, TotalMono, TotalPick
  <2>5. Len(acc[t]) <= Total(g, view[t])
    BY <2>1, <2>2, <2>4
  <2>. QED
    BY <2>5 DEF g
<1>. QED
  BY <1>1, <1>2, <1>3 DEF ThreadInv

LEMMA OthersStay ==
    ASSUME TagInv, TagType', NEW t, evalns' = evalns,
           \A u \in Thread \ {t} : /\ pc'[u] = pc[u] /\ view'[u] = view[u] /\ todo'[u] = todo[u]
                                   /\ snap'[u] = snap[u] /\ acc'[u] = acc[u] /\ hits'[u] = hits[u]
                                   /\ had'[u] = had[u]
    PROVE  \A u \in Thread \ {t} : ThreadInv(u)'
<1>. SUFFICES ASSUME NEW u \in Thread \ {t} PROVE ThreadInv(u)'
  OBVIOUS
<1>1. TagType /\ ThreadInv(u) /\ u \in Thread
  BY DEF TagInv
<1>2. \A e \in Edge : \A w \in Value : CountLte(evalns[e], w) <= CountLte(evalns'[e], w)
  <2>1. \A e \in Edge : \A w \in Value : CountLte(evalns[e], w) \in Nat
    BY <1>1, CountsAreNat
  <2>. QED
    BY <2>1
<1>. QED
  BY <1>1, <1>2, StayStill

LEMMA BeginTag ==
    ASSUME TagInv, NEW t \in Thread, Begin(t)
    PROVE  TagInv'
<1>1. /\ pc' = [pc EXCEPT ![t] = "visits"] /\ pc[t] = "idle"
      /\ view' = [view EXCEPT ![t] = live] /\ todo' = [todo EXCEPT ![t] = live]
      /\ UNCHANGED <<policy, live, visits, evalns, snap, acc, hits, had, log, mpc, msg>>
  BY DEF Begin, Goto, statVars, monVars
<1>t. TagType
  BY DEF TagInv
<1>2. TagType'
  BY <1>1, <1>t DEF TagType
<1>3. RecordInv'
  BY <1>1 DEF TagInv, RecordInv
<1>4. \A u \in Thread \ {t} : ThreadInv(u)'
  BY <1>1, <1>2, <1>t, OthersStay DEF TagType
<1>5. ThreadInv(t)'
  <2>1. /\ pc'[t] = "visits" /\ view'[t] = live /\ todo'[t] = live /\ acc'[t] = acc[t] /\ had'[t] = had[t]
        /\ live # {}
    BY <1>1, <1>t DEF TagType
  <2>. QED
    BY <1>1, <2>1 DEF TagInv, ThreadInv, WalkInv, CollectInv, CountInv
<1>. QED
  BY <1>2, <1>3, <1>4, <1>5 DEF TagInv

LEMMA ReadTag ==
    ASSUME TagInv, NEW t \in Thread, ReadVisits(t)
    PROVE  TagInv'
<1>t. TagType
  BY DEF TagInv
<1>0. PICK x \in Edge : x = Min(todo[t]) /\ x \in todo[t]
  BY <1>t, EdgeSets DEF ReadVisits, TagType
<1>1. /\ pc[t] = "visits"
      /\ snap' = [snap EXCEPT ![t][x] = visits[x]] /\ todo' = [todo EXCEPT ![t] = @ \ {x}]
      /\ UNCHANGED <<policy, live, visits, evalns, pc, view, acc, hits, had, log, mpc, msg>>
  BY <1>0 DEF ReadVisits, statVars, monVars
<1>2. TagType'
  BY <1>1, <1>t DEF TagType
<1>3. RecordInv'
  BY <1>1 DEF TagInv, RecordInv
<1>4. \A u \in Thread \ {t} : ThreadInv(u)'
  BY <1>1, <1>2, <1>t, OthersStay DEF TagType
<1>5. ThreadInv(t)'
  <2>1. pc'[t] = "visits" /\ todo'[t] \subseteq todo[t]
    BY <1>1, <1>t DEF TagType
  <2>. QED
    BY <1>1, <2>1 DEF TagInv, ThreadInv, WalkInv, CollectInv, CountInv
<1>. QED
  BY <1>2, <1>3, <1>4, <1>5 DEF TagInv

LEMMA DownTag ==
    ASSUME TagInv, NEW t \in Thread, NEW x \in Edge, todo[t] = {}, Down(t, x)
    PROVE  TagInv'
<1>1. /\ visits' = [visits EXCEPT ![x] = @ + 1] /\ pc' = [pc EXCEPT ![t] = "idle"]
      /\ view' = [view EXCEPT ![t] = {}] /\ snap' = [snap EXCEPT ![t] = Zero]
      /\ hits' = [hits EXCEPT ![t] = Zero] /\ acc' = [acc EXCEPT ![t] = <<>>]
      /\ had' = [had EXCEPT ![t] = 0]
      /\ UNCHANGED <<policy, live, evalns, todo, log, mpc, msg>>
  BY DEF Down, Goto
<1>t. TagType
  BY DEF TagInv
<1>2. TagType'
  BY <1>1, <1>t, EmptySorted DEF TagType, Zero
<1>3. RecordInv'
  BY <1>1 DEF TagInv, RecordInv
<1>4. \A u \in Thread \ {t} : ThreadInv(u)'
  BY <1>1, <1>2, <1>t, OthersStay DEF TagType
<1>5. ThreadInv(t)'
  <2>1. pc'[t] = "idle" /\ todo'[t] = {} /\ acc'[t] = <<>> /\ had'[t] = 0 /\ view'[t] = {}
    BY <1>1, <1>t DEF TagType
  <2>. QED
    BY <2>1, EmptySorted, CapFacts DEF ThreadInv, WalkInv, CollectInv, CountInv
<1>. QED
  BY <1>2, <1>3, <1>4, <1>5 DEF TagInv

\* A sorted vector has all its evaluations up to its last one.
LEMMA CountLast ==
    ASSUME NEW s \in Seq(Value), Sorted(s), s # <<>>
    PROVE  CountLte(s, Last(s)) = Len(s)
<1>1. s \in Seq(Nat) /\ Last(s) \in Int /\ Len(s) \in 0 .. Len(s) /\ Len(s) \in 1 .. Len(s)
  BY ValueIsNat, LastValue
<1>2. \A i \in 1 .. Len(s) : s[i] <= Last(s) <=> i <= Len(s)
  BY <1>1 DEF Sorted, Last
<1>. QED
  BY <1>1, <1>2, CountPrefix

LEMMA CollectTag ==
    ASSUME TagInv, NEW t \in Thread, Collect(t)
    PROVE  TagInv'
<1>t. TagType /\ ThreadInv(t)
  BY DEF TagInv
<1>. DEFINE left == IF pc[t] = "visits" THEN view[t] ELSE todo[t]
            x == Min(left)
<1>0. /\ left \in SUBSET view[t] /\ left # {} /\ view[t] \in SUBSET Edge /\ view[t] # {}
      /\ \A e \in view[t] : snap[t][e] > 0
      /\ pc[t] \in {"visits", "collect"} /\ (pc[t] = "visits" => acc[t] = <<>>)
      /\ pc[t] = "collect" => left = todo[t]
  <2>1. CASE Loaded(t) /\ Unvisited(t) = {}
    <3>1. \A e \in view[t] : snap[t][e] \in Nat /\ snap[t][e] # 0
      BY <1>t, <2>1 DEF TagType, Unvisited
    <3>2. \A e \in view[t] : snap[t][e] > 0
      BY <3>1
    <3>. QED
      BY <1>t, <2>1, <3>2 DEF TagType, ThreadInv, WalkInv, Loaded
  <2>2. CASE pc[t] = "collect"
    BY <1>t, <2>2 DEF TagType, ThreadInv, WalkInv
  <2>. QED
    BY <2>1, <2>2 DEF Collect
<1>x. x \in left /\ x \in view[t] /\ x \in Edge
  BY <1>0, EdgeSets
<1>1. /\ acc' = [acc EXCEPT ![t] = RecordAll(@, evalns[x])]
      /\ had' = [had EXCEPT ![t] = @ + Len(evalns[x])]
      /\ todo' = [todo EXCEPT ![t] = IF left = {x} THEN view[t] ELSE left \ {x}]
      /\ pc' = [pc EXCEPT ![t] = IF left = {x} THEN "count" ELSE "collect"]
      /\ UNCHANGED <<policy, live, visits, evalns, view, snap, hits, log, mpc, msg>>
  BY DEF Collect, Goto, statVars, monVars
<1>. HIDE DEF left, x
<1>a. /\ acc[t] \in Seq(Value) /\ Sorted(acc[t]) /\ Len(acc[t]) <= TopK /\ Len(acc[t]) >= Cap(had[t])
      /\ evalns[x] \in Seq(Value) /\ had[t] \in Nat /\ Len(acc[t]) \in Nat /\ Len(evalns[x]) \in Nat
  <2>1. acc[t] \in Seq(Value) /\ evalns[x] \in Seq(Value) /\ had[t] \in Nat
    BY <1>t, <1>x DEF TagType
  <2>2. Sorted(acc[t]) /\ Len(acc[t]) <= TopK /\ Len(acc[t]) >= Cap(had[t])
    BY <1>t DEF ThreadInv, WalkInv
  <2>3. Len(acc[t]) \in Nat /\ Len(evalns[x]) \in Nat
    BY <2>1
  <2>. QED
    BY <2>1, <2>2, <2>3
<1>. DEFINE r == RecordAll(acc[t], evalns[x])
<1>r. /\ r \in Seq(Value) /\ Sorted(r) /\ Len(r) <= TopK /\ Len(r) >= Cap(Len(acc[t]) + Len(evalns[x]))
      /\ \A w \in Int : CountLte(r, w) <= CountLte(acc[t], w) + CountLte(evalns[x], w)
  BY <1>a, RecordAllShape
<1>b. acc' = [acc EXCEPT ![t] = r]
  BY <1>1
<1>. HIDE DEF r
<1>2. TagType'
  <2>1. /\ (IF left = {x} THEN view[t] ELSE left \ {x}) \in SUBSET Edge
        /\ (IF left = {x} THEN "count" ELSE "collect") \in {"idle", "visits", "collect", "count", "score"}
        /\ had[t] + Len(evalns[x]) \in Nat
    BY <1>0, <1>a
  <2>2. pc' \in [Thread -> {"idle", "visits", "collect", "count", "score"}]
    BY <1>1, <1>t, <2>1 DEF TagType
  <2>3. todo' \in [Thread -> SUBSET Edge]
    BY <1>1, <1>t, <2>1 DEF TagType
  <2>4. acc' \in [Thread -> Seq(Value)] /\ had' \in [Thread -> Nat]
    BY <1>1, <1>b, <1>r, <1>t, <2>1 DEF TagType
  <2>. QED
    BY <1>1, <1>t, <2>2, <2>3, <2>4 DEF TagType
<1>3. RecordInv'
  BY <1>1 DEF TagInv, RecordInv
<1>4. \A u \in Thread \ {t} : ThreadInv(u)'
  BY <1>1, <1>2, <1>t, OthersStay DEF TagType
<1>v. /\ acc'[t] = r /\ had'[t] = had[t] + Len(evalns[x]) /\ view'[t] = view[t] /\ snap'[t] = snap[t]
      /\ hits'[t] = hits[t]
      /\ todo'[t] = IF left = {x} THEN view[t] ELSE left \ {x}
      /\ pc'[t] = IF left = {x} THEN "count" ELSE "collect"
  BY <1>1, <1>b, <1>t DEF TagType
<1>5. WalkInv(t)'
  <2>1. Len(r) \in Nat /\ Len(r) >= Cap(had[t] + Len(evalns[x]))
    <3>1. Len(r) \in Nat
      BY <1>r
    <3>. QED
      BY <1>a, <1>r, <3>1, CapSum
  <2>2. left # {x} => left \ {x} # {}
    BY <1>x
  <2>. QED
    BY <1>0, <1>r, <1>v, <1>x, <2>1, <2>2 DEF WalkInv
<1>n. IsFiniteSet(view[t]) /\ \A e \in Edge, w \in Value : CountLte(evalns[e], w) \in Nat
  BY <1>0, <1>t, EdgeSets, CountsAreNat
<1>6. ASSUME NEW w \in Value
      PROVE  CountLte(r, w) <= Total(Collected(left \ {x}, w), view[t])
  <2>. DEFINE f == Collected(left, w)
              g == Collected(left \ {x}, w)
  <2>1. /\ \A e \in view[t] : f[e] \in Nat /\ g[e] \in Nat
        /\ \A e \in view[t] \ {x} : f[e] = g[e]
        /\ f[x] = 0 /\ g[x] = CountLte(evalns[x], w)
    BY <1>0, <1>n, <1>x DEF Collected
  <2>2. CountLte(acc[t], w) <= Total(f, view[t])
    <3>1. CASE pc[t] = "visits"
      <4>1. CountLte(acc[t], w) = 0
        BY <1>0, <1>a, <3>1, CountNat
      <4>2. Total(f, view[t]) \in Nat
        <5>. HIDE DEF f
        <5>. QED
          BY <1>n, <2>1, TotalNat
      <4>. QED
        BY <4>1, <4>2
    <3>2. CASE pc[t] = "collect"
      BY <1>0, <1>t, <3>2 DEF ThreadInv, CollectInv
    <3>. QED
      BY <1>0, <3>1, <3>2
  <2>. HIDE DEF f, g
  <2>i. \A e \in view[t] : f[e] \in Int /\ g[e] \in Int
    BY <2>1
  <2>3. Total(f, view[t]) \in Int
    BY <1>n, <2>i, TotalPick
  <2>u. Total(g, view[t]) = Total(f, view[t]) + (g[x] - f[x])
    <3>1. \A e \in view[t] \ {x} : f[e] = g[e]
      BY <2>1
    <3>2. IsFiniteSet(view[t]) /\ x \in view[t]
      BY <1>n, <1>x
    <3>. QED
      BY <2>i, <3>1, <3>2, TotalUpdate
  <2>4. CountLte(r, w) \in Nat /\ CountLte(acc[t], w) \in Nat /\ CountLte(evalns[x], w) \in Nat /\ w \in Int
    <3>1. CountLte(r, w) \in Nat
      BY <1>r, CountNat
    <3>2. CountLte(acc[t], w) \in Nat
      BY <1>a, CountNat
    <3>3. CountLte(evalns[x], w) \in Nat
      BY <1>a, CountNat
    <3>4. w \in Int
      BY ValueIsNat
    <3>. QED
      BY <3>1, <3>2, <3>3, <3>4
  <2>5. CountLte(r, w) <= CountLte(acc[t], w) + CountLte(evalns[x], w)
    BY <1>r, <2>4
  <2>6. CountLte(r, w) <= Total(g, view[t])
    BY <2>1, <2>2, <2>3, <2>4, <2>5, <2>u
  <2>. QED
    BY <2>6 DEF g
<1>7. CollectInv(t)'
  <2>. SUFFICES ASSUME left # {x}, NEW w \in Value
                PROVE  CountLte(r, w) <= Total(Collected(left \ {x}, w), view[t])
    <3>1. left # {x} => todo'[t] = left \ {x}
      BY <1>v
    <3>2. left # {x} => \A w \in Value : Collected(todo[t], w)' = Collected(left \ {x}, w)
      BY <1>1, <3>1 DEF Collected
    <3>. QED
      BY <1>v, <3>2 DEF CollectInv
  <2>. QED
    BY <1>6
<1>8. CountInv(t)'
  <2>. SUFFICES ASSUME left = {x}, r # <<>>
                PROVE  Len(r) <= Total(Seen(t)', view[t])
    BY <1>v DEF CountInv
  <2>. DEFINE w == Last(r)
              f == Collected(left \ {x}, w)
              g == Seen(t)'
  <2>1. w \in Value /\ CountLte(r, w) = Len(r)
    BY <1>r, LastValue, CountLast
  <2>2. Len(r) <= Total(f, view[t])
    BY <1>6, <2>1
  <2>3. \A e \in view[t] : f[e] \in Int /\ g[e] \in Int /\ f[e] = g[e]
    <3>1. \A e \in view[t] : f[e] = CountLte(evalns[e], w) /\ g[e] = CountLte(evalns[e], w)
      BY <1>0, <1>1, <1>v DEF Collected, Seen
    <3>2. \A e \in view[t] : CountLte(evalns[e], w) \in Nat
      BY <1>0, <1>n, <2>1
    <3>. HIDE DEF w, f, g
    <3>. QED
      BY <3>1, <3>2
  <2>. HIDE DEF f, g
  <2>4. Total(g, view[t]) = Total(f, view[t])
    BY <1>n, <2>3, TotalSame
  <2>. QED
    BY <2>2, <2>4 DEF g
<1>. QED
  BY <1>2, <1>3, <1>4, <1>5, <1>7, <1>8 DEF TagInv, ThreadInv

LEMMA CountTag ==
    ASSUME TagInv, NEW t \in Thread, Count(t)
    PROVE  TagInv'
<1>t. TagType /\ ThreadInv(t)
  BY DEF TagInv
<1>0. PICK x \in Edge : x = Min(todo[t]) /\ x \in todo[t] /\ x \in view[t]
  BY <1>t, EdgeSets DEF Count, TagType, ThreadInv, WalkInv
<1>1. /\ pc[t] = "count"
      /\ hits' = [hits EXCEPT ![t][x] = Successes(t, evalns[x])] /\ todo' = [todo EXCEPT ![t] = @ \ {x}]
      /\ pc' = [pc EXCEPT ![t] = IF Cardinality(todo[t]) = 1 THEN "score" ELSE "count"]
      /\ UNCHANGED <<policy, live, visits, evalns, view, snap, acc, had, log, mpc, msg>>
  BY <1>0 DEF Count, Goto, statVars, monVars
<1>n. /\ view[t] \in SUBSET Edge /\ IsFiniteSet(view[t]) /\ todo[t] \in SUBSET Edge /\ IsFiniteSet(todo[t])
      /\ \A e \in Edge : \A w : CountLte(evalns[e], w) \in Nat
      /\ Successes(t, evalns[x]) \in Nat
  <2>1. /\ view[t] \in SUBSET Edge /\ IsFiniteSet(view[t]) /\ todo[t] \in SUBSET Edge /\ IsFiniteSet(todo[t])
        /\ \A e \in Edge : \A w : CountLte(evalns[e], w) \in Nat
    BY <1>t, EdgeSets, CountsAreNat DEF TagType
  <2>2. Len(evalns[x]) \in Nat
    BY <1>t DEF TagType
  <2>. QED
    BY <2>1, <2>2 DEF Successes
<1>2. TagType'
  BY <1>1, <1>n, <1>t DEF TagType
<1>3. RecordInv'
  BY <1>1 DEF TagInv, RecordInv
<1>4. \A u \in Thread \ {t} : ThreadInv(u)'
  BY <1>1, <1>2, <1>t, OthersStay DEF TagType
<1>v. /\ acc'[t] = acc[t] /\ had'[t] = had[t] /\ view'[t] = view[t] /\ snap'[t] = snap[t]
      /\ hits'[t][x] = Successes(t, evalns[x]) /\ \A e \in Edge : e # x => hits'[t][e] = hits[t][e]
      /\ todo'[t] = todo[t] \ {x}
      /\ pc'[t] = IF Cardinality(todo[t]) = 1 THEN "score" ELSE "count"
  BY <1>1, <1>t DEF TagType
<1>5. WalkInv(t)'
  <2>1. Cardinality(todo[t]) = 1 => todo[t] \ {x} = {}
    <3>1. Cardinality(todo[t]) = 1 => \E y : todo[t] = {y}
      BY <1>n, FS_Singleton
    <3>. QED
      BY <1>0, <3>1
  <2>2. Cardinality(todo[t]) # 1 => todo[t] \ {x} # {}
    <3>1. todo[t] \ {x} = {} => todo[t] = {x}
      BY <1>0
    <3>2. Cardinality({x}) = 1
      BY FS_Singleton
    <3>. QED
      BY <3>1, <3>2
  <2>. QED
    BY <1>1, <1>t, <1>v, <2>1, <2>2 DEF ThreadInv, WalkInv
<1>6. CollectInv(t)'
  BY <1>v DEF CollectInv
<1>7. CountInv(t)'
  <2>. SUFFICES ASSUME acc[t] # <<>> PROVE Len(acc[t]) <= Total(Seen(t)', view[t])
    BY <1>v DEF CountInv
  <2>. DEFINE f == Seen(t)
              g == Seen(t)'
  <2>1. Len(acc[t]) <= Total(f, view[t])
    BY <1>1, <1>t DEF ThreadInv, CountInv
  <2>2. \A e \in view[t] : f[e] \in Int /\ g[e] \in Int /\ f[e] = g[e]
    <3>1. \A e \in Edge :
              /\ f[e] = IF e \in todo[t] THEN CountLte(evalns[e], Last(acc[t])) ELSE hits[t][e]
              /\ g[e] = IF e \in todo[t] \ {x} THEN CountLte(evalns[e], Last(acc[t])) ELSE hits'[t][e]
      BY <1>1, <1>v DEF Seen
    <3>2. hits'[t][x] = CountLte(evalns[x], Last(acc[t])) /\ \A e \in Edge : hits[t][e] \in Nat
      BY <1>t, <1>v DEF Successes, TagType
    <3>. HIDE DEF f, g
    <3>3. ASSUME NEW e \in view[t] PROVE f[e] \in Int /\ g[e] \in Int /\ f[e] = g[e]
      <4>1. e \in Edge /\ hits[t][e] \in Nat /\ CountLte(evalns[e], Last(acc[t])) \in Nat
        BY <1>n, <3>2
      <4>2. CASE e = x
        BY <1>0, <3>1, <3>2, <4>1, <4>2
      <4>3. CASE e # x
        BY <1>v, <3>1, <4>1, <4>3
      <4>. QED
        BY <4>2, <4>3
    <3>. QED
      BY <3>3
  <2>. HIDE DEF f, g
  <2>3. Total(g, view[t]) = Total(f, view[t])
    BY <1>n, <2>2, TotalSame
  <2>. QED
    BY <2>1, <2>3 DEF g
<1>. QED
  BY <1>2, <1>3, <1>4, <1>5, <1>6, <1>7 DEF TagInv, ThreadInv

\* A record: one more evaluation below each threshold from v on, up to topk.
LEMMA RecordGrows ==
    ASSUME NEW s \in Seq(Value), Sorted(s), Len(s) <= TopK, NEW v \in Value
    PROVE  /\ Record(s, v) \in Seq(Value) /\ Sorted(Record(s, v)) /\ Len(Record(s, v)) <= TopK
           /\ \A w \in Value : /\ CountLte(s, w) \in Nat /\ CountLte(Record(s, v), w) \in Nat
                               /\ CountLte(s, w) <= CountLte(Record(s, v), w)
                               /\ CountLte(Record(s, v), w) =
                                      IF v <= w THEN Cap(CountLte(s, w) + 1) ELSE CountLte(s, w)
<1>. DEFINE r == Record(s, v)
<1>1. /\ r \in Seq(Value) /\ Sorted(r) /\ Len(r) = Cap(Len(s) + 1)
      /\ \A w \in Int : CountLte(r, w) = IF v <= w THEN Cap(CountLte(s, w) + 1) ELSE CountLte(s, w)
  BY RecordShape
<1>. HIDE DEF r
<1>2. Len(s) \in Nat /\ Len(r) <= TopK /\ s \in Seq(Nat)
  <2>1. Len(s) \in Nat /\ Len(s) + 1 \in Nat /\ s \in Seq(Nat)
    BY ValueIsNat
  <2>2. Cap(Len(s) + 1) <= TopK
    BY <2>1, CapFacts
  <2>. QED
    BY <1>1, <2>1, <2>2
<1>3. ASSUME NEW w \in Value
      PROVE  /\ CountLte(s, w) \in Nat /\ CountLte(r, w) \in Nat
             /\ CountLte(s, w) <= CountLte(r, w)
             /\ CountLte(r, w) = IF v <= w THEN Cap(CountLte(s, w) + 1) ELSE CountLte(s, w)
  <2>. DEFINE n == CountLte(s, w)
  <2>1. w \in Int
    BY ValueIsNat
  <2>2. n \in 0 .. Len(s)
    BY <1>2, <2>1, SortedCount
  <2>3. CountLte(r, w) = IF v <= w THEN Cap(n + 1) ELSE n
    BY <1>1, <2>1
  <2>. HIDE DEF n
  <2>4. n \in Nat /\ n <= TopK /\ TopK \in Nat
    BY <1>2, <2>2, CapFacts
  <2>5. Cap(n + 1) \in Nat /\ n <= Cap(n + 1)
    BY <2>4 DEF Cap
  <2>6. CountLte(r, w) \in Nat /\ n <= CountLte(r, w)
    BY <2>3, <2>4, <2>5
  <2>. QED
    BY <2>3, <2>4, <2>6 DEF n
<1>. QED
  BY <1>1, <1>2, <1>3 DEF r

\* What the history gains when v is recorded once more.
LEMMA HistoryGrows ==
    ASSUME NEW f \in [Value -> Nat], NEW v \in Value, NEW w \in Value
    PROVE  /\ Total(f, Below(w)) \in Nat
           /\ Total([f EXCEPT ![v] = @ + 1], Below(w)) =
                  IF v <= w THEN Total(f, Below(w)) + 1 ELSE Total(f, Below(w))
<1>. DEFINE g == [f EXCEPT ![v] = @ + 1]
<1>1. IsFiniteSet(Below(w)) /\ (v \in Below(w) <=> v <= w)
  BY BelowFinite DEF Below
<1>2. \A u \in Below(w) : f[u] \in Nat /\ f[u] \in Int /\ g[u] \in Int /\ (u # v => f[u] = g[u])
  BY DEF Below
<1>3. g[v] = f[v] + 1 /\ f[v] \in Nat
  OBVIOUS
<1>. HIDE DEF g
<1>4. Total(f, Below(w)) \in Nat
  BY <1>1, <1>2, TotalNat
<1>5. CASE v <= w
  <2>1. v \in Below(w) /\ \A u \in Below(w) \ {v} : f[u] = g[u]
    BY <1>1, <1>2, <1>5
  <2>2. \A u \in Below(w) : f[u] \in Int /\ g[u] \in Int
    BY <1>2
  <2>3. Total(g, Below(w)) = Total(f, Below(w)) + (g[v] - f[v])
    BY <1>1, <2>1, <2>2, TotalUpdate
  <2>4. Total(g, Below(w)) = Total(f, Below(w)) + 1
    BY <1>3, <1>4, <2>3
  <2>. QED
    BY <1>4, <1>5, <2>4 DEF g
<1>6. CASE ~(v <= w)
  <2>1. \A u \in Below(w) : f[u] \in Int /\ g[u] \in Int /\ f[u] = g[u]
    BY <1>1, <1>2, <1>6
  <2>2. Total(g, Below(w)) = Total(f, Below(w))
    BY <1>1, <2>1, TotalSame
  <2>. QED
    BY <1>4, <1>6, <2>2 DEF g
<1>. QED
  BY <1>5, <1>6

LEMMA UpTag ==
    ASSUME TagInv, Up
    PROVE  TagInv'
<1>t. TagType /\ RecordInv
  BY DEF TagInv
<1>0. PICK x \in Edge : x = msg[1]
  BY <1>t DEF TagType, Up
<1>1. PICK v \in Value :
          /\ log' = [log EXCEPT ![x][v] = IF policy = "rr" THEN @ ELSE @ + 1]
          /\ evalns' = [evalns EXCEPT ![x] = IF policy = "tag" THEN Record(@, v) ELSE @]
  BY <1>0 DEF Up
<1>u. /\ mpc' \in {"recv", "sum"}
      /\ UNCHANGED <<policy, live, visits, pc, view, todo, snap, acc, hits, had>>
  BY DEF Up, threadVars
<1>s. /\ \A e \in Edge : evalns[e] \in Seq(Value) /\ Sorted(evalns[e]) /\ Len(evalns[e]) <= TopK
      /\ log[x] \in [Value -> Nat] /\ evalns \in [Edge -> Seq(Value)] /\ log \in [Edge -> [Value -> Nat]]
  BY <1>t DEF TagType, RecordInv
<1>. DEFINE r == IF policy = "tag" THEN Record(evalns[x], v) ELSE evalns[x]
<1>r. /\ r \in Seq(Value) /\ Sorted(r) /\ Len(r) <= TopK
      /\ \A w \in Value : /\ CountLte(evalns[x], w) <= CountLte(r, w)
                          /\ policy = "tag" => CountLte(r, w) =
                                 IF v <= w THEN Cap(CountLte(evalns[x], w) + 1) ELSE CountLte(evalns[x], w)
  <2>1. CASE policy = "tag"
    BY <1>s, <2>1, RecordGrows
  <2>2. CASE policy # "tag"
    <3>1. \A w \in Value : CountLte(evalns[x], w) \in Nat
      BY <1>t, CountsAreNat
    <3>. QED
      BY <1>s, <2>2, <3>1
  <2>. QED
    BY <2>1, <2>2
<1>e. evalns'[x] = r /\ evalns' \in [Edge -> Seq(Value)] /\ \A e \in Edge \ {x} : evalns'[e] = evalns[e]
  <2>1. evalns' = [evalns EXCEPT ![x] = r]
    BY <1>1, <1>s
  <2>. HIDE DEF r
  <2>. QED
    BY <1>r, <1>s, <2>1
<1>. HIDE DEF r
<1>l. /\ log' \in [Edge -> [Value -> Nat]] /\ \A e \in Edge \ {x} : log'[e] = log[e]
      /\ policy = "tag" => log'[x] = [log[x] EXCEPT ![v] = @ + 1]
  <2>. DEFINE h == [log[x] EXCEPT ![v] = IF policy = "rr" THEN @ ELSE @ + 1]
  <2>1. h \in [Value -> Nat] /\ (policy = "tag" => h = [log[x] EXCEPT ![v] = @ + 1])
    <3>1. log[x][v] \in Nat /\ log[x] \in [Value -> Nat]
      BY <1>s
    <3>2. (IF policy = "rr" THEN log[x][v] ELSE log[x][v] + 1) \in Nat
      BY <3>1
    <3>. QED
      BY <3>1, <3>2
  <2>2. log' = [log EXCEPT ![x] = h]
    BY <1>1, <1>s
  <2>. HIDE DEF h
  <2>3. log'[x] = h /\ log' \in [Edge -> [Value -> Nat]] /\ \A e \in Edge \ {x} : log'[e] = log[e]
    BY <1>s, <2>1, <2>2
  <2>. QED
    BY <2>1, <2>3
<1>2. TagType'
  BY <1>e, <1>l, <1>t, <1>u DEF TagType
<1>3. RecordInv'
  <2>. SUFFICES ASSUME NEW e \in Edge
                PROVE  /\ Sorted(evalns'[e]) /\ Len(evalns'[e]) <= TopK
                       /\ policy = "tag" =>
                            \A w \in Value : CountLte(evalns'[e], w) = Cap(Total(log'[e], Below(w)))
    BY <1>u DEF RecordInv
  <2>1. CASE e # x
    BY <1>e, <1>l, <1>t, <2>1 DEF RecordInv
  <2>2. CASE e = x
    <3>1. ASSUME policy = "tag", NEW w \in Value
          PROVE  CountLte(r, w) = Cap(Total(log'[x], Below(w)))
      <4>1. /\ Total(log[x], Below(w)) \in Nat
            /\ Total(log'[x], Below(w)) =
                   IF v <= w THEN Total(log[x], Below(w)) + 1 ELSE Total(log[x], Below(w))
        <5>1. log'[x] = [log[x] EXCEPT ![v] = @ + 1]
          BY <1>l, <3>1
        <5>2. log[x] \in [Value -> Nat]
          BY <1>s
        <5>3. /\ Total(log[x], Below(w)) \in Nat
              /\ Total([log[x] EXCEPT ![v] = @ + 1], Below(w)) =
                     IF v <= w THEN Total(log[x], Below(w)) + 1 ELSE Total(log[x], Below(w))
          BY <5>2, HistoryGrows
        <5>. QED
          BY <5>1, <5>3
      <4>2. CountLte(evalns[x], w) = Cap(Total(log[x], Below(w)))
        BY <1>t, <3>1 DEF RecordInv
      <4>3. CountLte(r, w) = IF v <= w THEN Cap(CountLte(evalns[x], w) + 1) ELSE CountLte(evalns[x], w)
        BY <1>r, <3>1
      <4>4. Cap(Cap(Total(log[x], Below(w))) + 1) = Cap(Total(log[x], Below(w)) + 1)
        BY <4>1, CapFacts
      <4>. QED
        BY <4>1, <4>2, <4>3, <4>4
    <3>. QED
      BY <1>e, <1>r, <2>2, <3>1
  <2>. QED
    BY <2>1, <2>2
<1>4. \A e \in Edge : \A w \in Value : CountLte(evalns[e], w) <= CountLte(evalns'[e], w)
  <2>1. \A e \in Edge : \A w \in Value : CountLte(evalns[e], w) \in Nat
    BY <1>t, CountsAreNat
  <2>2. ASSUME NEW e \in Edge, NEW w \in Value PROVE CountLte(evalns[e], w) <= CountLte(evalns'[e], w)
    <3>1. CASE e = x
      BY <1>e, <1>r, <3>1
    <3>2. CASE e # x
      <4>1. evalns'[e] = evalns[e] /\ CountLte(evalns[e], w) \in Nat
        BY <1>e, <2>1, <3>2
      <4>. QED
        BY <4>1
    <3>. QED
      BY <3>1, <3>2
  <2>. QED
    BY <2>2
<1>5. ASSUME NEW t \in Thread PROVE ThreadInv(t)'
  BY <1>2, <1>4, <1>t, <1>u, StayStill DEF TagInv
<1>. QED
  BY <1>2, <1>3, <1>5 DEF TagInv

\* At the barrier no thread is in its walk, so the statistics can be dropped.
LEMMA RestartTag ==
    ASSUME TagInv, Restart
    PROVE  TagInv'
<1>1. /\ visits' = Zero /\ evalns' = Nothing /\ log' = NoLog /\ \A t \in Thread : pc[t] = "idle"
      /\ UNCHANGED <<policy, live, pc, view, todo, snap, acc, hits, had, mpc, msg>>
  BY DEF Restart, Reset, threadVars
<1>2. TagType'
  BY <1>1, EmptySorted DEF TagInv, TagType, Zero, Nothing, NoLog
<1>3. RecordInv'
  <2>. SUFFICES ASSUME NEW e \in Edge
                PROVE  /\ Sorted(evalns'[e]) /\ Len(evalns'[e]) <= TopK
                       /\ \A v \in Value : CountLte(evalns'[e], v) = Cap(Total(log'[e], Below(v)))
    BY DEF RecordInv
  <2>1. evalns'[e] = <<>> /\ \A u \in Value : log'[e][u] = 0
    BY <1>1 DEF Nothing, NoLog
  <2>2. ASSUME NEW v \in Value PROVE CountLte(evalns'[e], v) = Cap(Total(log'[e], Below(v)))
    <3>1. IsFiniteSet(Below(v))
      BY BelowFinite
    <3>2. Total(log'[e], Below(v)) = 0
      BY <2>1, <3>1, TotalZero DEF Below
    <3>3. CountLte(<<>>, v) = 0
      BY EmptySorted, CountNat
    <3>. QED
      BY <2>1, <3>2, <3>3, CapFacts
  <2>. QED
    BY <2>1, <2>2, EmptySorted, CapFacts
<1>4. ASSUME NEW t \in Thread PROVE ThreadInv(t)'
  BY <1>1 DEF TagInv, ThreadInv, WalkInv, CollectInv, CountInv
<1>. QED
  BY <1>2, <1>3, <1>4 DEF TagInv

\* What only touches the live edges, the monitor's mailbox or UCT's sums.
LEMMA KeepTag ==
    ASSUME TagInv, live' \subseteq Edge, live' # {},
           mpc' \in {"recv", "up", "sum"}, mpc' = "up" => msg'[1] \in Edge,
           UNCHANGED <<policy, visits, evalns, pc, view, todo, snap, acc, hits, had, log>>
    PROVE  TagInv'
<1>1. TagType'
  BY DEF TagInv, TagType
<1>2. RecordInv'
  BY DEF TagInv, RecordInv
<1>3. \A t \in Thread : ThreadInv(t)'
  BY DEF TagInv, ThreadInv, WalkInv, CollectInv, CountInv, Collected, Seen
<1>. QED
  BY <1>1, <1>2, <1>3 DEF TagInv

LEMMA TagStep == TagInv /\ [Next]_vars => TagInv'
<1>. SUFFICES ASSUME TagInv, [Next]_vars PROVE TagInv'
  OBVIOUS
<1>t. /\ live \subseteq Edge /\ live # {} /\ view \in [Thread -> SUBSET Edge]
      /\ mpc \in {"recv", "up", "sum"} /\ (mpc = "up" => msg[1] \in Edge)
      /\ \A t \in Thread : pc[t] = "score" => todo[t] = {}
  BY DEF TagInv, TagType, ThreadInv, WalkInv
<1>1. ASSUME NEW t \in Thread, ThreadNext(t) PROVE TagInv'
  <2>1. CASE Begin(t)
    BY <2>1, BeginTag
  <2>2. CASE ReadVisits(t)
    BY <2>2, ReadTag
  <2>3. CASE \E e \in view[t] : todo[t] = {} /\ Down(t, e)
    BY <1>t, <2>3, DownTag
  <2>4. CASE Collect(t)
    BY <2>4, CollectTag
  <2>5. CASE Count(t)
    BY <2>5, CountTag
  <2>6. PickRoundRobin(t) => \E e \in view[t] : todo[t] = {} /\ Down(t, e)
    BY DEF PickRoundRobin, Loaded, LeastVisited
  <2>7. PickUCT(t) => \E e \in view[t] : todo[t] = {} /\ Down(t, e)
    BY DEF PickUCT, Loaded, Unvisited, HighestUCT
  <2>8. PickUnvisited(t) => \E e \in view[t] : todo[t] = {} /\ Down(t, e)
    BY DEF PickUnvisited, Loaded, Unvisited
  <2>9. PickScore(t) => \E e \in view[t] : todo[t] = {} /\ Down(t, e)
    BY <1>t DEF PickScore
  <2>. QED
    BY <1>1, <2>1, <2>2, <2>3, <2>4, <2>5, <2>6, <2>7, <2>8, <2>9 DEF ThreadNext
<1>2. CASE Kill
  BY <1>2, <1>t, KeepTag DEF Kill, statVars, threadVars, monVars
<1>3. CASE Commit
  BY <1>3, <1>t, KeepTag DEF Commit, statVars, threadVars
<1>4. CASE Up
  BY <1>4, UpTag
<1>5. CASE UpSum
  BY <1>5, <1>t, KeepTag DEF UpSum, threadVars
<1>6. CASE Restart
  BY <1>6, RestartTag
<1>7. CASE UNCHANGED vars
  BY <1>7, <1>t, KeepTag DEF vars, statVars, threadVars, monVars
<1>. QED
  BY <1>1, <1>2, <1>3, <1>4, <1>5, <1>6, <1>7 DEF Next

LEMMA TagAlways == Spec => []TagInv
BY TagInit, TagStep, PTL DEF Spec

(***************************************************************************)
(* The vector of an edge holds exactly the topk best of the evaluations    *)
(* backpropagated through it since the last restart, in order: no order in *)
(* which TAGStats::up, Evaluations::record and the restarts run loses one  *)
(* that belongs there or keeps one that does not.                          *)
(***************************************************************************)
THEOREM EvaluationsAreTheBest == Spec => []TopkOfHistory
<1>1. TagInv => TopkOfHistory
  <2>. SUFFICES ASSUME TagInv, policy = "tag", NEW e \in Edge
                PROVE  /\ \A i \in 1 .. Len(evalns[e]) - 1 : evalns[e][i] <= evalns[e][i + 1]
                       /\ \A v \in Value :
                            CountLte(evalns[e], v) =
                                IF Total(log[e], {u \in Value : u <= v}) < TopK
                                THEN Total(log[e], {u \in Value : u <= v}) ELSE TopK
    BY DEF TopkOfHistory
  <2>1. Sorted(evalns[e]) /\ \A v \in Value : CountLte(evalns[e], v) = Cap(Total(log[e], Below(v)))
    BY DEF TagInv, RecordInv
  <2>2. Len(evalns[e]) \in Nat
    BY DEF TagInv, TagType
  <2>3. \A i \in 1 .. Len(evalns[e]) - 1 : evalns[e][i] <= evalns[e][i + 1]
    BY <2>1, <2>2 DEF Sorted
  <2>. QED
    BY <2>1, <2>3 DEF Cap, Below
<1>. QED
  BY <1>1, TagAlways, PTL

(***************************************************************************)
(* TAGPolicy::pick_child locks every vector twice, for the threshold and   *)
(* for the successes, and the monitor records and evicts in between: the   *)
(* successes still reach topk, or all the evaluations collected, for every *)
(* number of threads and edges.                                            *)
(***************************************************************************)
THEOREM ThresholdReached == Spec => []SuccessesReachTopk
<1>1. TagInv => SuccessesReachTopk
  <2>. SUFFICES ASSUME TagInv, NEW t \in Thread, pc[t] = "score"
                PROVE  Total(hits[t], view[t]) >= Cap(had[t])
    BY DEF SuccessesReachTopk, Cap
  <2>1. /\ view[t] \in SUBSET Edge /\ hits[t] \in [Edge -> Nat] /\ todo[t] = {} /\ had[t] \in Nat
        /\ acc[t] \in Seq(Value) /\ Len(acc[t]) >= Cap(had[t])
        /\ acc[t] # <<>> => Len(acc[t]) <= Total(Seen(t), view[t])
    BY DEF TagInv, TagType, ThreadInv, WalkInv, CountInv
  <2>2. Seen(t) = hits[t]
    BY <2>1 DEF Seen
  <2>3. IsFiniteSet(view[t]) /\ \A e \in view[t] : hits[t][e] \in Nat
    BY <2>1, EdgeSets
  <2>4. Total(hits[t], view[t]) \in Nat
    BY <2>3, TotalNat
  <2>5. Cap(had[t]) \in Nat /\ Len(acc[t]) \in Nat /\ (acc[t] = <<>> => Len(acc[t]) = 0)
    <3>1. Cap(had[t]) \in Nat
      BY <2>1, CapFacts
    <3>2. Len(acc[t]) \in Nat /\ (acc[t] = <<>> => Len(acc[t]) = 0)
      BY <2>1
    <3>. QED
      BY <3>1, <3>2
  <2>. QED
    BY <2>1, <2>2, <2>4, <2>5
<1>. QED
  BY <1>1, TagAlways, PTL

(***************************************************************************)
(* When heval is computed the trials of each branch are positive and at    *)
(* most those of the node, as its assertion says, however many visits the  *)
(* other threads make in the meantime.                                     *)
(***************************************************************************)
THEOREM HevalAssertionHolds == Spec => []HevalDefined
<1>1. TagInv => HevalDefined
  <2>. SUFFICES ASSUME TagInv, NEW t \in Thread, pc[t] = "score", NEW e \in view[t]
                PROVE  snap[t][e] > 0 /\ snap[t][e] <= Total(snap[t], view[t])
    BY DEF HevalDefined, Trials, NodeTrials
  <2>1. view[t] \in SUBSET Edge /\ snap[t] \in [Edge -> Nat] /\ \A f \in view[t] : snap[t][f] > 0
    BY DEF TagInv, TagType, ThreadInv, WalkInv
  <2>2. IsFiniteSet(view[t]) /\ \A f \in view[t] : snap[t][f] \in Nat
    BY <2>1, EdgeSets
  <2>3. snap[t][e] <= Total(snap[t], view[t])
    BY <2>2, TotalNat
  <2>. QED
    BY <2>1, <2>3
<1>. QED
  BY <1>1, TagAlways, PTL

=============================================================================
