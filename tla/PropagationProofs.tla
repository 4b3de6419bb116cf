--------------------------- MODULE PropagationProofs ---------------------------
(***************************************************************************)
(* Proofs about the generated search space.                                *)
(*                                                                         *)
(* 1. The integer domains: comparisons, constructors and intersections are *)
(*    sound for every universe, and not only for the few domains a model   *)
(*    checker enumerates.                                                  *)
(* 2. The propagation, for every description without lowering whose        *)
(*    counter adds: any number of objects, of values and of filters, and   *)
(*    any order of the pending changes.  Each handler is a chain of loops; *)
(*    a loop is a fold, and a fold a sequence of states (LoopTrace).  A    *)
(*    handler either restricts domains and records it (Narrowed), or moves *)
(*    the counter by the share of one object (Tally).                      *)
(* 3. Solutions: with filters that keep the values of solutions, no        *)
(*    handler takes from a domain what a solution needs.                   *)
(* 4. Fixpoint: a call of a filter that would still restrict something     *)
(*    reads a domain whose change is in the diff (Calm), so that none is   *)
(*    left when the diff is empty.                                         *)
(***************************************************************************)
EXTENDS Propagation, FiniteSetTheorems, WellFoundedInduction, TLAPS

Ordered(u) == \A i, j \in 1 .. Len(u) : i < j => u[i] < u[j]

\* A universe leaves two bits free: into_num_set counts one position past its last
\* value, and the width of a mask must stay below that of the set.
Universe(u) == u \in Seq(U32) /\ Ordered(u) /\ Len(u) \in 1 .. MaxLen - 2

\* The domains with a value that the code builds.
WellFormed(d) ==
    \/ \E u : \E bits \in SUBSET (1 .. Len(u)) : Universe(u) /\ bits # {} /\ d = NumericSet(u, bits)
    \/ \E m, n \in U32 : m <= n /\ d = NumRange(m, n)
    \/ \E m \in U32 : d = HalfRange(m) \/ d = Constant(m)
    \/ \E s \in Seq(U32) : s # <<>> /\ Ordered(s) /\ d = Slice(s)

-----------------------------------------------------------------------------
(* Least and greatest elements, positions and masks.                         *)

LEMMA LeastNatural ==
    ASSUME NEW S \in SUBSET Nat, S # {}
    PROVE  Min(S) \in S /\ \A m \in S : Min(S) <= m
<1>1. IsWellFoundedOn(OpToRel(<, Nat), Nat)
  BY NatLessThanWellFounded, Zenon
<1>2. PICK n \in S : \A m \in S : ~(<<m, n>> \in OpToRel(<, Nat))
  BY <1>1, WFMin, Zenon
<1>3. \A m \in S : ~(m < n)
  BY <1>2 DEF OpToRel
<1>4. \A m \in S : n <= m
  BY <1>3
<1>. QED
  BY <1>4 DEF Min

LEMMA GreatestNatural ==
    ASSUME NEW n \in Nat, NEW S \in SUBSET (1 .. n), S # {}
    PROVE  Max(S) \in S /\ \A m \in S : m <= Max(S)
<1>. DEFINE D == {n - m : m \in S}
<1>0. \A m \in S : m \in Nat /\ n - m \in Nat
  OBVIOUS
<1>1. D \in SUBSET Nat /\ D # {}
  BY <1>0
<1>2. Min(D) \in D /\ \A d \in D : Min(D) <= d
  BY <1>1, LeastNatural
<1>3. PICK x \in S : Min(D) = n - x
  BY <1>2
<1>4. \A m \in S : n - x <= n - m
  BY <1>2, <1>3
<1>5. \A m \in S : x >= m
  BY <1>4
<1>6. \E y \in S : \A m \in S : y >= m
  BY <1>5
<1>7. Max(S) \in S /\ \A m \in S : Max(S) >= m
  BY <1>6 DEF Max
<1>. QED
  BY <1>7

LEMMA PairBounds ==
    ASSUME NEW a \in Int, NEW b \in Int
    PROVE  /\ Min({a, b}) = IF a <= b THEN a ELSE b
           /\ Max({a, b}) = IF a <= b THEN b ELSE a
BY DEF Min, Max

LEMMA Constants == U32Max \in Nat /\ MaxLen \in Nat /\ U32 \subseteq Nat
BY NumDomainsAssumption DEF U32

LEMMA ModSmall ==
    ASSUME NEW a \in Nat, NEW b \in Nat, a < b
    PROVE  a % b = a
OBVIOUS

\* The mask of len bits from the position after start.
LEMMA OnesOf ==
    ASSUME NEW start \in Nat, NEW len \in Nat, len < MaxLen, NEW p \in 1 .. MaxLen, start < p, p <= start + len
    PROVE  p \in Ones(start, len)
<1>1. len % MaxLen = len
  BY Constants, ModSmall
<1>2. p - start \in 1 .. len /\ start + (p - start) = p
  BY Constants
<1>. QED
  BY <1>1, <1>2 DEF Ones

\* binary_search: the values before x are those up to the position it returns.
LEMMA SearchPrefix ==
    ASSUME NEW u \in Seq(Nat), Ordered(u), NEW x \in Nat
    PROVE  /\ BinarySearch(u, x) \in 0 .. Len(u)
           /\ \A i \in 1 .. Len(u) : u[i] < x <=> i <= BinarySearch(u, x)
<1>. DEFINE K == {k \in 0 .. Len(u) : \A i \in k + 1 .. Len(u) : ~(u[i] < x)}
            c == Min(K)
<1>1. K \in SUBSET Nat /\ Len(u) \in K
  OBVIOUS
<1>2. c \in K /\ \A k \in K : c <= k
  BY <1>1, LeastNatural
<1>3. c \in 0 .. Len(u) /\ \A i \in c + 1 .. Len(u) : ~(u[i] < x)
  BY <1>2
<1>4. ASSUME NEW i \in 1 .. Len(u), i <= c PROVE u[i] < x
  <2>. SUFFICES ASSUME ~(u[i] < x) PROVE FALSE
    OBVIOUS
  <2>1. \A j \in i + 1 .. Len(u) : u[i] < u[j] /\ u[j] \in Nat /\ u[i] \in Nat
    BY DEF Ordered
  <2>2. \A j \in (i - 1) + 1 .. Len(u) : ~(u[j] < x)
    BY <2>1
  <2>3. i - 1 \in K
    BY <2>2
  <2>4. c <= i - 1
    BY <1>2, <2>3
  <2>. HIDE DEF K, c
  <2>. QED
    BY <1>3, <1>4, <2>4
<1>. HIDE DEF K, c
<1>5. \A i \in 1 .. Len(u) : u[i] < x <=> i <= c
  BY <1>3, <1>4
<1>6. {k \in DOMAIN u : u[k] < x} = 1 .. c
  BY <1>3, <1>5
<1>7. Cardinality(1 .. c) = c
  BY <1>3, FS_Interval
<1>8. BinarySearch(u, x) = c
  BY <1>6, <1>7 DEF BinarySearch
<1>. QED
  BY <1>3, <1>5, <1>8

-----------------------------------------------------------------------------
(* What the definitions say of each kind of domain.                          *)

LEMMA SetDef ==
    ASSUME NEW d, d.kind = "set"
    PROVE  /\ Gamma(d) = {d.uni[k] : k \in d.bits \cap DOMAIN d.uni}
           /\ IsFailed(d) = (d.bits = {})
           /\ d.bits # {} => MinValue(d) = d.uni[Min(d.bits)] /\ MaxValue(d) = d.uni[Max(d.bits)]
           /\ \A u : IntoNumSet(d, u) = IntoNumSetWalk(d.uni, d.bits, u)
           /\ \A b : DomainRestrict(d, b) = [d EXCEPT !.bits = @ \cap b.bits]
           /\ \A b : DomainInsert(d, b) = [d EXCEPT !.bits = @ \cup b.bits]
           /\ \A op, b : NewLike(d, op, b) = NewNumericSet(op, d.uni, b)
<1>1. "set" # "range" /\ "set" # "half" /\ "set" # "const" /\ "set" # "slice"
  OBVIOUS
<1>2. Gamma(d) = {d.uni[k] : k \in d.bits \cap DOMAIN d.uni}
  BY <1>1, Zenon DEF Gamma
<1>3. IsFailed(d) = (d.bits = {})
  BY <1>1, Zenon DEF IsFailed
<1>4. d.bits # {} => MinValue(d) = d.uni[Min(d.bits)]
  BY <1>1, Zenon DEF MinValue
<1>5. d.bits # {} => MaxValue(d) = d.uni[Max(d.bits)]
  BY <1>1, Zenon DEF MaxValue
<1>6. \A u : IntoNumSet(d, u) = IntoNumSetWalk(d.uni, d.bits, u)
  BY <1>1, Zenon DEF IntoNumSet
<1>7. \A b : DomainRestrict(d, b) = [d EXCEPT !.bits = @ \cap b.bits]
  BY <1>1, Zenon DEF DomainRestrict
<1>8. \A b : DomainInsert(d, b) = [d EXCEPT !.bits = @ \cup b.bits]
  BY <1>1, Zenon DEF DomainInsert
<1>9. \A op, b : NewLike(d, op, b) = NewNumericSet(op, d.uni, b)
  BY <1>1, Zenon DEF NewLike
<1>. QED
  BY <1>2, <1>3, <1>4, <1>5, <1>6, <1>7, <1>8, <1>9

LEMMA RangeDef ==
    ASSUME NEW d, d.kind = "range"
    PROVE  /\ Gamma(d) = d.min .. d.max
           /\ IsFailed(d) = (d.min > d.max)
           /\ MinValue(d) = d.min /\ MaxValue(d) = d.max
           /\ \A u : IntoNumSet(d, u) = IntoNumSetBounds(d, u)
           /\ \A b : DomainRestrict(d, b) = NumRange(Max({d.min, b.min}), Min({d.max, b.max}))
           /\ \A b : DomainInsert(d, b) = NumRange(Min({d.min, b.min}), Max({d.max, b.max}))
           /\ \A op, b : NewLike(d, op, b) = NewRange(op, b)
<1>1. "range" # "set" /\ "range" # "half" /\ "range" # "const" /\ "range" # "slice"
  OBVIOUS
<1>2. Gamma(d) = d.min .. d.max
  BY <1>1, Zenon DEF Gamma
<1>3. IsFailed(d) = (d.min > d.max)
  BY <1>1, Zenon DEF IsFailed
<1>4. MinValue(d) = d.min
  BY <1>1, Zenon DEF MinValue
<1>5. MaxValue(d) = d.max
  BY <1>1, Zenon DEF MaxValue
<1>6. \A u : IntoNumSet(d, u) = IntoNumSetBounds(d, u)
  BY <1>1, Zenon DEF IntoNumSet
<1>7. \A b : DomainRestrict(d, b) = NumRange(Max({d.min, b.min}), Min({d.max, b.max}))
  BY <1>1, Zenon DEF DomainRestrict
<1>8. \A b : DomainInsert(d, b) = NumRange(Min({d.min, b.min}), Max({d.max, b.max}))
  BY <1>1, Zenon DEF DomainInsert
<1>9. \A op, b : NewLike(d, op, b) = NewRange(op, b)
  BY <1>1, Zenon DEF NewLike
<1>. QED
  BY <1>2, <1>3, <1>4, <1>5, <1>6, <1>7, <1>8, <1>9

LEMMA HalfDef ==
    ASSUME NEW d, d.kind = "half"
    PROVE  /\ Gamma(d) = d.min .. U32Max
           /\ IsFailed(d) = FALSE
           /\ MinValue(d) = d.min /\ MaxValue(d) = U32Max
           /\ \A u : IntoNumSet(d, u) = IntoNumSetBounds(d, u)
           /\ \A b : DomainRestrict(d, b) = HalfRange(Max({d.min, b.min}))
           /\ \A b : DomainInsert(d, b) = HalfRange(Min({d.min, b.min}))
           /\ \A op, b : NewLike(d, op, b) = NewHalfRange(op, b)
<1>1. "half" # "set" /\ "half" # "range" /\ "half" # "const" /\ "half" # "slice"
  OBVIOUS
<1>2. Gamma(d) = d.min .. U32Max
  BY <1>1, Zenon DEF Gamma
<1>3. IsFailed(d) = FALSE
  BY <1>1, Zenon DEF IsFailed
<1>4. MinValue(d) = d.min
  BY <1>1, Zenon DEF MinValue
<1>5. MaxValue(d) = U32Max
  BY <1>1, Zenon DEF MaxValue
<1>6. \A u : IntoNumSet(d, u) = IntoNumSetBounds(d, u)
  BY <1>1, Zenon DEF IntoNumSet
<1>7. \A b : DomainRestrict(d, b) = HalfRange(Max({d.min, b.min}))
  BY <1>1, Zenon DEF DomainRestrict
<1>8. \A b : DomainInsert(d, b) = HalfRange(Min({d.min, b.min}))
  BY <1>1, Zenon DEF DomainInsert
<1>9. \A op, b : NewLike(d, op, b) = NewHalfRange(op, b)
  BY <1>1, Zenon DEF NewLike
<1>. QED
  BY <1>2, <1>3, <1>4, <1>5, <1>6, <1>7, <1>8, <1>9

LEMMA ConstDef ==
    ASSUME NEW d, d.kind = "const"
    PROVE  /\ Gamma(d) = {d.val} /\ MinValue(d) = d.val /\ MaxValue(d) = d.val
           /\ \A u : IntoNumSet(d, u) = IntoNumSetBounds(d, u)
<1>1. "const" # "set" /\ "const" # "range" /\ "const" # "half" /\ "const" # "slice"
  OBVIOUS
<1>2. Gamma(d) = {d.val}
  BY <1>1, Zenon DEF Gamma
<1>3. MinValue(d) = d.val
  BY <1>1, Zenon DEF MinValue
<1>4. MaxValue(d) = d.val
  BY <1>1, Zenon DEF MaxValue
<1>5. \A u : IntoNumSet(d, u) = IntoNumSetBounds(d, u)
  BY <1>1, Zenon DEF IntoNumSet
<1>. QED
  BY <1>2, <1>3, <1>4, <1>5

LEMMA SliceDef ==
    ASSUME NEW d, d.kind = "slice", d.vals # <<>>
    PROVE  /\ Gamma(d) = Range(d.vals) /\ MinValue(d) = Head(d.vals) /\ MaxValue(d) = Last(d.vals)
           /\ \A u : IntoNumSet(d, u) = IntoNumSetWalk(d.vals, DOMAIN d.vals, u)
<1>1. "slice" # "set" /\ "slice" # "range" /\ "slice" # "half" /\ "slice" # "const"
  OBVIOUS
<1>2. Gamma(d) = Range(d.vals)
  BY <1>1, Zenon DEF Gamma
<1>3. MinValue(d) = Head(d.vals)
  BY <1>1, Zenon DEF MinValue
<1>4. MaxValue(d) = Last(d.vals)
  BY <1>1, Zenon DEF MaxValue
<1>5. \A u : IntoNumSet(d, u) = IntoNumSetWalk(d.vals, DOMAIN d.vals, u)
  BY <1>1, Zenon DEF IntoNumSet
<1>. QED
  BY <1>2, <1>3, <1>4, <1>5

-----------------------------------------------------------------------------
(* The bounds of a domain are its least and its greatest value.              *)

Bounded(d) ==
    /\ Gamma(d) \subseteq U32 /\ MinValue(d) \in Gamma(d) /\ MaxValue(d) \in Gamma(d)
    /\ \A x \in Gamma(d) : MinValue(d) <= x /\ x <= MaxValue(d)

LEMMA Increasing ==
    ASSUME NEW u \in Seq(U32), Ordered(u)
    PROVE  /\ u \in Seq(Nat) /\ DOMAIN u = 1 .. Len(u) /\ Len(u) \in Nat
           /\ \A i \in 1 .. Len(u) : u[i] \in U32 /\ u[i] \in Nat
           /\ \A i, j \in 1 .. Len(u) : (i <= j <=> u[i] <= u[j]) /\ (i = j <=> u[i] = u[j])
<1>1. /\ u \in Seq(Nat) /\ DOMAIN u = 1 .. Len(u) /\ Len(u) \in Nat
      /\ \A i \in 1 .. Len(u) : u[i] \in U32 /\ u[i] \in Nat
  <2>1. DOMAIN u = 1 .. Len(u) /\ Len(u) \in Nat /\ \A i \in 1 .. Len(u) : u[i] \in U32
    OBVIOUS
  <2>2. \A i \in 1 .. Len(u) : u[i] \in Nat
    BY <2>1, Constants
  <2>3. u = [i \in 1 .. Len(u) |-> u[i]]
    OBVIOUS
  <2>. QED
    BY <2>1, <2>2, <2>3
<1>. QED
  BY <1>1 DEF Ordered

LEMMA SetBounded ==
    ASSUME NEW u, Universe(u), NEW bits \in SUBSET (1 .. Len(u)), bits # {}
    PROVE  Bounded(NumericSet(u, bits))
<1>. DEFINE d == NumericSet(u, bits)
<1>1. /\ DOMAIN u = 1 .. Len(u) /\ Len(u) \in Nat
      /\ \A i \in 1 .. Len(u) : u[i] \in U32 /\ u[i] \in Nat
      /\ \A i, j \in 1 .. Len(u) : i <= j <=> u[i] <= u[j]
  BY Increasing DEF Universe
<1>2. Min(bits) \in bits /\ (\A k \in bits : Min(bits) <= k) /\ Max(bits) \in bits /\ \A k \in bits : k <= Max(bits)
  <2>1. bits \in SUBSET Nat /\ bits # {} /\ bits \in SUBSET (1 .. Len(u))
    OBVIOUS
  <2>. QED
    BY <1>1, <2>1, LeastNatural, GreatestNatural
<1>3. Gamma(d) = {u[k] : k \in bits} /\ MinValue(d) = u[Min(bits)] /\ MaxValue(d) = u[Max(bits)]
  <2>1. d.kind = "set" /\ d.uni = u /\ d.bits = bits /\ bits # {} /\ bits \cap DOMAIN u = bits
    BY <1>1 DEF NumericSet
  <2>. HIDE DEF d
  <2>2. Gamma(d) = {u[k] : k \in bits \cap DOMAIN u} /\ MinValue(d) = u[Min(bits)] /\ MaxValue(d) = u[Max(bits)]
    <3>1. /\ Gamma(d) = {d.uni[k] : k \in d.bits \cap DOMAIN d.uni}
          /\ MinValue(d) = d.uni[Min(d.bits)] /\ MaxValue(d) = d.uni[Max(d.bits)]
      BY <2>1, SetDef, Zenon
    <3>. QED
      BY <2>1, <3>1, Zenon
  <2>. QED
    BY <2>1, <2>2
<1>. HIDE DEF d
<1>4. Bounded(d)
  <2>1. \A x \in Gamma(d) : \E k \in bits : x = u[k] /\ k \in 1 .. Len(u)
    BY <1>3
  <2>2. Gamma(d) \subseteq U32
    BY <1>1, <2>1
  <2>3. MinValue(d) \in Gamma(d) /\ MaxValue(d) \in Gamma(d)
    BY <1>2, <1>3
  <2>4. ASSUME NEW x \in Gamma(d) PROVE MinValue(d) <= x /\ x <= MaxValue(d)
    <3>1. PICK k \in bits : x = u[k] /\ k \in 1 .. Len(u)
      BY <2>1
    <3>2. Min(bits) \in 1 .. Len(u) /\ Max(bits) \in 1 .. Len(u) /\ Min(bits) <= k /\ k <= Max(bits)
      BY <1>2
    <3>. QED
      BY <1>1, <1>3, <3>1, <3>2
  <2>. QED
    BY <2>2, <2>3, <2>4 DEF Bounded
<1>. QED
  BY <1>4 DEF d

LEMMA SliceBounded ==
    ASSUME NEW s \in Seq(U32), s # <<>>, Ordered(s)
    PROVE  Bounded(Slice(s))
<1>. DEFINE d == Slice(s)
<1>1. /\ DOMAIN s = 1 .. Len(s) /\ Len(s) \in Nat
      /\ \A i \in 1 .. Len(s) : s[i] \in U32 /\ s[i] \in Nat
      /\ \A i, j \in 1 .. Len(s) : i <= j <=> s[i] <= s[j]
  BY Increasing
<1>2. 1 \in 1 .. Len(s) /\ Len(s) \in 1 .. Len(s)
  <2>1. Len(s) # 0
    OBVIOUS
  <2>. QED
    BY <1>1, <2>1
<1>3. Gamma(d) = {s[k] : k \in 1 .. Len(s)} /\ MinValue(d) = s[1] /\ MaxValue(d) = s[Len(s)]
  <2>1. d.kind = "slice" /\ d.vals = s
    BY DEF Slice
  <2>. HIDE DEF d
  <2>2. Gamma(d) = Range(s) /\ MinValue(d) = Head(s) /\ MaxValue(d) = Last(s)
    BY <2>1, SliceDef
  <2>. QED
    BY <1>1, <2>2 DEF Range, Last
<1>. HIDE DEF d
<1>4. Bounded(d)
  BY <1>1, <1>2, <1>3 DEF Bounded
<1>. QED
  BY <1>4 DEF d

LEMMA OtherBounded ==
    ASSUME NEW m \in U32
    PROVE  /\ \A n \in U32 : m <= n => Bounded(NumRange(m, n))
           /\ Bounded(HalfRange(m)) /\ Bounded(Constant(m))
<1>0. m \in Nat /\ m <= U32Max /\ U32Max \in Nat /\ U32Max \in U32
  BY Constants DEF U32
<1>1. ASSUME NEW n \in U32, m <= n PROVE Bounded(NumRange(m, n))
  <2>. DEFINE d == NumRange(m, n)
  <2>1. d.kind = "range" /\ d.min = m /\ d.max = n
    BY DEF NumRange
  <2>. HIDE DEF d
  <2>2. Gamma(d) = m .. n /\ MinValue(d) = m /\ MaxValue(d) = n
    BY <2>1, RangeDef
  <2>3. Bounded(d)
    BY <1>0, <1>1, <2>2 DEF Bounded, U32
  <2>. QED
    BY <2>3 DEF d
<1>2. Bounded(HalfRange(m))
  <2>. DEFINE d == HalfRange(m)
  <2>1. d.kind = "half" /\ d.min = m
    BY DEF HalfRange
  <2>. HIDE DEF d
  <2>2. Gamma(d) = m .. U32Max /\ MinValue(d) = m /\ MaxValue(d) = U32Max
    BY <2>1, HalfDef
  <2>3. Bounded(d)
    BY <1>0, <2>2 DEF Bounded, U32
  <2>. QED
    BY <2>3 DEF d
<1>3. Bounded(Constant(m))
  <2>. DEFINE d == Constant(m)
  <2>1. d.kind = "const" /\ d.val = m
    BY DEF Constant
  <2>. HIDE DEF d
  <2>2. Gamma(d) = {m} /\ MinValue(d) = m /\ MaxValue(d) = m
    BY <2>1, ConstDef
  <2>3. Bounded(d)
    BY <1>0, <2>2 DEF Bounded, U32
  <2>. QED
    BY <2>3 DEF d
<1>. QED
  BY <1>1, <1>2, <1>3

LEMMA AllBounded ==
    ASSUME NEW d, WellFormed(d)
    PROVE  Bounded(d)
BY SetBounded, SliceBounded, OtherBounded DEF WellFormed

-----------------------------------------------------------------------------
(* Conversions into a bit set.                                               *)

WalkNext(seq, enabled, from, v) ==
    LET ok == {j \in DOMAIN seq : j >= from /\ j \in enabled /\ seq[j] >= v}
    IN  IF ok = {} THEN Len(seq) + 1 ELSE Min(ok)

WalkIs(seq, enabled, u, at) ==
    at = [k \in 0 .. Len(u) |-> IF k = 0 THEN 1 ELSE WalkNext(seq, enabled, at[k - 1], u[k])]

LEMMA WalkUnfold ==
    ASSUME NEW seq, NEW enabled, NEW u
    PROVE  LET at == CHOOSE at : WalkIs(seq, enabled, u, at)
           IN  IntoNumSetWalk(seq, enabled, u) =
                   NumericSet(u, {k \in DOMAIN u : at[k] <= Len(seq) /\ seq[at[k]] = u[k]})
BY DEF IntoNumSetWalk, WalkIs, WalkNext

\* Where the walk stops for v: the first enabled value that is not below v.
FirstFrom(seq, enabled, v) == WalkNext(seq, enabled, 1, v)

LEMMA FirstFromIs ==
    ASSUME NEW seq \in Seq(U32), Ordered(seq), NEW enabled, NEW v \in Nat
    PROVE  /\ FirstFrom(seq, enabled, v) \in 1 .. Len(seq) + 1
           /\ FirstFrom(seq, enabled, v) <= Len(seq) =>
                FirstFrom(seq, enabled, v) \in enabled /\ seq[FirstFrom(seq, enabled, v)] >= v
           /\ \A j \in 1 .. Len(seq) : j \in enabled /\ seq[j] >= v => FirstFrom(seq, enabled, v) <= j
<1>. DEFINE ok == {j \in DOMAIN seq : j >= 1 /\ j \in enabled /\ seq[j] >= v}
            c == FirstFrom(seq, enabled, v)
<1>0. DOMAIN seq = 1 .. Len(seq) /\ Len(seq) \in Nat
  OBVIOUS
<1>1. c = IF ok = {} THEN Len(seq) + 1 ELSE Min(ok)
  BY DEF FirstFrom, WalkNext
<1>2. \A j \in 1 .. Len(seq) : j \in ok <=> j \in enabled /\ seq[j] >= v
  BY <1>0
<1>3. ok \in SUBSET Nat /\ ok \subseteq 1 .. Len(seq)
  BY <1>0
<1>. HIDE DEF ok, c
<1>4. CASE ok = {}
  <2>1. c = Len(seq) + 1
    BY <1>1, <1>4
  <2>. QED
    BY <1>0, <1>2, <1>4, <2>1 DEF c
<1>5. CASE ok # {}
  <2>1. c = Min(ok)
    BY <1>1, <1>5
  <2>2. c \in ok /\ \A m \in ok : c <= m
    BY <1>3, <1>5, <2>1, LeastNatural
  <2>3. c \in 1 .. Len(seq) + 1 /\ c \in enabled /\ seq[c] >= v
    BY <1>0, <1>2, <1>3, <2>2
  <2>. QED
    BY <1>2, <2>2, <2>3 DEF c
<1>. QED
  BY <1>4, <1>5

\* Since the universe increases the walk may as well start over for each value.
LEMMA WalkClosed ==
    ASSUME NEW seq \in Seq(U32), Ordered(seq), NEW enabled, NEW u \in Seq(U32), Ordered(u)
    PROVE  LET at == CHOOSE at : WalkIs(seq, enabled, u, at)
           IN  \A k \in 1 .. Len(u) : at[k] = FirstFrom(seq, enabled, u[k])
<1>. DEFINE F(k) == FirstFrom(seq, enabled, u[k])
            h == [k \in 0 .. Len(u) |-> IF k = 0 THEN 1 ELSE F(k)]
            at == CHOOSE at : WalkIs(seq, enabled, u, at)
<1>u. /\ Len(u) \in Nat /\ Len(seq) \in Nat /\ DOMAIN seq = 1 .. Len(seq)
      /\ \A k \in 1 .. Len(u) : u[k] \in Nat
      /\ \A j \in 1 .. Len(seq) : seq[j] \in Nat
      /\ \A i, j \in 1 .. Len(u) : i <= j <=> u[i] <= u[j]
  BY Increasing
<1>f. \A k \in 1 .. Len(u) :
          /\ F(k) \in 1 .. Len(seq) + 1
          /\ F(k) <= Len(seq) => F(k) \in enabled /\ seq[F(k)] >= u[k]
          /\ \A j \in 1 .. Len(seq) : j \in enabled /\ seq[j] >= u[k] => F(k) <= j
  BY <1>u, FirstFromIs
<1>1. ASSUME NEW k \in 1 .. Len(u) PROVE WalkNext(seq, enabled, h[k - 1], u[k]) = F(k)
  <2>1. CASE k = 1
    BY <2>1, <1>u DEF FirstFrom
  <2>2. CASE k # 1
    <3>1. k - 1 \in 1 .. Len(u) /\ h[k - 1] = F(k - 1) /\ u[k - 1] <= u[k] /\ u[k - 1] \in Nat /\ u[k] \in Nat
      BY <1>u, <2>2
    <3>. HIDE DEF h
    <3>2. ASSUME NEW j \in 1 .. Len(seq), j \in enabled, seq[j] >= u[k] PROVE j >= h[k - 1] /\ j >= 1
      <4>1. seq[j] \in Nat /\ seq[j] >= u[k - 1]
        BY <1>u, <3>1, <3>2
      <4>2. F(k - 1) <= j /\ F(k - 1) \in 1 .. Len(seq) + 1
        BY <1>f, <3>1, <3>2, <4>1
      <4>. QED
        BY <1>u, <3>1, <4>2
    <3>3. {j \in DOMAIN seq : j >= h[k - 1] /\ j \in enabled /\ seq[j] >= u[k]} =
              {j \in DOMAIN seq : j >= 1 /\ j \in enabled /\ seq[j] >= u[k]}
      BY <1>u, <3>2
    <3>. QED
      BY <3>3 DEF FirstFrom, WalkNext
  <2>. QED
    BY <2>1, <2>2
<1>2. WalkIs(seq, enabled, u, h)
  BY <1>1, <1>u DEF WalkIs
<1>3. WalkIs(seq, enabled, u, at)
  BY <1>2
<1>4. /\ at[0] = 1 /\ h[0] = 1
      /\ \A k \in 1 .. Len(u) : /\ at[k] = WalkNext(seq, enabled, at[k - 1], u[k])
                                /\ h[k] = F(k)
  <2>1. 0 \in 0 .. Len(u) /\ \A k \in 1 .. Len(u) : k \in 0 .. Len(u) /\ k # 0
    BY <1>u
  <2>2. h[0] = 1 /\ \A k \in 1 .. Len(u) : h[k] = F(k)
    BY <2>1
  <2>. HIDE DEF at
  <2>3. at = [k \in 0 .. Len(u) |-> IF k = 0 THEN 1 ELSE WalkNext(seq, enabled, at[k - 1], u[k])]
    BY <1>3 DEF WalkIs
  <2>4. at[0] = 1
    BY <2>1, <2>3
  <2>5. ASSUME NEW k \in 1 .. Len(u) PROVE at[k] = WalkNext(seq, enabled, at[k - 1], u[k])
    BY <2>1, <2>3
  <2>. QED
    BY <2>2, <2>4, <2>5
<1>. HIDE DEF h, at
<1>. DEFINE Bad == {k \in Nat : k <= Len(u) /\ at[k] # h[k]}
<1>5. Bad \subseteq Nat
  OBVIOUS
<1>. HIDE DEF Bad
<1>6. Bad = {}
  <2>. SUFFICES ASSUME Bad # {} PROVE FALSE
    OBVIOUS
  <2>1. PICK k \in Bad : \A m \in Bad : k <= m
    BY <1>5, LeastNatural
  <2>2. k \in Nat /\ k <= Len(u) /\ at[k] # h[k] /\ k # 0
    BY <1>4, <2>1 DEF Bad
  <2>3. k \in 1 .. Len(u) /\ k - 1 \in Nat /\ k - 1 <= Len(u)
    BY <1>u, <2>2
  <2>4. k - 1 \notin Bad
    BY <2>1, <2>3
  <2>5. at[k - 1] = h[k - 1]
    BY <2>3, <2>4 DEF Bad
  <2>. QED
    BY <1>1, <1>4, <2>2, <2>3, <2>5
<1>7. \A k \in 1 .. Len(u) : at[k] = F(k)
  BY <1>4, <1>6, <1>u DEF Bad
<1>. QED
  BY <1>7 DEF at

\* The walk finds every value that both sequences have.
LEMMA WalkFinds ==
    ASSUME NEW seq \in Seq(U32), Ordered(seq), NEW enabled, NEW u \in Seq(U32), Ordered(u),
           NEW p \in 1 .. Len(u), NEW j \in 1 .. Len(seq), j \in enabled, seq[j] = u[p]
    PROVE  \E bits : IntoNumSetWalk(seq, enabled, u) = NumericSet(u, bits) /\ p \in bits
<1>. DEFINE at == CHOOSE at : WalkIs(seq, enabled, u, at)
            c == FirstFrom(seq, enabled, u[p])
            bits == {k \in DOMAIN u : at[k] <= Len(seq) /\ seq[at[k]] = u[k]}
<1>1. /\ DOMAIN u = 1 .. Len(u) /\ Len(seq) \in Nat /\ u[p] \in Nat
      /\ \A i \in 1 .. Len(seq) : seq[i] \in Nat
      /\ \A i, k \in 1 .. Len(seq) : i <= k <=> seq[i] <= seq[k]
  BY Increasing
<1>2. IntoNumSetWalk(seq, enabled, u) = NumericSet(u, bits)
  BY WalkUnfold
<1>3. at[p] = c
  BY WalkClosed
<1>4. c \in 1 .. Len(seq) + 1 /\ (c <= Len(seq) => seq[c] >= u[p]) /\ c <= j
  BY <1>1, FirstFromIs
<1>. HIDE DEF at, c
<1>5. c \in 1 .. Len(seq) /\ seq[c] = u[p]
  BY <1>1, <1>4
<1>6. p \in bits
  BY <1>1, <1>3, <1>5
<1>. QED
  BY <1>2, <1>6

\* The bounds of a domain enclose the positions of its values.
LEMMA BoundsFind ==
    ASSUME NEW b, Bounded(b), NEW u, Universe(u), NEW p \in 1 .. Len(u), u[p] \in Gamma(b)
    PROVE  \E bits : IntoNumSetBounds(b, u) = NumericSet(u, bits) /\ p \in bits
<1>. DEFINE start == BinarySearch(u, MinValue(b))
            end == BinarySearch(u, MaxValue(b))
<1>1. /\ u \in Seq(Nat) /\ Ordered(u) /\ Len(u) \in Nat /\ Len(u) <= MaxLen - 2 /\ u[p] \in Nat
      /\ \A i \in 1 .. Len(u) : u[i] \in Nat
      /\ \A i, j \in 1 .. Len(u) : i <= j <=> u[i] <= u[j]
  BY Increasing, Constants DEF Universe
<1>2. MinValue(b) \in Nat /\ MaxValue(b) \in Nat /\ MinValue(b) <= u[p] /\ u[p] <= MaxValue(b)
  BY Constants DEF Bounded
<1>3. /\ start \in 0 .. Len(u) /\ end \in 0 .. Len(u)
      /\ \A i \in 1 .. Len(u) : (u[i] < MinValue(b) <=> i <= start) /\ (u[i] < MaxValue(b) <=> i <= end)
  BY <1>1, <1>2, SearchPrefix
<1>4. IntoNumSetBounds(b, u) = NumericSet(u, Ones(start, end - start + 1))
  BY DEF IntoNumSetBounds
<1>. HIDE DEF start, end
<1>5. start < p
  BY <1>1, <1>2, <1>3
<1>6. p <= end + 1
  <2>1. CASE p = 1
    BY <1>3, <2>1
  <2>2. CASE p # 1
    <3>1. p - 1 \in 1 .. Len(u) /\ u[p - 1] < u[p] /\ u[p - 1] \in Nat
      BY <1>1, <2>2
    <3>2. u[p - 1] < MaxValue(b)
      BY <1>1, <1>2, <3>1
    <3>. QED
      BY <1>3, <3>1, <3>2
  <2>. QED
    BY <2>1, <2>2
<1>7. p \in Ones(start, end - start + 1)
  <2>1. /\ start \in Nat /\ end - start + 1 \in Nat /\ end - start + 1 < MaxLen /\ p \in 1 .. MaxLen
        /\ p <= start + (end - start + 1)
    BY <1>1, <1>3, <1>5, <1>6, Constants
  <2>. QED
    BY <1>5, <2>1, OnesOf
<1>. QED
  BY <1>4, <1>7

\* into_num_set keeps every value of the domain that the universe has.
LEMMA IntoFinds ==
    ASSUME NEW b, WellFormed(b), NEW u, Universe(u), NEW p \in 1 .. Len(u), u[p] \in Gamma(b)
    PROVE  \E bits : IntoNumSet(b, u) = NumericSet(u, bits) /\ p \in bits
<1>u. u \in Seq(U32) /\ Ordered(u)
  BY DEF Universe
<1>b. Bounded(b)
  BY AllBounded
<1>1. ASSUME NEW w, NEW bits \in SUBSET (1 .. Len(w)), bits # {}, Universe(w), b = NumericSet(w, bits)
      PROVE  \E r : IntoNumSet(b, u) = NumericSet(u, r) /\ p \in r
  <2>1. b.kind = "set" /\ b.uni = w /\ b.bits = bits
    BY <1>1 DEF NumericSet
  <2>2. IntoNumSet(b, u) = IntoNumSetWalk(b.uni, b.bits, u) /\ Gamma(b) = {b.uni[k] : k \in b.bits \cap DOMAIN b.uni}
    BY <2>1, SetDef, Zenon
  <2>3. w \in Seq(U32) /\ Ordered(w) /\ DOMAIN w = 1 .. Len(w)
    BY <1>1, Increasing DEF Universe
  <2>4. PICK j \in bits : w[j] = u[p] /\ j \in 1 .. Len(w)
    BY <2>1, <2>2, <2>3
  <2>. QED
    BY <1>u, <2>1, <2>2, <2>3, <2>4, WalkFinds
<1>2. ASSUME NEW s \in Seq(U32), s # <<>>, Ordered(s), b = Slice(s)
      PROVE  \E r : IntoNumSet(b, u) = NumericSet(u, r) /\ p \in r
  <2>1. b.kind = "slice" /\ b.vals = s
    BY <1>2 DEF Slice
  <2>2. IntoNumSet(b, u) = IntoNumSetWalk(s, DOMAIN s, u) /\ Gamma(b) = Range(s)
    BY <1>2, <2>1, SliceDef
  <2>3. PICK j \in 1 .. Len(s) : s[j] = u[p] /\ j \in DOMAIN s
    BY <2>2 DEF Range
  <2>. QED
    BY <1>2, <1>u, <2>2, <2>3, WalkFinds
<1>3. ASSUME b.kind \in {"range", "half", "const"}
      PROVE  \E r : IntoNumSet(b, u) = NumericSet(u, r) /\ p \in r
  <2>1. IntoNumSet(b, u) = IntoNumSetBounds(b, u)
    BY <1>3, RangeDef, HalfDef, ConstDef, Zenon
  <2>. QED
    BY <1>b, <2>1, BoundsFind
<1>4. \A m, n : NumRange(m, n).kind = "range" /\ HalfRange(m).kind = "half" /\ Constant(m).kind = "const"
  BY DEF NumRange, HalfRange, Constant
<1>. QED
  BY <1>1, <1>2, <1>3, <1>4 DEF WellFormed

-----------------------------------------------------------------------------
(* The constructors keep the values that compare with some value.            *)

Constructors == {"Lt", "Gt", "Leq", "Geq", "Eq"}

LEMMA HoldsDef ==
    ASSUME NEW x, NEW y
    PROVE  /\ Holds("Lt", x, y) <=> x < y
           /\ Holds("Gt", x, y) <=> x > y
           /\ Holds("Leq", x, y) <=> x <= y
           /\ Holds("Geq", x, y) <=> x >= y
           /\ Holds("Eq", x, y) <=> x = y
           /\ Holds("Neq", x, y) <=> x # y
<1>1. /\ "Lt" # "Gt" /\ "Lt" # "Leq" /\ "Lt" # "Geq" /\ "Lt" # "Eq" /\ "Lt" # "Neq"
      /\ "Gt" # "Leq" /\ "Gt" # "Geq" /\ "Gt" # "Eq" /\ "Gt" # "Neq"
      /\ "Leq" # "Geq" /\ "Leq" # "Eq" /\ "Leq" # "Neq"
      /\ "Geq" # "Eq" /\ "Geq" # "Neq" /\ "Eq" # "Neq"
  OBVIOUS
<1>2. Holds("Lt", x, y) <=> x < y
  BY <1>1, Zenon DEF Holds
<1>3. Holds("Gt", x, y) <=> x > y
  BY <1>1, Zenon DEF Holds
<1>4. Holds("Leq", x, y) <=> x <= y
  BY <1>1, Zenon DEF Holds
<1>5. Holds("Geq", x, y) <=> x >= y
  BY <1>1, Zenon DEF Holds
<1>6. Holds("Eq", x, y) <=> x = y
  BY <1>1, Zenon DEF Holds
<1>7. Holds("Neq", x, y) <=> x # y
  BY <1>1, Zenon DEF Holds
<1>. QED
  BY <1>2, <1>3, <1>4, <1>5, <1>6, <1>7

\* The position after x: where x is found, or where it would be inserted.
After(u, x, skip) == BinarySearch(u, x) + (IF skip /\ Found(u, x) THEN 1 ELSE 0)

LEMMA AfterIs ==
    ASSUME NEW u, Universe(u), NEW x \in Nat
    PROVE  /\ After(u, x, TRUE) \in 0 .. Len(u) /\ After(u, x, FALSE) \in 0 .. Len(u)
           /\ \A p \in 1 .. Len(u) : (p <= After(u, x, FALSE) <=> u[p] < x) /\ (p <= After(u, x, TRUE) <=> u[p] <= x)
<1>. DEFINE c == BinarySearch(u, x)
<1>1. /\ u \in Seq(Nat) /\ Ordered(u) /\ Len(u) \in Nat /\ DOMAIN u = 1 .. Len(u)
      /\ \A i \in 1 .. Len(u) : u[i] \in Nat
      /\ \A i, j \in 1 .. Len(u) : (i <= j <=> u[i] <= u[j]) /\ (i = j <=> u[i] = u[j])
  BY Increasing DEF Universe
<1>2. c \in 0 .. Len(u) /\ \A i \in 1 .. Len(u) : u[i] < x <=> i <= c
  BY <1>1, SearchPrefix
<1>3. After(u, x, FALSE) = c /\ After(u, x, TRUE) = IF Found(u, x) THEN c + 1 ELSE c
  BY <1>2 DEF After
<1>. HIDE DEF c
<1>4. CASE Found(u, x)
  <2>1. PICK k \in 1 .. Len(u) : u[k] = x
    BY <1>1, <1>4 DEF Found
  <2>2. k = c + 1
    <3>1. k > c
      BY <1>1, <1>2, <2>1
    <3>2. CASE k = 1
      BY <1>2, <3>1, <3>2
    <3>3. CASE k # 1
      <4>1. k - 1 \in 1 .. Len(u) /\ u[k - 1] < u[k]
        BY <1>1, <3>3
      <4>. QED
        BY <1>2, <2>1, <3>1, <4>1
    <3>. QED
      BY <3>2, <3>3
  <2>3. \A p \in 1 .. Len(u) : p <= c + 1 <=> u[p] <= x
    BY <1>1, <2>1, <2>2
  <2>4. After(u, x, TRUE) = c + 1 /\ c + 1 \in 0 .. Len(u)
    <3>1. After(u, x, TRUE) = c + 1
      BY <1>3, <1>4
    <3>2. c + 1 \in 0 .. Len(u)
      BY <1>1, <2>2
    <3>. QED
      BY <3>1, <3>2
  <2>. QED
    BY <1>2, <1>3, <2>3, <2>4
<1>5. CASE ~Found(u, x)
  <2>1. \A p \in 1 .. Len(u) : u[p] # x
    BY <1>1, <1>5 DEF Found
  <2>2. \A p \in 1 .. Len(u) : p <= c <=> u[p] <= x
    BY <1>1, <1>2, <2>1
  <2>3. After(u, x, TRUE) = c
    BY <1>3, <1>5
  <2>. QED
    BY <1>2, <1>3, <2>2, <2>3
<1>. QED
  BY <1>4, <1>5

LEMMA NewSetDef ==
    ASSUME NEW u, NEW b
    PROVE  /\ NewNumericSet("Gt", u, b) = NumericSet(u, Ones(After(u, MinValue(b), TRUE), Len(u) - After(u, MinValue(b), TRUE)))
           /\ NewNumericSet("Geq", u, b) = NumericSet(u, Ones(After(u, MinValue(b), FALSE), Len(u) - After(u, MinValue(b), FALSE)))
           /\ NewNumericSet("Lt", u, b) = NumericSet(u, Ones(0, After(u, MaxValue(b), FALSE)))
           /\ NewNumericSet("Leq", u, b) = NumericSet(u, Ones(0, After(u, MaxValue(b), TRUE)))
           /\ NewNumericSet("Eq", u, b) = IntoNumSet(b, u)
<1>1. /\ "Lt" # "Gt" /\ "Lt" # "Leq" /\ "Lt" # "Geq" /\ "Lt" # "Eq"
      /\ "Gt" # "Leq" /\ "Gt" # "Geq" /\ "Gt" # "Eq"
      /\ "Leq" # "Geq" /\ "Leq" # "Eq" /\ "Geq" # "Eq"
  OBVIOUS
<1>2. NewNumericSet("Gt", u, b) = NumericSet(u, Ones(After(u, MinValue(b), TRUE), Len(u) - After(u, MinValue(b), TRUE)))
  BY <1>1, Zenon DEF NewNumericSet, After
<1>3. NewNumericSet("Geq", u, b) = NumericSet(u, Ones(After(u, MinValue(b), FALSE), Len(u) - After(u, MinValue(b), FALSE)))
  BY <1>1, Zenon DEF NewNumericSet, After
<1>4. NewNumericSet("Lt", u, b) = NumericSet(u, Ones(0, After(u, MaxValue(b), FALSE)))
  BY <1>1, Zenon DEF NewNumericSet, After
<1>5. NewNumericSet("Leq", u, b) = NumericSet(u, Ones(0, After(u, MaxValue(b), TRUE)))
  BY <1>1, Zenon DEF NewNumericSet, After
<1>6. NewNumericSet("Eq", u, b) = IntoNumSet(b, u)
  BY <1>1, Zenon DEF NewNumericSet
<1>. QED
  BY <1>2, <1>3, <1>4, <1>5, <1>6

LEMMA InBits ==
    ASSUME NEW u, Universe(u), NEW bits, NEW p \in 1 .. Len(u), p \in bits
    PROVE  u[p] \in Gamma(NumericSet(u, bits))
<1>. DEFINE d == NumericSet(u, bits)
<1>1. d.kind = "set" /\ d.uni = u /\ d.bits = bits
  BY DEF NumericSet
<1>2. p \in bits \cap DOMAIN u
  BY DEF Universe
<1>. HIDE DEF d
<1>3. Gamma(d) = {d.uni[k] : k \in d.bits \cap DOMAIN d.uni}
  BY <1>1, SetDef, Zenon
<1>4. u[p] \in Gamma(d)
  BY <1>1, <1>2, <1>3
<1>. QED
  BY <1>4 DEF d

LEMMA MasksKeep ==
    ASSUME NEW u, Universe(u), NEW p \in 1 .. Len(u), NEW c \in 0 .. Len(u)
    PROVE  /\ c < p => u[p] \in Gamma(NumericSet(u, Ones(c, Len(u) - c)))
           /\ p <= c => u[p] \in Gamma(NumericSet(u, Ones(0, c)))
<1>u. Len(u) \in Nat /\ Len(u) < MaxLen /\ p \in 1 .. MaxLen
  BY Constants DEF Universe
<1>1. ASSUME c < p PROVE u[p] \in Gamma(NumericSet(u, Ones(c, Len(u) - c)))
  <2>1. p \in Ones(c, Len(u) - c)
    BY <1>1, <1>u, OnesOf, Constants
  <2>. QED
    BY <2>1, InBits
<1>2. ASSUME p <= c PROVE u[p] \in Gamma(NumericSet(u, Ones(0, c)))
  <2>1. p \in Ones(0, c)
    BY <1>2, <1>u, OnesOf, Constants
  <2>. QED
    BY <2>1, InBits
<1>. QED
  BY <1>1, <1>2

LEMMA SetKeeps ==
    ASSUME NEW u, Universe(u), NEW b, WellFormed(b), NEW op \in Constructors,
           NEW p \in 1 .. Len(u), NEW y \in Gamma(b), Holds(op, u[p], y)
    PROVE  u[p] \in Gamma(NewNumericSet(op, u, b))
<1>b. /\ MinValue(b) \in Nat /\ MaxValue(b) \in Nat /\ y \in Nat
      /\ MinValue(b) <= y /\ y <= MaxValue(b)
  BY AllBounded, Constants DEF Bounded
<1>u. u[p] \in Nat
  BY Increasing DEF Universe
<1>1. CASE op = "Gt"
  <2>. DEFINE c == After(u, MinValue(b), TRUE)
  <2>1. NewNumericSet(op, u, b) = NumericSet(u, Ones(c, Len(u) - c))
    BY <1>1, NewSetDef
  <2>2. u[p] > y
    BY <1>1, HoldsDef
  <2>3. u[p] > MinValue(b)
    BY <1>b, <1>u, <2>2
  <2>4. c \in 0 .. Len(u) /\ (p <= c <=> u[p] <= MinValue(b))
    BY <1>b, AfterIs
  <2>. HIDE DEF c
  <2>5. c < p
    BY <1>b, <1>u, <2>3, <2>4
  <2>. QED
    BY <2>1, <2>4, <2>5, MasksKeep
<1>2. CASE op = "Geq"
  <2>. DEFINE c == After(u, MinValue(b), FALSE)
  <2>1. NewNumericSet(op, u, b) = NumericSet(u, Ones(c, Len(u) - c))
    BY <1>2, NewSetDef
  <2>2. u[p] >= y
    BY <1>2, HoldsDef
  <2>3. u[p] >= MinValue(b)
    BY <1>b, <1>u, <2>2
  <2>4. c \in 0 .. Len(u) /\ (p <= c <=> u[p] < MinValue(b))
    BY <1>b, AfterIs
  <2>. HIDE DEF c
  <2>5. c < p
    BY <1>b, <1>u, <2>3, <2>4
  <2>. QED
    BY <2>1, <2>4, <2>5, MasksKeep
<1>3. CASE op = "Lt"
  <2>. DEFINE c == After(u, MaxValue(b), FALSE)
  <2>1. NewNumericSet(op, u, b) = NumericSet(u, Ones(0, c))
    BY <1>3, NewSetDef
  <2>2. u[p] < y
    BY <1>3, HoldsDef
  <2>3. u[p] < MaxValue(b)
    BY <1>b, <1>u, <2>2
  <2>4. c \in 0 .. Len(u) /\ (p <= c <=> u[p] < MaxValue(b))
    BY <1>b, AfterIs
  <2>. HIDE DEF c
  <2>5. p <= c
    BY <1>b, <1>u, <2>3, <2>4
  <2>. QED
    BY <2>1, <2>4, <2>5, MasksKeep
<1>4. CASE op = "Leq"
  <2>. DEFINE c == After(u, MaxValue(b), TRUE)
  <2>1. NewNumericSet(op, u, b) = NumericSet(u, Ones(0, c))
    BY <1>4, NewSetDef
  <2>2. u[p] <= y
    BY <1>4, HoldsDef
  <2>3. u[p] <= MaxValue(b)
    BY <1>b, <1>u, <2>2
  <2>4. c \in 0 .. Len(u) /\ (p <= c <=> u[p] <= MaxValue(b))
    BY <1>b, AfterIs
  <2>. HIDE DEF c
  <2>5. p <= c
    BY <1>b, <1>u, <2>3, <2>4
  <2>. QED
    BY <2>1, <2>4, <2>5, MasksKeep
<1>5. CASE op = "Eq"
  <2>1. u[p] \in Gamma(b) /\ NewNumericSet(op, u, b) = IntoNumSet(b, u)
    BY <1>5, HoldsDef, NewSetDef
  <2>2. PICK bits : IntoNumSet(b, u) = NumericSet(u, bits) /\ p \in bits
    BY <2>1, IntoFinds
  <2>. QED
    BY <2>1, <2>2, InBits
<1>. QED
  BY <1>1, <1>2, <1>3, <1>4, <1>5 DEF Constructors

LEMMA NewRangeDef ==
    ASSUME NEW b
    PROVE  /\ NewRange("Gt", b) = NumRange(Min({MinValue(b) + 1, U32Max}), U32Max)
           /\ NewRange("Geq", b) = NumRange(MinValue(b), U32Max)
           /\ NewRange("Lt", b) = NumRange(0, Max({MaxValue(b) - 1, 0}))
           /\ NewRange("Leq", b) = NumRange(0, MaxValue(b))
           /\ NewRange("Eq", b) = NumRange(MinValue(b), MaxValue(b))
<1>1. /\ "Lt" # "Gt" /\ "Lt" # "Leq" /\ "Lt" # "Geq" /\ "Lt" # "Eq"
      /\ "Gt" # "Leq" /\ "Gt" # "Geq" /\ "Gt" # "Eq"
      /\ "Leq" # "Geq" /\ "Leq" # "Eq" /\ "Geq" # "Eq"
  OBVIOUS
<1>2. NewRange("Gt", b) = NumRange(Min({MinValue(b) + 1, U32Max}), U32Max)
  BY <1>1, Zenon DEF NewRange
<1>3. NewRange("Geq", b) = NumRange(MinValue(b), U32Max)
  BY <1>1, Zenon DEF NewRange
<1>4. NewRange("Lt", b) = NumRange(0, Max({MaxValue(b) - 1, 0}))
  BY <1>1, Zenon DEF NewRange
<1>5. NewRange("Leq", b) = NumRange(0, MaxValue(b))
  BY <1>1, Zenon DEF NewRange
<1>6. NewRange("Eq", b) = NumRange(MinValue(b), MaxValue(b))
  BY <1>1, Zenon DEF NewRange
<1>. QED
  BY <1>2, <1>3, <1>4, <1>5, <1>6

LEMMA NewHalfDef ==
    ASSUME NEW b
    PROVE  /\ NewHalfRange("Gt", b) = HalfRange(Min({MinValue(b) + 1, U32Max}))
           /\ NewHalfRange("Geq", b) = HalfRange(MinValue(b)) /\ NewHalfRange("Eq", b) = HalfRange(MinValue(b))
           /\ NewHalfRange("Lt", b) = HalfRange(0) /\ NewHalfRange("Leq", b) = HalfRange(0)
<1>1. /\ "Lt" # "Gt" /\ "Lt" # "Leq" /\ "Lt" # "Geq" /\ "Lt" # "Eq"
      /\ "Gt" # "Leq" /\ "Gt" # "Geq" /\ "Gt" # "Eq"
      /\ "Leq" # "Geq" /\ "Leq" # "Eq" /\ "Geq" # "Eq"
  OBVIOUS
<1>2. NewHalfRange("Gt", b) = HalfRange(Min({MinValue(b) + 1, U32Max}))
  BY <1>1, Zenon DEF NewHalfRange
<1>3. NewHalfRange("Geq", b) = HalfRange(MinValue(b))
  BY <1>1, Zenon DEF NewHalfRange
<1>4. NewHalfRange("Eq", b) = HalfRange(MinValue(b))
  BY <1>1, Zenon DEF NewHalfRange
<1>5. NewHalfRange("Lt", b) = HalfRange(0)
  BY <1>1, Zenon DEF NewHalfRange
<1>6. NewHalfRange("Leq", b) = HalfRange(0)
  BY <1>1, Zenon DEF NewHalfRange
<1>. QED
  BY <1>2, <1>3, <1>4, <1>5, <1>6

LEMMA InBounds ==
    ASSUME NEW m, NEW n
    PROVE  Gamma(NumRange(m, n)) = m .. n /\ Gamma(HalfRange(m)) = m .. U32Max
<1>1. NumRange(m, n).kind = "range" /\ NumRange(m, n).min = m /\ NumRange(m, n).max = n
  BY DEF NumRange
<1>2. HalfRange(m).kind = "half" /\ HalfRange(m).min = m
  BY DEF HalfRange
<1>. QED
  BY <1>1, <1>2, RangeDef, HalfDef, Zenon

LEMMA BoundsKeep ==
    ASSUME NEW b, WellFormed(b), NEW op \in Constructors, NEW x \in U32, NEW y \in Gamma(b), Holds(op, x, y)
    PROVE  x \in Gamma(NewRange(op, b)) /\ x \in Gamma(NewHalfRange(op, b))
<1>b. /\ MinValue(b) \in Nat /\ MaxValue(b) \in Nat /\ y \in Nat /\ x \in Nat /\ x <= U32Max /\ U32Max \in Nat
      /\ MinValue(b) <= y /\ y <= MaxValue(b) /\ 0 <= x
  BY AllBounded, Constants DEF Bounded, U32
<1>m. /\ Min({MinValue(b) + 1, U32Max}) = IF MinValue(b) + 1 <= U32Max THEN MinValue(b) + 1 ELSE U32Max
      /\ Max({MaxValue(b) - 1, 0}) = IF MaxValue(b) - 1 <= 0 THEN 0 ELSE MaxValue(b) - 1
  <2>1. MinValue(b) + 1 \in Int /\ U32Max \in Int /\ MaxValue(b) - 1 \in Int /\ 0 \in Int
    BY <1>b
  <2>. QED
    BY <2>1, PairBounds
<1>1. CASE op = "Gt"
  <2>1. x > y
    BY <1>1, HoldsDef
  <2>2. x \in Min({MinValue(b) + 1, U32Max}) .. U32Max
    BY <1>b, <1>m, <2>1
  <2>3. NewRange(op, b) = NumRange(Min({MinValue(b) + 1, U32Max}), U32Max) /\ NewHalfRange(op, b) = HalfRange(Min({MinValue(b) + 1, U32Max}))
    BY <1>1, NewRangeDef, NewHalfDef, Zenon
  <2>. QED
    BY <2>2, <2>3, InBounds, Zenon
<1>2. CASE op = "Geq"
  <2>1. x >= y
    BY <1>2, HoldsDef
  <2>2. x \in MinValue(b) .. U32Max
    BY <1>b, <2>1
  <2>3. NewRange(op, b) = NumRange(MinValue(b), U32Max) /\ NewHalfRange(op, b) = HalfRange(MinValue(b))
    BY <1>2, NewRangeDef, NewHalfDef, Zenon
  <2>. QED
    BY <2>2, <2>3, InBounds, Zenon
<1>3. CASE op = "Lt"
  <2>1. x < y
    BY <1>3, HoldsDef
  <2>2. x \in 0 .. Max({MaxValue(b) - 1, 0}) /\ x \in 0 .. U32Max
    BY <1>b, <1>m, <2>1
  <2>3. NewRange(op, b) = NumRange(0, Max({MaxValue(b) - 1, 0})) /\ NewHalfRange(op, b) = HalfRange(0)
    BY <1>3, NewRangeDef, NewHalfDef, Zenon
  <2>. QED
    BY <2>2, <2>3, InBounds, Zenon
<1>4. CASE op = "Leq"
  <2>1. x <= y
    BY <1>4, HoldsDef
  <2>2. x \in 0 .. MaxValue(b) /\ x \in 0 .. U32Max
    BY <1>b, <2>1
  <2>3. NewRange(op, b) = NumRange(0, MaxValue(b)) /\ NewHalfRange(op, b) = HalfRange(0)
    BY <1>4, NewRangeDef, NewHalfDef, Zenon
  <2>. QED
    BY <2>2, <2>3, InBounds, Zenon
<1>5. CASE op = "Eq"
  <2>1. x = y
    BY <1>5, HoldsDef
  <2>2. x \in MinValue(b) .. MaxValue(b) /\ x \in MinValue(b) .. U32Max
    BY <1>b, <2>1
  <2>3. NewRange(op, b) = NumRange(MinValue(b), MaxValue(b)) /\ NewHalfRange(op, b) = HalfRange(MinValue(b))
    BY <1>5, NewRangeDef, NewHalfDef, Zenon
  <2>. QED
    BY <2>2, <2>3, InBounds, Zenon
<1>. QED
  BY <1>1, <1>2, <1>3, <1>4, <1>5 DEF Constructors

-----------------------------------------------------------------------------
(* The comparisons.                                                          *)

Always(op, a, b) == \A x \in Gamma(a), y \in Gamma(b) : Holds(op, x, y)

LEMMA IsOpDef ==
    ASSUME NEW a, NEW b
    PROVE  /\ IsOp("Lt", a, b) <=> MaxValue(a) < MinValue(b)
           /\ IsOp("Gt", a, b) <=> MinValue(a) > MaxValue(b)
           /\ IsOp("Leq", a, b) <=> MaxValue(a) <= MinValue(b)
           /\ IsOp("Geq", a, b) <=> MinValue(a) >= MaxValue(b)
           /\ IsOp("Eq", a, b) <=> MinValue(a) = MaxValue(b) /\ MaxValue(a) = MinValue(b)
           /\ IsOp("Neq", a, b) <=> \/ MinValue(a) > MaxValue(b) \/ MaxValue(a) < MinValue(b)
                                    \/ a.kind = "set" /\ IsFailed(IntoNumSet(b, a.uni))
<1>1. /\ "Lt" # "Gt" /\ "Lt" # "Leq" /\ "Lt" # "Geq" /\ "Lt" # "Eq" /\ "Lt" # "Neq"
      /\ "Gt" # "Leq" /\ "Gt" # "Geq" /\ "Gt" # "Eq" /\ "Gt" # "Neq"
      /\ "Leq" # "Geq" /\ "Leq" # "Eq" /\ "Leq" # "Neq"
      /\ "Geq" # "Eq" /\ "Geq" # "Neq" /\ "Eq" # "Neq"
  OBVIOUS
<1>2. IsOp("Lt", a, b) <=> MaxValue(a) < MinValue(b)
  BY <1>1, Zenon DEF IsOp
<1>3. IsOp("Gt", a, b) <=> MinValue(a) > MaxValue(b)
  BY <1>1, Zenon DEF IsOp
<1>4. IsOp("Leq", a, b) <=> MaxValue(a) <= MinValue(b)
  BY <1>1, Zenon DEF IsOp
<1>5. IsOp("Geq", a, b) <=> MinValue(a) >= MaxValue(b)
  BY <1>1, Zenon DEF IsOp
<1>6. IsOp("Eq", a, b) <=> MinValue(a) = MaxValue(b) /\ MaxValue(a) = MinValue(b)
  BY <1>1, Zenon DEF IsOp
<1>7. IsOp("Neq", a, b) <=> \/ MinValue(a) > MaxValue(b) \/ MaxValue(a) < MinValue(b)
                            \/ a.kind = "set" /\ IsFailed(IntoNumSet(b, a.uni))
  BY <1>1, Zenon DEF IsOp
<1>. QED
  BY <1>2, <1>3, <1>4, <1>5, <1>6, <1>7

\* Two domains that share a value are never found to be different.
LEMMA SharedNotNeq ==
    ASSUME NEW a, WellFormed(a), NEW b, WellFormed(b), NEW x \in Gamma(a), x \in Gamma(b)
    PROVE  ~IsOp("Neq", a, b)
<1>1. /\ MinValue(a) \in Nat /\ MaxValue(a) \in Nat /\ MinValue(b) \in Nat /\ MaxValue(b) \in Nat /\ x \in Nat
      /\ MinValue(a) <= x /\ x <= MaxValue(a) /\ MinValue(b) <= x /\ x <= MaxValue(b)
  BY AllBounded, Constants DEF Bounded
<1>2. ASSUME a.kind = "set" PROVE ~IsFailed(IntoNumSet(b, a.uni))
  <2>1. PICK u : Universe(u) /\ a.uni = u /\ \E bits : a = NumericSet(u, bits)
    <3>1. \A m, n : NumRange(m, n).kind # "set" /\ HalfRange(m).kind # "set" /\ Constant(m).kind # "set" /\ Slice(m).kind # "set"
      BY DEF NumRange, HalfRange, Constant, Slice
    <3>2. \A u, bits : NumericSet(u, bits).uni = u
      BY DEF NumericSet
    <3>. QED
      BY <1>2, <3>1, <3>2, ZenonT(60) DEF WellFormed
  <2>2. Gamma(a) = {a.uni[k] : k \in a.bits \cap DOMAIN a.uni} /\ DOMAIN u = 1 .. Len(u)
    <3>1. Gamma(a) = {a.uni[k] : k \in a.bits \cap DOMAIN a.uni}
      BY <1>2, SetDef, Zenon
    <3>. QED
      BY <2>1, <3>1 DEF Universe
  <2>3. PICK p \in 1 .. Len(u) : u[p] = x
    BY <2>1, <2>2
  <2>4. PICK r : IntoNumSet(b, u) = NumericSet(u, r) /\ p \in r
    BY <2>1, <2>3, IntoFinds
  <2>5. NumericSet(u, r).kind = "set" /\ NumericSet(u, r).bits = r
    BY DEF NumericSet
  <2>6. IsFailed(NumericSet(u, r)) <=> NumericSet(u, r).bits = {}
    BY <2>5, SetDef, Zenon
  <2>. QED
    BY <2>1, <2>4, <2>5, <2>6
<1>. QED
  BY <1>1, <1>2, IsOpDef

LEMMA ComparisonsSound ==
    ASSUME NEW a, WellFormed(a), NEW b, WellFormed(b),
           NEW op \in {"Lt", "Gt", "Leq", "Geq", "Eq", "Neq"}
    PROVE  (IsOp(op, a, b) => Always(op, a, b)) /\ (Always(op, a, b) /\ op # "Neq" => IsOp(op, a, b))
<1>b. /\ MinValue(a) \in Gamma(a) /\ MaxValue(a) \in Gamma(a) /\ MinValue(b) \in Gamma(b) /\ MaxValue(b) \in Gamma(b)
      /\ MinValue(a) \in Nat /\ MaxValue(a) \in Nat /\ MinValue(b) \in Nat /\ MaxValue(b) \in Nat
      /\ \A x \in Gamma(a) : x \in Nat /\ MinValue(a) <= x /\ x <= MaxValue(a)
      /\ \A y \in Gamma(b) : y \in Nat /\ MinValue(b) <= y /\ y <= MaxValue(b)
  BY AllBounded, Constants DEF Bounded
<1>1. CASE op = "Lt"
  <2>1. Always(op, a, b) <=> \A x \in Gamma(a), y \in Gamma(b) : x < y
    BY <1>1, HoldsDef DEF Always
  <2>. QED
    BY <1>1, <1>b, <2>1, IsOpDef
<1>2. CASE op = "Gt"
  <2>1. Always(op, a, b) <=> \A x \in Gamma(a), y \in Gamma(b) : x > y
    BY <1>2, HoldsDef DEF Always
  <2>. QED
    BY <1>2, <1>b, <2>1, IsOpDef
<1>3. CASE op = "Leq"
  <2>1. Always(op, a, b) <=> \A x \in Gamma(a), y \in Gamma(b) : x <= y
    BY <1>3, HoldsDef DEF Always
  <2>. QED
    BY <1>3, <1>b, <2>1, IsOpDef
<1>4. CASE op = "Geq"
  <2>1. Always(op, a, b) <=> \A x \in Gamma(a), y \in Gamma(b) : x >= y
    BY <1>4, HoldsDef DEF Always
  <2>. QED
    BY <1>4, <1>b, <2>1, IsOpDef
<1>5. CASE op = "Eq"
  <2>1. Always(op, a, b) <=> \A x \in Gamma(a), y \in Gamma(b) : x = y
    BY <1>5, HoldsDef DEF Always
  <2>. QED
    BY <1>5, <1>b, <2>1, IsOpDef
<1>6. CASE op = "Neq"
  <2>1. Always(op, a, b) <=> \A x \in Gamma(a), y \in Gamma(b) : x # y
    BY <1>6, HoldsDef DEF Always
  <2>. QED
    BY <1>6, <2>1, SharedNotNeq
<1>. QED
  BY <1>1, <1>2, <1>3, <1>4, <1>5, <1>6

-----------------------------------------------------------------------------
(* Intersection and union of two domains of one type.                        *)

MeetSound(a, b) ==
    /\ Gamma(DomainRestrict(a, b)) = Gamma(a) \cap Gamma(b)
    /\ Gamma(a) \cup Gamma(b) \subseteq Gamma(DomainInsert(a, b))
    /\ IsFailed(DomainRestrict(a, b)) = (Gamma(a) \cap Gamma(b) = {})

LEMMA SetsMeet ==
    ASSUME NEW u, Universe(u), NEW A \in SUBSET (1 .. Len(u)), NEW B \in SUBSET (1 .. Len(u))
    PROVE  MeetSound(NumericSet(u, A), NumericSet(u, B))
<1>. DEFINE a == NumericSet(u, A)
            b == NumericSet(u, B)
            G(S) == {u[k] : k \in S}
<1>1. DOMAIN u = 1 .. Len(u) /\ \A i, j \in 1 .. Len(u) : i = j <=> u[i] = u[j]
  BY Increasing DEF Universe
<1>2. ASSUME NEW S \in SUBSET (1 .. Len(u))
      PROVE  Gamma(NumericSet(u, S)) = G(S) /\ IsFailed(NumericSet(u, S)) = (S = {})
  <2>. DEFINE d == NumericSet(u, S)
  <2>1. d.kind = "set" /\ d.uni = u /\ d.bits = S /\ S \cap DOMAIN u = S
    BY <1>1 DEF NumericSet
  <2>. HIDE DEF d
  <2>2. Gamma(d) = {d.uni[k] : k \in d.bits \cap DOMAIN d.uni} /\ IsFailed(d) = (d.bits = {})
    BY <2>1, SetDef, Zenon
  <2>3. Gamma(d) = G(S) /\ IsFailed(d) = (S = {})
    BY <2>1, <2>2, Zenon
  <2>. QED
    BY <2>3 DEF d
<1>3. DomainRestrict(a, b) = NumericSet(u, A \cap B) /\ DomainInsert(a, b) = NumericSet(u, A \cup B)
  <2>1. a.kind = "set" /\ a.bits = A /\ b.bits = B
    BY DEF NumericSet
  <2>2. DomainRestrict(a, b) = [a EXCEPT !.bits = @ \cap b.bits] /\ DomainInsert(a, b) = [a EXCEPT !.bits = @ \cup b.bits]
    <3>. HIDE DEF a, b
    <3>. QED
      BY <2>1, SetDef, Zenon
  <2>3. /\ [a EXCEPT !.bits = @ \cap b.bits] = NumericSet(u, A \cap B)
        /\ [a EXCEPT !.bits = @ \cup b.bits] = NumericSet(u, A \cup B)
    <3>1. b.bits = B /\ a = [kind |-> "set", uni |-> u, bits |-> A]
      BY DEF NumericSet
    <3>2. ASSUME NEW S PROVE [a EXCEPT !.bits = S] = [kind |-> "set", uni |-> u, bits |-> S]
      BY <3>1
    <3>3. /\ [a EXCEPT !.bits = @ \cap b.bits] = [a EXCEPT !.bits = A \cap B]
          /\ [a EXCEPT !.bits = @ \cup b.bits] = [a EXCEPT !.bits = A \cup B]
      BY <3>1
    <3>. HIDE DEF a, b
    <3>. QED
      BY <3>2, <3>3 DEF NumericSet
  <2>. QED
    BY <2>2, <2>3
<1>4. /\ Gamma(a) = G(A) /\ Gamma(b) = G(B)
      /\ Gamma(DomainRestrict(a, b)) = G(A \cap B) /\ IsFailed(DomainRestrict(a, b)) = (A \cap B = {})
      /\ Gamma(DomainInsert(a, b)) = G(A \cup B)
  <2>1. A \cap B \in SUBSET (1 .. Len(u)) /\ A \cup B \in SUBSET (1 .. Len(u))
    OBVIOUS
  <2>. HIDE DEF G
  <2>. QED
    BY <1>2, <1>3, <2>1
<1>5. G(A \cap B) = G(A) \cap G(B) /\ G(A) \cup G(B) \subseteq G(A \cup B)
  BY <1>1
<1>6. (A \cap B = {}) = (G(A) \cap G(B) = {})
  BY <1>1
<1>. HIDE DEF a, b, G
<1>7. MeetSound(a, b)
  BY <1>4, <1>5, <1>6 DEF MeetSound
<1>. QED
  BY <1>7 DEF a, b

LEMMA RangesMeet ==
    ASSUME NEW m \in U32, NEW n \in U32, NEW k \in U32, NEW l \in U32
    PROVE  MeetSound(NumRange(m, n), NumRange(k, l)) /\ MeetSound(HalfRange(m), HalfRange(k))
<1>n. m \in Nat /\ n \in Nat /\ k \in Nat /\ l \in Nat /\ U32Max \in Nat /\ m <= U32Max /\ k <= U32Max
  BY Constants DEF U32
<1>m. /\ Max({m, k}) = (IF m <= k THEN k ELSE m) /\ Min({m, k}) = (IF m <= k THEN m ELSE k)
      /\ Max({n, l}) = (IF n <= l THEN l ELSE n) /\ Min({n, l}) = (IF n <= l THEN n ELSE l)
  BY <1>n, PairBounds
<1>1. MeetSound(NumRange(m, n), NumRange(k, l))
  <2>. DEFINE a == NumRange(m, n)
              b == NumRange(k, l)
              x == Max({m, k})
              y == Min({n, l})
  <2>1. a.kind = "range" /\ a.min = m /\ a.max = n /\ b.min = k /\ b.max = l
    BY DEF NumRange
  <2>2. Gamma(a) = m .. n /\ Gamma(b) = k .. l
    BY InBounds
  <2>3. DomainRestrict(a, b) = NumRange(x, y) /\ DomainInsert(a, b) = NumRange(Min({m, k}), Max({n, l}))
    <3>. HIDE DEF a, b
    <3>1. /\ DomainRestrict(a, b) = NumRange(Max({a.min, b.min}), Min({a.max, b.max}))
          /\ DomainInsert(a, b) = NumRange(Min({a.min, b.min}), Max({a.max, b.max}))
      BY <2>1, RangeDef, Zenon
    <3>. QED
      BY <2>1, <3>1, Zenon
  <2>4. NumRange(x, y).kind = "range" /\ NumRange(x, y).min = x /\ NumRange(x, y).max = y
    BY DEF NumRange
  <2>5. IsFailed(NumRange(x, y)) = (x > y)
    <3>1. IsFailed(NumRange(x, y)) = (NumRange(x, y).min > NumRange(x, y).max)
      BY <2>4, RangeDef, Zenon
    <3>. QED
      BY <2>4, <3>1, Zenon
  <2>6. Gamma(NumRange(x, y)) = x .. y /\ Gamma(DomainInsert(a, b)) = Min({m, k}) .. Max({n, l})
    BY <2>3, InBounds
  <2>7. x .. y = (m .. n) \cap (k .. l) /\ (m .. n) \cup (k .. l) \subseteq Min({m, k}) .. Max({n, l})
    <3>1. x .. y = (m .. n) \cap (k .. l)
      BY <1>m, <1>n
    <3>2. (m .. n) \cup (k .. l) \subseteq Min({m, k}) .. Max({n, l})
      BY <1>m, <1>n
    <3>. QED
      BY <3>1, <3>2
  <2>8. (x > y) = (x .. y = {})
    <3>1. x \in Int /\ y \in Int
      BY <1>m, <1>n
    <3>. HIDE DEF x, y
    <3>2. CASE x > y
      BY <3>1, <3>2
    <3>3. CASE ~(x > y)
      <4>1. x \in x .. y
        BY <3>1, <3>3
      <4>. QED
        BY <3>3, <4>1
    <3>. QED
      BY <3>2, <3>3
  <2>. HIDE DEF a, b, x, y
  <2>9. MeetSound(a, b)
    BY <2>2, <2>3, <2>5, <2>6, <2>7, <2>8 DEF MeetSound
  <2>. QED
    BY <2>9 DEF a, b
<1>2. MeetSound(HalfRange(m), HalfRange(k))
  <2>. DEFINE a == HalfRange(m)
              b == HalfRange(k)
              x == Max({m, k})
  <2>1. a.kind = "half" /\ a.min = m /\ b.min = k
    BY DEF HalfRange
  <2>2. Gamma(a) = m .. U32Max /\ Gamma(b) = k .. U32Max
    BY InBounds
  <2>3. DomainRestrict(a, b) = HalfRange(x) /\ DomainInsert(a, b) = HalfRange(Min({m, k}))
    <3>. HIDE DEF a, b
    <3>1. /\ DomainRestrict(a, b) = HalfRange(Max({a.min, b.min}))
          /\ DomainInsert(a, b) = HalfRange(Min({a.min, b.min}))
      BY <2>1, HalfDef, Zenon
    <3>. QED
      BY <2>1, <3>1, Zenon
  <2>4. HalfRange(x).kind = "half"
    BY DEF HalfRange
  <2>5. IsFailed(HalfRange(x)) = FALSE
    BY <2>4, HalfDef, Zenon
  <2>6. Gamma(HalfRange(x)) = x .. U32Max /\ Gamma(DomainInsert(a, b)) = Min({m, k}) .. U32Max
    BY <2>3, InBounds
  <2>7. /\ x .. U32Max = (m .. U32Max) \cap (k .. U32Max)
        /\ (m .. U32Max) \cup (k .. U32Max) \subseteq Min({m, k}) .. U32Max
    BY <1>m, <1>n
  <2>8. U32Max \in x .. U32Max
    BY <1>m, <1>n
  <2>. HIDE DEF a, b, x
  <2>9. MeetSound(a, b)
    BY <2>2, <2>3, <2>5, <2>6, <2>7, <2>8 DEF MeetSound
  <2>. QED
    BY <2>9 DEF a, b
<1>. QED
  BY <1>1, <1>2

LEMMA MeetsSound ==
    ASSUME NEW a, WellFormed(a), NEW b, WellFormed(b),
           a.kind = b.kind, a.kind \in {"set", "range", "half"}, a.kind = "set" => a.uni = b.uni
    PROVE  MeetSound(a, b)
<1>k. /\ \A u, bits : NumericSet(u, bits).kind = "set" /\ NumericSet(u, bits).uni = u
      /\ \A m, n : NumRange(m, n).kind = "range"
      /\ \A m : HalfRange(m).kind = "half" /\ Constant(m).kind = "const" /\ Slice(m).kind = "slice"
  BY DEF NumericSet, NumRange, HalfRange, Constant, Slice
<1>1. CASE a.kind = "set"
  <2>1. PICK u : \E A \in SUBSET (1 .. Len(u)) : Universe(u) /\ a = NumericSet(u, A)
    BY <1>1, <1>k DEF WellFormed
  <2>2. PICK w : \E B \in SUBSET (1 .. Len(w)) : b = NumericSet(w, B)
    <3>1. b.kind = "set"
      BY <1>1
    <3>. QED
      BY <1>k, <3>1 DEF WellFormed
  <2>3. u = w
    BY <1>1, <1>k, <2>1, <2>2
  <2>. QED
    BY <2>1, <2>2, <2>3, SetsMeet
<1>2. CASE a.kind = "range"
  <2>1. (\E m, n \in U32 : a = NumRange(m, n)) /\ (\E m, n \in U32 : b = NumRange(m, n))
    <3>0. b.kind = "range"
      BY <1>2
    <3>1. \E m, n \in U32 : a = NumRange(m, n)
      BY <1>2, <1>k DEF WellFormed
    <3>2. \E m, n \in U32 : b = NumRange(m, n)
      BY <1>k, <3>0 DEF WellFormed
    <3>. QED
      BY <3>1, <3>2
  <2>. QED
    BY <2>1, RangesMeet
<1>3. CASE a.kind = "half"
  <2>1. (\E m \in U32 : a = HalfRange(m)) /\ (\E m \in U32 : b = HalfRange(m))
    <3>0. b.kind = "half"
      BY <1>3
    <3>1. \E m \in U32 : a = HalfRange(m)
      BY <1>3, <1>k DEF WellFormed
    <3>2. \E m \in U32 : b = HalfRange(m)
      BY <1>k, <3>0 DEF WellFormed
    <3>. QED
      BY <3>1, <3>2
  <2>. QED
    BY <2>1, RangesMeet
<1>. QED
  BY <1>1, <1>2, <1>3

LEMMA ConstructorsSound ==
    ASSUME NEW a, WellFormed(a), NEW b, WellFormed(b), a.kind \in {"set", "range", "half"},
           NEW op \in Constructors, NEW x \in IF a.kind = "set" THEN Range(a.uni) ELSE U32,
           NEW y \in Gamma(b), Holds(op, x, y)
    PROVE  x \in Gamma(NewLike(a, op, b))
<1>1. CASE a.kind = "set"
  <2>1. \A m, n : NumRange(m, n).kind # "set" /\ HalfRange(m).kind # "set" /\ Constant(m).kind # "set" /\ Slice(m).kind # "set"
    BY DEF NumRange, HalfRange, Constant, Slice
  <2>2. \A u, bits : NumericSet(u, bits).uni = u
    BY DEF NumericSet
  <2>3. Universe(a.uni)
    BY <1>1, <2>1, <2>2, SMTT(30) DEF WellFormed
  <2>4. PICK p \in 1 .. Len(a.uni) : x = a.uni[p]
    <3>1. DOMAIN a.uni = 1 .. Len(a.uni) /\ x \in Range(a.uni)
      BY <1>1, <2>3 DEF Universe
    <3>. QED
      BY <3>1 DEF Range
  <2>5. NewLike(a, op, b) = NewNumericSet(op, a.uni, b)
    <3>1. \A o, c : NewLike(a, o, c) = NewNumericSet(o, a.uni, c)
      BY <1>1, SetDef, Zenon
    <3>. QED
      BY <3>1
  <2>. QED
    BY <2>3, <2>4, <2>5, SetKeeps
<1>2. CASE a.kind = "range"
  <2>1. NewLike(a, op, b) = NewRange(op, b)
    BY <1>2, RangeDef, Zenon
  <2>2. x \in U32
    BY <1>2
  <2>. QED
    BY <2>1, <2>2, BoundsKeep
<1>3. CASE a.kind = "half"
  <2>1. NewLike(a, op, b) = NewHalfRange(op, b)
    BY <1>3, HalfDef, Zenon
  <2>2. x \in U32
    BY <1>3
  <2>. QED
    BY <2>1, <2>2, BoundsKeep
<1>. QED
  BY <1>1, <1>2, <1>3

-----------------------------------------------------------------------------
(* The results.                                                              *)

(***************************************************************************)
(* On domains of any kind, over any universes that leave two bits free: a  *)
(* comparison (is_lt ... is_neq) holds only if it holds between all values *)
(* of its arguments, a constructor (new_lt ... new_eq) keeps every value   *)
(* that may satisfy it, restrict is the intersection, is_failed tells that *)
(* it is empty, and insert loses nothing.                                  *)
(***************************************************************************)
THEOREM DomainOpsAreSound ==
    ASSUME NEW D, \A d \in D : WellFormed(d)
    PROVE  DomainOpsSound(D)
<1>. SUFFICES ASSUME NEW a \in D, NEW b \in D
              PROVE  /\ \A op \in {"Lt", "Gt", "Leq", "Geq", "Eq", "Neq"} :
                          /\ IsOp(op, a, b) => Always(op, a, b)
                          /\ Always(op, a, b) /\ op # "Neq" => IsOp(op, a, b)
                     /\ a.kind \in {"set", "range", "half"} =>
                          \A op \in Constructors :
                            \A x \in IF a.kind = "set" THEN Range(a.uni) ELSE U32 :
                              (\E y \in Gamma(b) : Holds(op, x, y)) => x \in Gamma(NewLike(a, op, b))
                     /\ a.kind = b.kind /\ a.kind \in {"set", "range", "half"} /\ (a.kind = "set" => a.uni = b.uni) =>
                          MeetSound(a, b)
  BY Zenon DEF DomainOpsSound, Always, Constructors, MeetSound
<1>0. WellFormed(a) /\ WellFormed(b)
  OBVIOUS
<1>1. \A op \in {"Lt", "Gt", "Leq", "Geq", "Eq", "Neq"} :
          /\ IsOp(op, a, b) => Always(op, a, b)
          /\ Always(op, a, b) /\ op # "Neq" => IsOp(op, a, b)
  BY <1>0, ComparisonsSound
<1>2. a.kind \in {"set", "range", "half"} =>
        \A op \in Constructors :
          \A x \in IF a.kind = "set" THEN Range(a.uni) ELSE U32 :
            (\E y \in Gamma(b) : Holds(op, x, y)) => x \in Gamma(NewLike(a, op, b))
  BY <1>0, ConstructorsSound
<1>3. a.kind = b.kind /\ a.kind \in {"set", "range", "half"} /\ (a.kind = "set" => a.uni = b.uni) => MeetSound(a, b)
  BY <1>0, MeetsSound
<1>. QED
  BY <1>1, <1>2, <1>3

\* The domains the filters are made of are well formed.
LEMMA SomeDomainsWellFormed ==
    ASSUME NEW U, \A u \in U : Universe(u), NEW n \in U32
    PROVE  \A d \in SomeDomains(U, n) \cup {AllValues(u) : u \in U} : WellFormed(d)
<1>u. \A u \in U : u \in Seq(U32) /\ Ordered(u) /\ u # <<>> /\ DOMAIN u = 1 .. Len(u) /\ Len(u) \in 1 .. MaxLen - 2
  BY DEF Universe
<1>n. \A x \in 0 .. n : x \in U32
  BY Constants DEF U32
<1>. SUFFICES ASSUME NEW d \in SomeDomains(U, n) \cup {AllValues(u) : u \in U} PROVE WellFormed(d)
  OBVIOUS
<1>1. CASE \E u \in U : \E bits \in (SUBSET DOMAIN u) \ {{}} : d = NumericSet(u, bits)
  BY <1>1, <1>u DEF WellFormed
<1>2. CASE \E r \in {q \in (0 .. n) \X (0 .. n) : q[1] <= q[2]} : d = NumRange(r[1], r[2])
  BY <1>2, <1>n DEF WellFormed
<1>3. CASE \E x \in 0 .. n : d = HalfRange(x) \/ d = Constant(x)
  BY <1>3, <1>n DEF WellFormed
<1>4. CASE \E u \in U : d = Slice(u)
  BY <1>4, <1>u DEF WellFormed
<1>5. CASE \E u \in U : d = AllValues(u)
  <2>1. PICK u \in U : d = NumericSet(u, Ones(0, Len(u)))
    BY <1>5 DEF AllValues
  <2>2. Len(u) \in Nat /\ Len(u) < MaxLen /\ MaxLen \in Nat /\ 1 <= Len(u)
    BY <1>u, Constants
  <2>3. Len(u) % MaxLen = Len(u)
    BY <2>2, ModSmall
  <2>4. Ones(0, Len(u)) \subseteq 1 .. Len(u)
    BY <2>2, <2>3 DEF Ones
  <2>5. 1 \in Ones(0, Len(u))
    BY <2>2, OnesOf
  <2>. QED
    BY <2>1, <2>4, <2>5 DEF WellFormed
<1>6. \/ \E u \in U : \E bits \in (SUBSET DOMAIN u) \ {{}} : d = NumericSet(u, bits)
      \/ \E r \in {q \in (0 .. n) \X (0 .. n) : q[1] <= q[2]} : d = NumRange(r[1], r[2])
      \/ \E x \in 0 .. n : d = HalfRange(x) \/ d = Constant(x)
      \/ \E u \in U : d = Slice(u)
      \/ \E u \in U : d = AllValues(u)
  <2>1. \/ d \in UNION {{NumericSet(u, bits) : bits \in (SUBSET DOMAIN u) \ {{}}} : u \in U}
        \/ d \in {NumRange(r[1], r[2]) : r \in {q \in (0 .. n) \X (0 .. n) : q[1] <= q[2]}}
        \/ d \in {HalfRange(x) : x \in 0 .. n}
        \/ d \in {Constant(x) : x \in 0 .. n}
        \/ d \in {Slice(u) : u \in U}
        \/ d \in {AllValues(u) : u \in U}
    BY Zenon DEF SomeDomains
  <2>2. CASE d \in UNION {{NumericSet(u, bits) : bits \in (SUBSET DOMAIN u) \ {{}}} : u \in U}
    BY <2>2, Zenon
  <2>3. CASE d \in {NumRange(r[1], r[2]) : r \in {q \in (0 .. n) \X (0 .. n) : q[1] <= q[2]}}
    BY <2>3, Zenon
  <2>4. CASE d \in {HalfRange(x) : x \in 0 .. n}
    BY <2>4, Zenon
  <2>5. CASE d \in {Constant(x) : x \in 0 .. n}
    BY <2>5, Zenon
  <2>6. CASE d \in {Slice(u) : u \in U}
    BY <2>6, Zenon
  <2>7. CASE d \in {AllValues(u) : u \in U}
    BY <2>7, Zenon
  <2>. QED
    BY <2>1, <2>2, <2>3, <2>4, <2>5, <2>6, <2>7, Zenon
<1>. QED
  BY <1>1, <1>2, <1>3, <1>4, <1>5, <1>6

(***************************************************************************)
(* In every search space the comparisons and constructors that the filters *)
(* call on NumericSet, Range, HalfRange, constants and slices are sound.   *)
(***************************************************************************)
THEOREM FilterDomainsSound == Spec => []DomainsSound
<1>1. Universe(NumUniverse) /\ Universe(<<1, 3>>) /\ 4 \in U32
  <2>1. Universe(NumUniverse)
    BY UniverseAssumption DEF Universe, Ordered
  <2>2. 1 \in U32 /\ 3 \in U32 /\ 4 \in U32
    BY NumDomainsAssumption DEF U32
  <2>3. <<1, 3>> \in Seq(U32) /\ Len(<<1, 3>>) = 2 /\ Ordered(<<1, 3>>)
    BY <2>2 DEF Ordered
  <2>4. 2 \in 1 .. MaxLen - 2
    BY NumDomainsAssumption
  <2>. QED
    BY <2>1, <2>2, <2>3, <2>4 DEF Universe
<1>2. DomainsSound
  <2>. DEFINE U == {NumUniverse, <<1, 3>>}
              D == SomeDomains(U, 4) \cup {AllValues(NumUniverse)}
  <2>1. \A u \in U : Universe(u)
    BY <1>1
  <2>2. \A d \in SomeDomains(U, 4) \cup {AllValues(u) : u \in U} : WellFormed(d)
    <3>. HIDE DEF U
    <3>. QED
      BY <1>1, <2>1, SomeDomainsWellFormed
  <2>3. \A d \in D : WellFormed(d)
    BY <2>2
  <2>4. DomainOpsSound(D)
    <3>. HIDE DEF D
    <3>. QED
      BY <2>3, DomainOpsAreSound
  <2>. QED
    BY <2>4 DEF DomainsSound
<1>. QED
  BY <1>2, PTL

(***************************************************************************)
(* The two free bits are needed: over a universe of all but one bits the   *)
(* mask that into_num_set makes for a half range below all the values      *)
(* shifts by the full width, and new_eq loses every value.                 *)
(***************************************************************************)
THEOREM MaskOverflows ==
    ASSUME NEW u \in Seq(U32), Ordered(u), Len(u) = MaxLen - 1, \A i \in 1 .. Len(u) : u[i] < U32Max
    PROVE  Gamma(NewNumericSet("Eq", u, HalfRange(0))) = {}
<1>1. u \in Seq(Nat) /\ Len(u) \in Nat /\ MaxLen \in Nat /\ MaxLen >= 4 /\ U32Max \in Nat
  BY Increasing, NumDomainsAssumption
<1>2. HalfRange(0).kind = "half" /\ HalfRange(0).min = 0
  BY DEF HalfRange
<1>3. MinValue(HalfRange(0)) = 0 /\ MaxValue(HalfRange(0)) = U32Max /\ IntoNumSet(HalfRange(0), u) = IntoNumSetBounds(HalfRange(0), u)
  <2>1. MinValue(HalfRange(0)) = HalfRange(0).min /\ MaxValue(HalfRange(0)) = U32Max /\ IntoNumSet(HalfRange(0), u) = IntoNumSetBounds(HalfRange(0), u)
    BY <1>2, HalfDef, Zenon
  <2>. QED
    BY <1>2, <2>1, Zenon
<1>4. BinarySearch(u, 0) = 0 /\ BinarySearch(u, U32Max) = Len(u)
  <2>1. /\ BinarySearch(u, 0) \in 0 .. Len(u) /\ \A i \in 1 .. Len(u) : u[i] < 0 <=> i <= BinarySearch(u, 0)
        /\ BinarySearch(u, U32Max) \in 0 .. Len(u) /\ \A i \in 1 .. Len(u) : u[i] < U32Max <=> i <= BinarySearch(u, U32Max)
    BY <1>1, SearchPrefix
  <2>2. 1 \in 1 .. Len(u) /\ Len(u) \in 1 .. Len(u) /\ u[1] \in Nat
    BY <1>1
  <2>. QED
    BY <1>1, <2>1, <2>2
<1>5. NewNumericSet("Eq", u, HalfRange(0)) = NumericSet(u, Ones(0, MaxLen))
  <2>1. NewNumericSet("Eq", u, HalfRange(0)) = IntoNumSetBounds(HalfRange(0), u)
    BY <1>3, NewSetDef
  <2>2. Len(u) - 0 + 1 = MaxLen
    BY <1>1
  <2>. QED
    BY <1>3, <1>4, <2>1, <2>2 DEF IntoNumSetBounds
<1>6. Ones(0, MaxLen) = {}
  <2>1. MaxLen % MaxLen = 0
    BY <1>1
  <2>. QED
    BY <2>1 DEF Ones
<1>. DEFINE d == NumericSet(u, {})
<1>7. d.kind = "set" /\ d.bits = {}
  BY DEF NumericSet
<1>8. Gamma(d) = {}
  <2>. HIDE DEF d
  <2>1. Gamma(d) = {d.uni[k] : k \in d.bits \cap DOMAIN d.uni}
    BY <1>7, SetDef, Zenon
  <2>. QED
    BY <1>7, <2>1
<1>. QED
  BY <1>5, <1>6, <1>8

-----------------------------------------------------------------------------
(* Folds.  A fold over a sequence is a sequence of states; a fold over a     *)
(* set does not depend on the order when its steps commute.                  *)

LEMMA UpTo ==
    ASSUME NEW n \in Nat, NEW P, 0 \in P, \A i \in 1 .. n : i - 1 \in P => i \in P
    PROVE  \A i \in 0 .. n : i \in P
<1>. DEFINE Bad == {i \in 0 .. n : i \notin P}
<1>. SUFFICES ASSUME Bad # {} PROVE FALSE
  OBVIOUS
<1>1. Bad \in SUBSET Nat
  OBVIOUS
<1>2. PICK b \in Bad : \A i \in Bad : b <= i
  <2>. HIDE DEF Bad
  <2>. QED
    BY <1>1, LeastNatural
<1>3. b # 0 /\ b \in 1 .. n /\ b - 1 \in 0 .. n /\ ~(b <= b - 1)
  BY <1>2
<1>4. b - 1 \in P
  BY <1>2, <1>3
<1>. QED
  BY <1>2, <1>3, <1>4

LEMMA OverSubsets ==
    ASSUME NEW S, IsFiniteSet(S), NEW P,
           \A T \in SUBSET S : (\A x \in T : T \ {x} \in P) => T \in P
    PROVE  \A T \in SUBSET S : T \in P
<1>. DEFINE Q == {n \in Nat : \A T \in SUBSET S : Cardinality(T) = n => T \in P}
<1>c. \A T \in SUBSET S : /\ IsFiniteSet(T) /\ Cardinality(T) \in Nat /\ Cardinality(T) <= Cardinality(S)
                          /\ (Cardinality(T) = 0 <=> T = {})
                          /\ \A x \in T : Cardinality(T \ {x}) = Cardinality(T) - 1
  BY FS_Subset, FS_CardinalityType, FS_EmptySet, FS_RemoveElement
<1>1. Cardinality(S) \in Nat
  BY <1>c
<1>2. 0 \in Q
  BY <1>c
<1>3. ASSUME NEW i \in 1 .. Cardinality(S), i - 1 \in Q PROVE i \in Q
  <2>. SUFFICES ASSUME NEW T \in SUBSET S, Cardinality(T) = i PROVE T \in P
    BY <1>1
  <2>1. \A x \in T : T \ {x} \in SUBSET S /\ Cardinality(T \ {x}) = i - 1
    BY <1>c
  <2>. QED
    BY <1>3, <2>1
<1>4. \A i \in 0 .. Cardinality(S) : i \in Q
  <2>. HIDE DEF Q
  <2>. QED
    BY <1>1, <1>2, <1>3, UpTo
<1>. QED
  BY <1>1, <1>4, <1>c

\* A recursive function over the subsets of a finite set exists.
Chooses(S, ch) == \A T \in SUBSET S : T # {} => ch[T] \in T

FoldOf(S, base, op, ch, g) ==
    \A T \in SUBSET S : g[T] = IF T = {} THEN base ELSE op[ch[T], g[T \ {ch[T]}]]

LEMMA FoldExists ==
    ASSUME NEW S, IsFiniteSet(S), NEW B, NEW base \in B, NEW op \in [S \X B -> B],
           NEW ch, Chooses(S, ch)
    PROVE  \E g \in [SUBSET S -> B] : FoldOf(S, base, op, ch, g)
<1>h. \A T \in SUBSET S : T # {} => ch[T] \in T
  BY DEF Chooses
<1>. DEFINE Val(g, T) == IF T = {} THEN base ELSE op[ch[T], g[T \ {ch[T]}]]
            Upto(n, g) == \A T \in SUBSET S : Cardinality(T) <= n => g[T] = Val(g, T)
            Q == {n \in Nat : \E g \in [SUBSET S -> B] : Upto(n, g)}
<1>c. \A T \in SUBSET S : /\ IsFiniteSet(T) /\ Cardinality(T) \in Nat
                          /\ Cardinality(T) <= Cardinality(S) /\ (Cardinality(T) = 0 <=> T = {})
                          /\ \A x \in T : Cardinality(T \ {x}) = Cardinality(T) - 1
  BY FS_Subset, FS_CardinalityType, FS_EmptySet, FS_RemoveElement
<1>t. \A g \in [SUBSET S -> B], T \in SUBSET S : Val(g, T) \in B
  <2>. SUFFICES ASSUME NEW g \in [SUBSET S -> B], NEW T \in SUBSET S, T # {}
                PROVE  op[ch[T], g[T \ {ch[T]}]] \in B
    BY Zenon
  <2>1. ch[T] \in S /\ g[T \ {ch[T]}] \in B
    BY <1>h
  <2>2. <<ch[T], g[T \ {ch[T]}]>> \in S \X B
    BY <2>1
  <2>. QED
    BY <2>2, Zenon
<1>1. 0 \in Q
  <2>. DEFINE h == [T \in SUBSET S |-> base]
  <2>1. ASSUME NEW T \in SUBSET S, Cardinality(T) <= 0 PROVE T = {}
    <3>1. Cardinality(T) \in Nat /\ (Cardinality(T) = 0 <=> T = {})
      BY <1>c
    <3>. QED
      BY <2>1, <3>1
  <2>2. h \in [SUBSET S -> B] /\ Upto(0, h)
    BY <2>1, Zenon
  <2>. QED
    BY <2>2, Zenon
<1>2. ASSUME NEW n \in 1 .. Cardinality(S), n - 1 \in Q PROVE n \in Q
  <2>0. n \in Nat /\ n - 1 \in Nat
    BY <1>c
  <2>1. PICK g \in [SUBSET S -> B] : Upto(n - 1, g)
    BY <1>2, Zenon
  <2>. DEFINE h == [T \in SUBSET S |-> IF Cardinality(T) <= n - 1 THEN g[T] ELSE Val(g, T)]
  <2>2. h \in [SUBSET S -> B]
    BY <1>t, Zenon
  <2>3. ASSUME NEW T \in SUBSET S, Cardinality(T) <= n PROVE h[T] = Val(h, T)
    <3>1. h[T] = Val(g, T)
      BY <2>1, Zenon
    <3>2. T # {} => h[T \ {ch[T]}] = g[T \ {ch[T]}]
      <4>. SUFFICES ASSUME T # {} PROVE h[T \ {ch[T]}] = g[T \ {ch[T]}]
        BY Zenon
      <4>1. /\ Cardinality(T \ {ch[T]}) = Cardinality(T) - 1 /\ Cardinality(T) \in Nat
            /\ T \ {ch[T]} \in SUBSET S
        BY <1>c, <1>h
      <4>2. Cardinality(T \ {ch[T]}) <= n - 1
        BY <2>0, <2>3, <4>1
      <4>. QED
        BY <4>1, <4>2, Zenon
    <3>. QED
      BY <3>1, <3>2, Zenon
  <2>. HIDE DEF h
  <2>. QED
    BY <2>0, <2>2, <2>3, Zenon
<1>3. Cardinality(S) \in Nat
  BY <1>c
<1>4. Cardinality(S) \in Q
  <2>. HIDE DEF Q
  <2>. QED
    BY <1>1, <1>2, <1>3, UpTo
<1>5. PICK g \in [SUBSET S -> B] : Upto(Cardinality(S), g)
  BY <1>4, Zenon
<1>. QED
  BY <1>5, <1>c, Zenon DEF FoldOf

Commute(S, B, op) == \A x, y \in S : \A v \in B : op[x, op[y, v]] = op[y, op[x, v]]

Splits(S, op, g) == \A T \in SUBSET S : \A x \in T : g[T] = op[x, g[T \ {x}]]

\* A fold whose steps commute may begin with any element.
LEMMA FoldSplit ==
    ASSUME NEW S, IsFiniteSet(S), NEW B, NEW base \in B, NEW op \in [S \X B -> B],
           NEW ch, Chooses(S, ch), Commute(S, B, op), NEW g \in [SUBSET S -> B], FoldOf(S, base, op, ch, g)
    PROVE  Splits(S, op, g)
<1>. DEFINE P == {T \in SUBSET S : \A x \in T : g[T] = op[x, g[T \ {x}]]}
<1>1. ASSUME NEW T \in SUBSET S, \A x \in T : T \ {x} \in P PROVE T \in P
  <2>. SUFFICES ASSUME NEW x \in T PROVE g[T] = op[x, g[T \ {x}]]
    BY Zenon
  <2>. DEFINE c == ch[T]
  <2>1. c \in T /\ g[T] = op[c, g[T \ {c}]]
    BY Zenon DEF Chooses, FoldOf
  <2>. HIDE DEF c
  <2>2. CASE x = c
    BY <2>1, <2>2, Zenon
  <2>3. CASE x # c
    <3>1. x \in T \ {c} /\ c \in T \ {x} /\ (T \ {c}) \ {x} = (T \ {x}) \ {c}
      BY <2>1, <2>3, Zenon
    <3>2. T \ {c} \in P /\ T \ {x} \in P
      BY <1>1, <2>1, Zenon
    <3>3. g[T \ {c}] = op[x, g[(T \ {c}) \ {x}]] /\ g[T \ {x}] = op[c, g[(T \ {x}) \ {c}]]
      BY <3>1, <3>2, Zenon
    <3>4. g[(T \ {x}) \ {c}] \in B /\ x \in S /\ c \in S
      BY <2>1, Zenon
    <3>5. op[x, op[c, g[(T \ {x}) \ {c}]]] = op[c, op[x, g[(T \ {x}) \ {c}]]]
      <4>1. \A v \in B : op[x, op[c, v]] = op[c, op[x, v]]
        BY <3>4, Zenon DEF Commute
      <4>. QED
        BY <3>4, <4>1, Zenon
    <3>. QED
      BY <2>1, <3>1, <3>3, <3>5, Zenon
  <2>. QED
    BY <2>2, <2>3, Zenon
<1>2. \A T \in SUBSET S : T \in P
  <2>. HIDE DEF P
  <2>. QED
    BY <1>1, OverSubsets
<1>. QED
  BY <1>2, Zenon DEF Splits

\* FoldLeft takes its elements from the last to the first: what it has computed for the
\* first i of them is the state after i steps.
LeftFoldOf(n, base, op, g) ==
    \A T \in SUBSET (1 .. n) : g[T] = IF T = {} THEN base ELSE op[Max(T), g[T \ {Max(T)}]]

LEMMA LeftFold ==
    ASSUME NEW n \in Nat, NEW B, NEW base \in B, NEW op \in [(1 .. n) \X B -> B]
    PROVE  \E g \in [SUBSET (1 .. n) -> B] : LeftFoldOf(n, base, op, g)
<1>. DEFINE S == 1 .. n
            ch == [T \in SUBSET S |-> Max(T)]
<1>1. Chooses(S, ch)
  BY GreatestNatural DEF Chooses
<1>2. IsFiniteSet(S)
  BY FS_Interval
<1>3. \A T \in SUBSET S : ch[T] = Max(T)
  OBVIOUS
<1>5. op \in [S \X B -> B]
  OBVIOUS
<1>. HIDE DEF ch, S
<1>4. PICK g \in [SUBSET S -> B] : FoldOf(S, base, op, ch, g)
  BY <1>1, <1>2, <1>5, FoldExists, Zenon
<1>. QED
  BY <1>3, <1>4, ZenonT(60) DEF S, LeftFoldOf, FoldOf

\* What is needed of a function to be such a fold, on a set of states that it never leaves.
LeftFoldIn(n, B, base, op, g) ==
    /\ g[{}] = base
    /\ \A T \in SUBSET (1 .. n) : T # {} /\ g[T \ {Max(T)}] \in B => g[T] = op[Max(T), g[T \ {Max(T)}]]

LEMMA MaxUpTo ==
    ASSUME NEW i \in Nat, i > 0
    PROVE  Max(1 .. i) = i
<1>1. 1 .. i \in SUBSET (1 .. i) /\ 1 .. i # {} /\ i \in 1 .. i
  OBVIOUS
<1>2. Max(1 .. i) \in 1 .. i /\ \A m \in 1 .. i : m <= Max(1 .. i)
  BY <1>1, GreatestNatural
<1>. QED
  BY <1>1, <1>2

Steps(n, base, op, h) == h[0] = base /\ \A i \in 1 .. n : h[i] = op[i, h[i - 1]]

HasSteps(n, B, base, op, g) == \E h \in [0 .. n -> B] : Steps(n, base, op, h) /\ h[n] = g[1 .. n]

LEMMA LeftFoldSteps ==
    ASSUME NEW n \in Nat, NEW B, NEW base \in B, NEW op \in [(1 .. n) \X B -> B], NEW g, LeftFoldIn(n, B, base, op, g)
    PROVE  HasSteps(n, B, base, op, g)
<1>. DEFINE P == {i \in 0 .. n : g[1 .. i] \in B}
<1>1. ASSUME NEW i \in 1 .. n, g[1 .. i - 1] \in B PROVE g[1 .. i] = op[i, g[1 .. i - 1]] /\ g[1 .. i] \in B
  <2>1. 1 .. i \in SUBSET (1 .. n) /\ 1 .. i # {} /\ (1 .. i) \ {i} = 1 .. i - 1
    OBVIOUS
  <2>2. Max(1 .. i) = i
    BY MaxUpTo
  <2>3. g[1 .. i] = op[i, g[1 .. i - 1]]
    BY <1>1, <2>1, <2>2, Zenon DEF LeftFoldIn
  <2>4. <<i, g[1 .. i - 1]>> \in (1 .. n) \X B
    BY <1>1
  <2>. QED
    BY <2>3, <2>4, Zenon
<1>2. g[1 .. 0] = base
  <2>1. 1 .. 0 = {}
    OBVIOUS
  <2>. QED
    BY <2>1, Zenon DEF LeftFoldIn
<1>3. \A i \in 0 .. n : i \in P
  <2>1. ASSUME NEW i \in 1 .. n, i - 1 \in P PROVE i \in P
    <3>1. g[1 .. i - 1] \in B
      BY <2>1
    <3>2. g[1 .. i] \in B
      BY <1>1, <3>1, Zenon
    <3>. QED
      BY <3>2
  <2>2. 0 \in P
    BY <1>2
  <2>. HIDE DEF P
  <2>. QED
    BY <2>1, <2>2, UpTo
<1>. DEFINE h == [i \in 0 .. n |-> g[1 .. i]]
<1>4. h \in [0 .. n -> B] /\ h[0] = base /\ h[n] = g[1 .. n]
  BY <1>2, <1>3
<1>5. ASSUME NEW i \in 1 .. n PROVE h[i] = op[i, h[i - 1]]
  <2>1. i - 1 \in 0 .. n /\ i \in 0 .. n
    OBVIOUS
  <2>2. g[1 .. i - 1] \in B
    BY <1>3, <2>1
  <2>3. g[1 .. i] = op[i, g[1 .. i - 1]]
    BY <1>1, <2>2, Zenon
  <2>. QED
    BY <2>1, <2>3, Zenon
<1>. HIDE DEF h
<1>. QED
  BY <1>4, <1>5, Zenon DEF Steps, HasSteps

-----------------------------------------------------------------------------
(* Sequences made of sets and of sequences.                                  *)

LEMMA Recursion ==
    ASSUME NEW n \in Nat, NEW B, NEW base \in B, NEW op \in [(1 .. n) \X B -> B]
    PROVE  \E h \in [0 .. n -> B] : Steps(n, base, op, h)
<1>1. PICK g \in [SUBSET (1 .. n) -> B] : LeftFoldOf(n, base, op, g)
  BY LeftFold
<1>2. LeftFoldIn(n, B, base, op, g)
  BY <1>1, Zenon DEF LeftFoldOf, LeftFoldIn
<1>. QED
  BY <1>2, LeftFoldSteps DEF HasSteps

Flattens(seqs, f) == f = [i \in 1 .. Len(seqs) |-> IF i = 1 THEN seqs[i] ELSE f[i - 1] \o seqs[i]]

LEMMA FlattenUnfold ==
    ASSUME NEW seqs, Len(seqs) # 0
    PROVE  FlattenSeq(seqs) = (CHOOSE f : Flattens(seqs, f))[Len(seqs)]
BY DEF FlattenSeq, Flattens

LEMMA FlattenedBy ==
    ASSUME NEW X, NEW seqs \in Seq(Seq(X)), Len(seqs) # 0
    PROVE  \E f : /\ Flattens(seqs, f) /\ FlattenSeq(seqs) = f[Len(seqs)]
                 /\ \A i \in 1 .. Len(seqs) : f[i] \in Seq(X)
<1>. DEFINE n == Len(seqs)
            op == [p \in (1 .. n) \X Seq(X) |-> p[2] \o seqs[p[1]]]
            F == CHOOSE f : Flattens(seqs, f)
<1>0. n \in Nat /\ \A i \in 1 .. n : seqs[i] \in Seq(X)
  OBVIOUS
<1>2. n # 0
  OBVIOUS
<1>. QED
  <2>1. op \in [(1 .. n) \X Seq(X) -> Seq(X)] /\ <<>> \in Seq(X)
    BY <1>0
  <2>2. \A i \in 1 .. n, v \in Seq(X) : op[i, v] = v \o seqs[i]
    BY Zenon
  <2>3. PICK h \in [0 .. n -> Seq(X)] : Steps(n, <<>>, op, h)
    <3>. HIDE DEF op, n
    <3>. QED
      BY <1>0, <2>1, Recursion, Zenon
  <2>4. Flattens(seqs, [i \in 1 .. n |-> h[i]])
    <3>. DEFINE f == [i \in 1 .. n |-> h[i]]
    <3>1. ASSUME NEW i \in 1 .. n PROVE f[i] = IF i = 1 THEN seqs[i] ELSE f[i - 1] \o seqs[i]
      <4>0. i - 1 \in 0 .. n
        BY <1>0
      <4>1. h[i - 1] \in Seq(X)
        BY <4>0, Zenon
      <4>2. h[i] = h[i - 1] \o seqs[i]
        BY <2>2, <2>3, <4>1, Zenon DEF Steps
      <4>3. CASE i = 1
        <5>0. i - 1 = 0
          BY <4>3
        <5>1. h[i - 1] = <<>> /\ seqs[i] \in Seq(X)
          BY <2>3, <5>0, <1>0, Zenon DEF Steps
        <5>2. <<>> \o seqs[i] = seqs[i]
          BY <5>1
        <5>. QED
          BY <4>2, <4>3, <5>1, <5>2
      <4>4. CASE i # 1
        <5>1. i - 1 \in 1 .. n
          BY <4>4
        <5>. QED
          BY <4>2, <4>4, <5>1
      <4>. QED
        BY <4>3, <4>4
    <3>. QED
      BY <3>1 DEF Flattens
  <2>5. Flattens(seqs, F)
    BY <2>4
  <2>. HIDE DEF F
  <2>. DEFINE P == {i \in 0 .. n : i > 0 => F[i] \in Seq(X)}
  <2>6. ASSUME NEW i \in 1 .. n, i - 1 \in P PROVE i \in P
    <3>1. F[i] = IF i = 1 THEN seqs[i] ELSE F[i - 1] \o seqs[i]
      BY <2>5 DEF Flattens
    <3>2. i # 1 => F[i - 1] \in Seq(X)
      BY <2>6
    <3>3. F[i] \in Seq(X)
      BY <1>0, <3>1, <3>2
    <3>. QED
      BY <3>3
  <2>7. \A i \in 0 .. n : i \in P
    <3>1. 0 \in P
      BY <1>0
    <3>. HIDE DEF P
    <3>. QED
      BY <1>0, <2>6, <3>1, UpTo
  <2>8. \A i \in 1 .. n : F[i] \in Seq(X)
    BY <1>0, <2>7
  <2>9. FlattenSeq(seqs) = F[n]
    BY <1>2, FlattenUnfold DEF F
  <2>. QED
    BY <2>5, <2>8, <2>9

LEMMA Flattened ==
    ASSUME NEW X, NEW seqs \in Seq(Seq(X))
    PROVE  FlattenSeq(seqs) \in Seq(X)
<1>1. CASE Len(seqs) = 0
  <2>1. seqs = <<>>
    BY <1>1
  <2>. QED
    BY <1>1, <2>1 DEF FlattenSeq
<1>2. CASE Len(seqs) # 0
  <2>1. Len(seqs) \in 1 .. Len(seqs)
    BY <1>2
  <2>. QED
    BY <1>2, <2>1, FlattenedBy
<1>. QED
  BY <1>1, <1>2

LEMMA SetToSeqOf ==
    ASSUME NEW S, IsFiniteSet(S)
    PROVE  SetToSeq(S) \in Seq(S)
<1>1. Cardinality(S) \in Nat /\ ExistsBijection(1 .. Cardinality(S), S)
  BY FS_CardinalityType
<1>2. \E f \in [1 .. Cardinality(S) -> S] : IsInjective(f)
  BY <1>1 DEF ExistsBijection, Bijection, Injection
<1>3. SetToSeq(S) \in [1 .. Cardinality(S) -> S]
  BY <1>2 DEF SetToSeq
<1>. QED
  BY <1>1, <1>3

LEMMA FiniteImage ==
    ASSUME NEW S, IsFiniteSet(S), NEW f, NEW T, \A y \in T : \E x \in S : y = f[x]
    PROVE  IsFiniteSet(T)
<1>. DEFINE U == {f[x] : x \in S}
            g == [x \in S |-> f[x]]
<1>1. g \in Surjection(S, U)
  BY DEF Surjection
<1>2. IsFiniteSet(U)
  BY <1>1, FS_Surjection
<1>. QED
  BY <1>2, FS_Subset

-----------------------------------------------------------------------------
(* Choice instances and states of a space.                                   *)

Ks(y) == InstancesOf(y, 1 .. y.objs)
Keys(y) == Ks(y) \cup (IF "cnt" \in y.choices THEN {Cnt} ELSE {})
Doms == (SUBSET (EnumValues \cup Range(NumUniverse))) \cup [min : Int, max : Int]
Diffs(y) == UNION {[D -> [old : Doms, new : Doms]] : D \in SUBSET Keys(y)}
SpaceStates(y) == [dom : [Keys(y) -> Doms], diff : Diffs(y), objs : {y.objs}, ok : BOOLEAN]

\* Domains stay within their type and are not empty unless the propagation failed; an
\* entry of the diff holds the current domain and an older one that contains it.
Shaped(y, s) ==
    /\ s \in SpaceStates(y)
    /\ \A k \in Ks(y) : s.dom[k] \subseteq Full(k[1]) /\ (s.ok => s.dom[k] # {})
    /\ \A k \in Ks(y) \cap DOMAIN s.diff :
         s.diff[k].new = s.dom[k] /\ s.dom[k] \subseteq s.diff[k].old /\ s.diff[k].old \subseteq Full(k[1])

\* t is s with some domains restricted, each change recorded.
Narrowed(y, s, t) ==
    /\ Shaped(y, t) /\ (t.ok => s.ok) /\ DOMAIN s.diff \subseteq DOMAIN t.diff
    /\ \A k \in Ks(y) : t.dom[k] \subseteq s.dom[k] /\ OldDomain(t, k) = OldDomain(s, k)
    /\ "cnt" \in y.choices => t.dom[Cnt] = s.dom[Cnt]

LEMMA InstanceShape ==
    ASSUME NEW y \in Systems, NEW k \in Ks(y)
    PROVE  /\ k = <<k[1], k[2]>> /\ k[1] \in y.choices \cap {"flag", "num", "rel"} /\ k # Cnt
           /\ k[1] \in {"flag", "num"} => \E o \in 1 .. y.objs : k = <<k[1], <<o>>>> /\ k[2] = <<o>>
           /\ k[1] = "rel" => \E o, p \in 1 .. y.objs : k[2] = <<o, p>> /\ o < p
<1>. USE DEF InstancesOf
<1>1. CASE \E o \in 1 .. y.objs : k = <<"flag", <<o>>>> /\ "flag" \in y.choices
  BY <1>1 DEF Cnt
<1>2. CASE \E o \in 1 .. y.objs : k = <<"num", <<o>>>> /\ "num" \in y.choices
  BY <1>2 DEF Cnt
<1>3. CASE \E q \in {p \in (1 .. y.objs) \X (1 .. y.objs) : p[1] < p[2]} : k = <<"rel", q>> /\ "rel" \in y.choices
  BY <1>3 DEF Cnt
<1>. QED
  BY <1>1, <1>2, <1>3 DEF Ks

LEMMA InstanceKey ==
    ASSUME NEW y \in Systems, NEW k \in Ks(y), NEW values
    PROVE  Key(k[1], k[2]) = k /\ Oriented(k[1], k[2], values) = values
<1>1. k = <<k[1], k[2]>> /\ (k[1] \in Symmetric => k[1] = "rel")
  BY InstanceShape, SystemsAssumption, FilterGenAssumption
<1>2. k[1] = "rel" => ~(k[2][1] > k[2][2])
  <2>. SUFFICES ASSUME k[1] = "rel" PROVE ~(k[2][1] > k[2][2])
    OBVIOUS
  <2>1. PICK o, p \in 1 .. y.objs : k[2] = <<o, p>> /\ o < p
    BY InstanceShape
  <2>. QED
    BY <2>1, SystemsAssumption
<1>3. Key(k[1], k[2]) = k
  BY <1>1, <1>2 DEF Key
<1>. QED
  BY <1>1, <1>3 DEF Oriented

LEMMA ObjectInstances ==
    ASSUME NEW y \in Systems, NEW o \in 1 .. y.objs
    PROVE  /\ "flag" \in y.choices => <<"flag", <<o>>>> \in Ks(y)
           /\ "num" \in y.choices => <<"num", <<o>>>> \in Ks(y)
BY DEF Ks, InstancesOf

LEMMA FullTypes ==
    /\ Full("flag") = EnumValues /\ Full("rel") = EnumValues /\ Full("num") = Range(NumUniverse)
    /\ \A c : Full(c) \subseteq EnumValues \cup Range(NumUniverse)
BY SystemsAssumption DEF Full

LEMMA FiniteKs ==
    ASSUME NEW y \in Systems
    PROVE  IsFiniteSet(Ks(y))
<1>. DEFINE O == 1 .. y.objs
            F == {<<"flag", <<o>>>> : o \in O}
            N == {<<"num", <<o>>>> : o \in O}
            R == {<<"rel", q>> : q \in O \X O}
<1>0. 1 \in Int /\ y.objs \in Int
  BY SystemsAssumption
<1>1. IsFiniteSet(O) /\ IsFiniteSet(O \X O)
  <2>1. IsFiniteSet(O)
    BY <1>0, FS_Interval
  <2>. HIDE DEF O
  <2>. QED
    BY <2>1, FS_Product
<1>2. IsFiniteSet(F)
  <2>. DEFINE f == [o \in O |-> <<"flag", <<o>>>>]
  <2>1. \A k \in F : \E o \in O : k = f[o]
    OBVIOUS
  <2>. HIDE DEF f, F
  <2>. QED
    BY <1>1, <2>1, FiniteImage
<1>3. IsFiniteSet(N)
  <2>. DEFINE f == [o \in O |-> <<"num", <<o>>>>]
  <2>1. \A k \in N : \E o \in O : k = f[o]
    OBVIOUS
  <2>. HIDE DEF f, N
  <2>. QED
    BY <1>1, <2>1, FiniteImage
<1>4. IsFiniteSet(R)
  <2>. DEFINE P == O \X O
              f == [q \in P |-> <<"rel", q>>]
  <2>0. R = {<<"rel", q>> : q \in P} /\ IsFiniteSet(P)
    BY <1>1
  <2>. HIDE DEF R, P
  <2>1. \A k \in R : \E q \in P : k = f[q]
    BY <2>0
  <2>. HIDE DEF f
  <2>. QED
    BY <2>0, <2>1, FiniteImage
<1>5. Ks(y) \subseteq F \cup (N \cup R)
  BY DEF Ks, InstancesOf
<1>6. IsFiniteSet(F \cup (N \cup R))
  BY <1>2, <1>3, <1>4, FS_Union
<1>. QED
  BY <1>5, <1>6, FS_Subset

Meet(s, k, values) == s.dom[k] \cap values
Updated(f, k, d) == [f EXCEPT ![k] = d]
Recorded(s, k, d) == [j \in DOMAIN s.diff \cup {k} |->
                        IF j = k THEN [old |-> OldDomain(s, k), new |-> d] ELSE s.diff[j]]

LEMMA SetDomainIs ==
    ASSUME NEW y \in Systems, NEW s \in SpaceStates(y), NEW k \in Keys(y), NEW d \in Doms, s.dom[k] # d,
           NEW t, t = SetDomain(s, k, d)
    PROVE  /\ t \in SpaceStates(y) /\ t.dom = Updated(s.dom, k, d) /\ t.ok = s.ok
           /\ t.diff = Recorded(s, k, d)
<1>. DEFINE dom == Updated(s.dom, k, d)
            df == Recorded(s, k, d)
            u == [dom |-> dom, diff |-> df, objs |-> s.objs, ok |-> s.ok]
<1>1. s = [dom |-> s.dom, diff |-> s.diff, objs |-> s.objs, ok |-> s.ok]
  BY DEF SpaceStates
<1>2. t = u
  BY <1>1 DEF SetDomain, Recorded, Updated
<1>3. PICK D \in SUBSET Keys(y) : s.diff \in [D -> [old : Doms, new : Doms]]
  BY DEF SpaceStates, Diffs
<1>4. s.dom \in [Keys(y) -> Doms] /\ s.objs \in {y.objs} /\ s.ok \in BOOLEAN
  BY DEF SpaceStates
<1>5. OldDomain(s, k) \in Doms
  BY <1>3, <1>4 DEF OldDomain
<1>6. df \in [D \cup {k} -> [old : Doms, new : Doms]] /\ D \cup {k} \in SUBSET Keys(y)
  BY <1>3, <1>5 DEF Recorded
<1>7. df \in Diffs(y)
  <2>. HIDE DEF df
  <2>. QED
    BY <1>6 DEF Diffs
<1>8. dom \in [Keys(y) -> Doms]
  BY <1>4 DEF Updated
<1>9. u \in SpaceStates(y)
  <2>. HIDE DEF df, dom
  <2>. QED
    BY <1>4, <1>7, <1>8 DEF SpaceStates
<1>. QED
  BY <1>2, <1>9

LEMMA DomainsAreDoms ==
    ASSUME NEW c
    PROVE  \A d \in SUBSET Full(c) : d \in Doms
BY FullTypes DEF Doms

LEMMA StateIs ==
    ASSUME NEW y, NEW s \in SpaceStates(y)
    PROVE  /\ s = [dom |-> s.dom, diff |-> s.diff, objs |-> s.objs, ok |-> s.ok]
           /\ s.dom \in [Keys(y) -> Doms] /\ s.diff \in Diffs(y) /\ s.objs = y.objs /\ s.ok \in BOOLEAN
BY DEF SpaceStates

LEMMA WithOk ==
    ASSUME NEW y, NEW s \in SpaceStates(y), NEW b \in BOOLEAN, NEW t, t = [s EXCEPT !.ok = b]
    PROVE  t \in SpaceStates(y) /\ t.dom = s.dom /\ t.diff = s.diff /\ t.ok = b
BY DEF SpaceStates

LEMMA RestrictIs ==
    ASSUME NEW y \in Systems, NEW s, Shaped(y, s), NEW k \in Ks(y), NEW values, s.ok,
           NEW d, d = Meet(s, k, values), NEW t, t = RestrictChoice(s, k[1], k[2], values)
    PROVE  /\ t \in SpaceStates(y) /\ (t.ok <=> t.dom[k] # {})
           /\ t.dom = Updated(s.dom, k, d)
           /\ \/ t.diff = s.diff /\ t.dom = s.dom
              \/ t.diff = Recorded(s, k, d)
<1>. DEFINE b == d # {}
<1>1. s \in SpaceStates(y) /\ k \in Keys(y) /\ d \in Doms /\ s.dom \in [Keys(y) -> Doms]
  <2>1. s.dom[k] \in SUBSET Full(k[1]) /\ s \in SpaceStates(y) /\ k \in Keys(y)
    BY DEF Shaped, Keys
  <2>2. d \in SUBSET Full(k[1])
    BY <2>1 DEF Meet
  <2>. QED
    BY <2>1, <2>2, DomainsAreDoms, StateIs
<1>2. t = [SetDomain(s, k, d) EXCEPT !.ok = b]
  BY InstanceKey DEF RestrictChoice, Meet
<1>b. b \in BOOLEAN
  OBVIOUS
<1>3. CASE s.dom[k] = d
  <2>1. t = [s EXCEPT !.ok = b]
    BY <1>2, <1>3 DEF SetDomain
  <2>2. s.dom = Updated(s.dom, k, d)
    BY <1>1, <1>3 DEF Updated
  <2>3. t \in SpaceStates(y) /\ t.dom = s.dom /\ t.diff = s.diff /\ t.ok = b
    <3>. HIDE DEF b
    <3>. QED
      BY <1>1, <1>b, <2>1, WithOk
  <2>. QED
    BY <1>3, <2>2, <2>3
<1>4. CASE s.dom[k] # d
  <2>. SUFFICES ASSUME NEW u, u = SetDomain(s, k, d)
                PROVE  /\ t \in SpaceStates(y) /\ (t.ok <=> t.dom[k] # {})
                       /\ t.dom = Updated(s.dom, k, d) /\ t.diff = Recorded(s, k, d)
    OBVIOUS
  <2>1. /\ u \in SpaceStates(y) /\ u.dom = Updated(s.dom, k, d) /\ u.ok = s.ok
        /\ u.diff = Recorded(s, k, d)
    BY <1>1, <1>4, SetDomainIs, ZenonT(60)
  <2>2. t = [u EXCEPT !.ok = b]
    BY <1>2
  <2>3. t \in SpaceStates(y) /\ t.dom = u.dom /\ t.diff = u.diff /\ t.ok = b
    <3>. HIDE DEF b
    <3>. QED
      BY <1>b, <2>1, <2>2, WithOk
  <2>4. t.dom[k] = d
    BY <1>1, <2>1, <2>3 DEF Updated
  <2>. QED
    BY <2>1, <2>3, <2>4
<1>. QED
  BY <1>3, <1>4

LEMMA RestrictNarrows ==
    ASSUME NEW y \in Systems, NEW s, Shaped(y, s), NEW k \in Ks(y), NEW values,
           NEW t, t = RestrictChoice(s, k[1], k[2], values)
    PROVE  Narrowed(y, s, t)
<1>0. s \in SpaceStates(y) /\ s.dom \in [Keys(y) -> Doms] /\ Ks(y) \subseteq Keys(y)
  BY StateIs DEF Shaped, Keys
<1>1. CASE ~s.ok
  <2>1. t = s
    BY <1>1 DEF RestrictChoice
  <2>. QED
    BY <2>1 DEF Narrowed
<1>2. CASE s.ok
  <2>. SUFFICES ASSUME NEW d, d = Meet(s, k, values) PROVE Narrowed(y, s, t)
    OBVIOUS
  <2>d. d = s.dom[k] \cap values
    BY DEF Meet
  <2>1. /\ t \in SpaceStates(y) /\ (t.ok <=> t.dom[k] # {}) /\ t.dom = Updated(s.dom, k, d)
        /\ \/ t.diff = s.diff /\ t.dom = s.dom
           \/ t.diff = Recorded(s, k, d)
    BY <1>2, RestrictIs
  <2>2. t.dom[k] = d /\ \A j \in Keys(y) \ {k} : t.dom[j] = s.dom[j]
    BY <1>0, <2>1 DEF Updated
  <2>3. "cnt" \in y.choices => t.dom[Cnt] = s.dom[Cnt]
    <3>1. "cnt" \in y.choices => Cnt \in Keys(y) \ {k}
      BY InstanceShape DEF Keys
    <3>. QED
      BY <2>2, <3>1
  <2>4. \A j \in Ks(y) : /\ s.dom[j] \subseteq Full(j[1]) /\ s.dom[j] # {}
                         /\ j \in DOMAIN s.diff => /\ s.diff[j].new = s.dom[j] /\ s.dom[j] \subseteq s.diff[j].old
                                                   /\ s.diff[j].old \subseteq Full(j[1])
    BY <1>2 DEF Shaped
  <2>5. \A j \in Ks(y) : /\ t.dom[j] \subseteq s.dom[j] /\ t.dom[j] \subseteq Full(j[1])
                         /\ t.ok => t.dom[j] # {}
    BY <1>0, <2>1, <2>2, <2>4, <2>d
  <2>6. ASSUME NEW j \in Ks(y) PROVE OldDomain(t, j) = OldDomain(s, j)
    <3>1. CASE t.diff = s.diff /\ t.dom = s.dom
      BY <3>1 DEF OldDomain
    <3>2. CASE t.diff = Recorded(s, k, d)
      <4>1. CASE j = k
        BY <3>2, <4>1 DEF OldDomain, Recorded
      <4>2. CASE j # k
        BY <1>0, <2>2, <3>2, <4>2 DEF OldDomain, Recorded
      <4>. QED
        BY <4>1, <4>2
    <3>. QED
      BY <2>1, <3>1, <3>2
  <2>7. ASSUME NEW j \in Ks(y) \cap DOMAIN t.diff
        PROVE  t.diff[j].new = t.dom[j] /\ t.dom[j] \subseteq t.diff[j].old /\ t.diff[j].old \subseteq Full(j[1])
    <3>1. CASE t.diff = s.diff /\ t.dom = s.dom
      BY <3>1, <2>4
    <3>2. CASE t.diff = Recorded(s, k, d)
      <4>1. CASE j = k
        <5>1. t.diff[j].new = d /\ t.diff[j].old = OldDomain(s, k)
          BY <3>2, <4>1 DEF Recorded
        <5>2. s.dom[k] \subseteq OldDomain(s, k) /\ OldDomain(s, k) \subseteq Full(k[1])
          BY <2>4 DEF OldDomain
        <5>. QED
          BY <2>2, <2>d, <4>1, <5>1, <5>2
      <4>2. CASE j # k
        <5>1. j \in DOMAIN s.diff /\ t.diff[j] = s.diff[j] /\ t.dom[j] = s.dom[j]
          BY <1>0, <2>2, <3>2, <4>2 DEF Recorded
        <5>. QED
          BY <5>1, <2>4
      <4>. QED
        BY <4>1, <4>2
    <3>. QED
      BY <2>1, <3>1, <3>2
  <2>8. Shaped(y, t)
    BY <2>1, <2>5, <2>7 DEF Shaped
  <2>9. DOMAIN s.diff \subseteq DOMAIN t.diff
    BY <2>1 DEF Recorded
  <2>. QED
    BY <1>2, <2>3, <2>5, <2>6, <2>8, <2>9 DEF Narrowed
<1>. QED
  BY <1>1, <1>2

LEMMA NarrowedTwice ==
    ASSUME NEW y, NEW s, NEW t, NEW u, Narrowed(y, s, t), Narrowed(y, t, u)
    PROVE  Narrowed(y, s, u)
BY DEF Narrowed

-----------------------------------------------------------------------------
(* Counters that add.  The count of a state is the sum of what each object   *)
(* contributes under the domains that have been propagated.                  *)

Ranges == [min : Int, max : Int]
Plus(a, b) == Diff(a.min + b.min, a.max + b.max)

\* g holds the sums over the sets of objects, taken in any order.
Sums(n, base, c, g) ==
    /\ g \in [SUBSET (1 .. n) -> Ranges] /\ g[{}] = base
    /\ \A T \in SUBSET (1 .. n) : \A x \in T : g[T] = Plus(g[T \ {x}], c[x])
Tally(n, base, c, r) == \E g : Sums(n, base, c, g) /\ r = g[1 .. n]

LEMMA PlusIs ==
    ASSUME NEW a \in Ranges, NEW b \in Ranges
    PROVE  Plus(a, b) \in Ranges /\ Plus(a, b).min = a.min + b.min /\ Plus(a, b).max = a.max + b.max
BY DEF Plus, Diff, Ranges

LEMMA SameRange ==
    ASSUME NEW a \in Ranges, NEW b \in Ranges, a.min = b.min, a.max = b.max
    PROVE  a = b
BY DEF Ranges

LEMMA PlusCommutes ==
    ASSUME NEW a \in Ranges, NEW b \in Ranges, NEW c \in Ranges
    PROVE  Plus(Plus(a, b), c) = Plus(Plus(a, c), b)
BY DEF Plus, Diff, Ranges

LEMMA TallyUnique ==
    ASSUME NEW n \in Nat, NEW base, NEW c, NEW r, NEW q, Tally(n, base, c, r), Tally(n, base, c, q)
    PROVE  r = q
<1>1. PICK g : Sums(n, base, c, g) /\ r = g[1 .. n]
  BY DEF Tally
<1>2. PICK h : Sums(n, base, c, h) /\ q = h[1 .. n]
  BY DEF Tally
<1>. DEFINE S == 1 .. n
            P == {T \in SUBSET S : g[T] = h[T]}
<1>3. IsFiniteSet(S)
  BY FS_Interval
<1>4. ASSUME NEW T \in SUBSET S, \A x \in T : T \ {x} \in P PROVE T \in P
  <2>1. CASE T = {}
    BY <1>1, <1>2, <2>1 DEF Sums
  <2>2. CASE T # {}
    <3>1. PICK x : x \in T
      BY <2>2
    <3>2. g[T \ {x}] = h[T \ {x}]
      BY <1>4, <3>1
    <3>3. g[T] = Plus(g[T \ {x}], c[x]) /\ h[T] = Plus(h[T \ {x}], c[x])
      BY <1>1, <1>2, <3>1 DEF Sums
    <3>. QED
      BY <3>2, <3>3
  <2>. QED
    BY <2>1, <2>2
<1>5. \A T \in SUBSET S : T \in P
  <2>. HIDE DEF P
  <2>. QED
    BY <1>3, <1>4, OverSubsets
<1>. QED
  BY <1>1, <1>2, <1>5

LEMMA TallyChange ==
    ASSUME NEW n \in Nat, NEW base, NEW c \in [1 .. n -> Ranges], NEW d \in [1 .. n -> Ranges],
           NEW o \in 1 .. n, \A x \in (1 .. n) \ {o} : d[x] = c[x],
           NEW r, Tally(n, base, c, r), NEW q \in Ranges,
           q.min = r.min - c[o].min + d[o].min, q.max = r.max - c[o].max + d[o].max
    PROVE  Tally(n, base, d, q)
<1>. DEFINE S == 1 .. n
<1>1. PICK g : Sums(n, base, c, g) /\ r = g[S]
  BY DEF Tally
<1>. DEFINE h == [T \in SUBSET S |-> IF o \in T THEN Plus(g[T \ {o}], d[o]) ELSE g[T]]
<1>2. /\ g \in [SUBSET S -> Ranges] /\ g[{}] = base
      /\ \A T \in SUBSET S : \A x \in T : g[T] = Plus(g[T \ {x}], c[x])
  BY <1>1 DEF Sums
<1>3. h \in [SUBSET S -> Ranges]
  <2>. SUFFICES ASSUME NEW T \in SUBSET S PROVE h[T] \in Ranges
    OBVIOUS
  <2>1. g[T \ {o}] \in Ranges /\ g[T] \in Ranges /\ d[o] \in Ranges
    BY <1>2
  <2>2. Plus(g[T \ {o}], d[o]) \in Ranges
    BY <2>1, PlusIs
  <2>. QED
    BY <2>1, <2>2
<1>4. h[{}] = base
  BY <1>2
<1>5. ASSUME NEW T \in SUBSET S, NEW x \in T PROVE h[T] = Plus(h[T \ {x}], d[x])
  <2>1. CASE o \notin T
    <3>1. h[T] = g[T] /\ h[T \ {x}] = g[T \ {x}] /\ d[x] = c[x]
      BY <2>1
    <3>. QED
      BY <1>2, <3>1
  <2>2. CASE x = o
    BY <2>2
  <2>3. CASE o \in T /\ x # o
    <3>. DEFINE U == (T \ {o}) \ {x}
    <3>1. U = (T \ {x}) \ {o} /\ U \in SUBSET S /\ x \in T \ {o} /\ o \in T \ {x} /\ d[x] = c[x]
      BY <2>3
    <3>2. h[T] = Plus(g[T \ {o}], d[o]) /\ h[T \ {x}] = Plus(g[U], d[o])
      BY <2>3, <3>1
    <3>3. g[T \ {o}] = Plus(g[U], d[x])
      BY <1>2, <3>1
    <3>4. g[U] \in Ranges /\ d[x] \in Ranges /\ d[o] \in Ranges
      BY <1>2, <3>1
    <3>. HIDE DEF U, h
    <3>. QED
      BY <3>2, <3>3, <3>4, PlusCommutes
  <2>. QED
    BY <2>1, <2>2, <2>3
<1>6. Sums(n, base, d, h)
  <2>. HIDE DEF h
  <2>. QED
    BY <1>3, <1>4, <1>5 DEF Sums
<1>7. q = h[S]
  <2>. DEFINE v == g[S \ {o}]
  <2>1. v \in Ranges /\ c[o] \in Ranges /\ d[o] \in Ranges
    BY <1>2
  <2>2. r = Plus(v, c[o]) /\ h[S] = Plus(v, d[o])
    BY <1>1, <1>2
  <2>. HIDE DEF v, h
  <2>3. /\ v.min \in Int /\ v.max \in Int /\ c[o].min \in Int /\ c[o].max \in Int
        /\ d[o].min \in Int /\ d[o].max \in Int
    BY <2>1 DEF Ranges
  <2>4. r.min = v.min + c[o].min /\ r.max = v.max + c[o].max /\ h[S] \in Ranges
        /\ h[S].min = v.min + d[o].min /\ h[S].max = v.max + d[o].max
    BY <2>1, <2>2, PlusIs
  <2>5. q.min = h[S].min /\ q.max = h[S].max
    BY <2>3, <2>4
  <2>. QED
    BY <2>4, <2>5, SameRange
<1>. HIDE DEF h
<1>. QED
  BY <1>6, <1>7 DEF Tally

Half(y) == y.cnt.vis = "NoMax"
AmountOf(y, nums) == IF y.cnt.chosen THEN Diff(MinValue(NumSetOf(nums)), MaxValue(NumSetOf(nums)))
                     ELSE Diff(y.cnt.amount, y.cnt.amount)
Share(y, flags, amount) ==
    Diff(IF Is(flags, y.cnt.incr) = "T" THEN amount.min ELSE 0,
         IF ~Half(y) /\ Is(flags, y.cnt.incr) # "F" THEN amount.max ELSE 0)
FlagKey(o) == <<"flag", <<o>>>>
NumKey(o) == <<"num", <<o>>>>
NumsOf(y, s, o) == IF y.cnt.chosen THEN OldDomain(s, NumKey(o)) ELSE {}
Shares(y, s) == [o \in 1 .. y.objs |-> Share(y, OldDomain(s, FlagKey(o)), AmountOf(y, NumsOf(y, s, o)))]
CountBase(y) == Diff(y.cnt.base, IF Half(y) THEN U32Max ELSE y.cnt.base)

Adds(y) == "cnt" \in y.choices /\ y.cnt.kind = "Add"

LEMMA AmountType ==
    ASSUME NEW y \in Systems, "cnt" \in y.choices, NEW nums
    PROVE  AmountOf(y, nums) \in Ranges
<1>1. CASE ~y.cnt.chosen
  BY <1>1, SystemsAssumption DEF AmountOf, Ranges, Diff
<1>2. CASE y.cnt.chosen
  <2>. DEFINE bits == {k \in DOMAIN NumUniverse : NumUniverse[k] \in nums}
              d == NumSetOf(nums)
  <2>0. /\ Universe(NumUniverse) /\ U32Max \in Nat /\ d.kind = "set" /\ d.uni = NumUniverse /\ d.bits = bits
        /\ bits \in SUBSET (1 .. Len(NumUniverse)) /\ d = NumericSet(NumUniverse, bits)
    BY UniverseAssumption, Constants DEF Universe, Ordered, NumSetOf, NumericSet
  <2>. HIDE DEF bits, d
  <2>1. CASE bits = {}
    <3>1. MinValue(d) = 0 /\ MaxValue(d) = U32Max
      <4>1. MinValue(d) = 0
        BY <2>0, <2>1, Zenon DEF MinValue
      <4>2. MaxValue(d) = U32Max
        BY <2>0, <2>1, Zenon DEF MaxValue
      <4>. QED
        BY <4>1, <4>2
    <3>. QED
      BY <1>2, <2>0, <3>1 DEF AmountOf, Ranges, Diff, d
  <2>2. CASE bits # {}
    <3>1. MinValue(d) = NumUniverse[Min(bits)] /\ MaxValue(d) = NumUniverse[Max(bits)]
      BY <2>0, <2>2, SetDef, Zenon
    <3>2. Min(bits) \in bits /\ Max(bits) \in bits
      BY <2>0, <2>2, LeastNatural, GreatestNatural DEF Universe
    <3>3. \A k \in bits : NumUniverse[k] \in Nat
      <4>1. NumUniverse \in Seq(U32) /\ U32 \subseteq Nat
        BY <2>0, Constants DEF Universe
      <4>2. \A k \in 1 .. Len(NumUniverse) : NumUniverse[k] \in U32
        BY <4>1
      <4>. QED
        BY <2>0, <4>1, <4>2
    <3>4. MinValue(d) \in Int /\ MaxValue(d) \in Int
      BY <3>1, <3>2, <3>3
    <3>. QED
      BY <1>2, <3>4 DEF AmountOf, Ranges, Diff, d
  <2>. QED
    BY <2>1, <2>2
<1>. QED
  BY <1>1, <1>2, SystemsAssumption

LEMMA ShareType ==
    ASSUME NEW y, NEW flags, NEW amount \in Ranges
    PROVE  Share(y, flags, amount) \in Ranges
BY DEF Share, Ranges, Diff

LEMMA SharesType ==
    ASSUME NEW y \in Systems, "cnt" \in y.choices, NEW s
    PROVE  Shares(y, s) \in [1 .. y.objs -> Ranges]
BY AmountType, ShareType DEF Shares

LEMMA CountBaseType ==
    ASSUME NEW y \in Systems, "cnt" \in y.choices
    PROVE  CountBase(y) \in Ranges
BY SystemsAssumption, Constants DEF CountBase, Ranges, Diff

\* compute_counter returns the sum over the objects.
CountStep(s, o, r) ==
    Diff(IF Is(OldDomain(s, FlagKey(o)), sys.cnt.incr) = "T" THEN r.min + OldAmount(s, o).min ELSE r.min,
         IF ~IsHalf /\ Is(OldDomain(s, FlagKey(o)), sys.cnt.incr) # "F"
         THEN r.max + OldAmount(s, o).max ELSE r.max)
AnyOf(T) == CHOOSE x \in T : TRUE
CountIter(s, S, base, g) ==
    g = [T \in SUBSET S |-> IF T = {} THEN base ELSE CountStep(s, AnyOf(T), g[T \ {AnyOf(T)}])]
CountFold(s, S, base) == CHOOSE g : CountIter(s, S, base, g)

LEMMA ComputeUnfold ==
    ASSUME NEW s, sys.cnt.kind = "Add"
    PROVE  ComputeCounter(s) = CountFold(s, 1 .. s.objs, CountBase(sys))[1 .. s.objs]
BY DEF ComputeCounter, FoldSet, MapThenFoldSet, CountBase, Half, IsHalf, FlagKey, Op,
       CountFold, CountIter, CountStep, AnyOf

LEMMA ComputeIs ==
    ASSUME sys \in Systems, Adds(sys), NEW s, s.objs = sys.objs
    PROVE  Tally(sys.objs, CountBase(sys), Shares(sys, s), ComputeCounter(s))
<1>. SUFFICES ASSUME NEW n, n = sys.objs, NEW S, S = 1 .. n, NEW base, base = CountBase(sys),
                     NEW c, c = Shares(sys, s)
              PROVE  Tally(n, base, c, ComputeCounter(s))
  OBVIOUS
<1>0. /\ n \in Nat /\ base \in Ranges /\ c \in [S -> Ranges] /\ IsFiniteSet(S) /\ S = 1 .. s.objs
      /\ sys.cnt.kind = "Add"
  BY SystemsAssumption, CountBaseType, SharesType, FS_Interval DEF Adds
<1>. DEFINE F == CountFold(s, S, base)
            op == [p \in S \X Ranges |-> Plus(p[2], c[p[1]])]
            ch == [T \in SUBSET S |-> AnyOf(T)]
<1>1. ComputeCounter(s) = F[S]
  BY <1>0, ComputeUnfold
<1>2. \A o \in S, r \in Ranges : CountStep(s, o, r) = Plus(r, c[o]) /\ Plus(r, c[o]) \in Ranges
  <2>. SUFFICES ASSUME NEW o \in S, NEW r \in Ranges PROVE CountStep(s, o, r) = Plus(r, c[o]) /\ Plus(r, c[o]) \in Ranges
    OBVIOUS
  <2>1. c[o] = Share(sys, OldDomain(s, FlagKey(o)), AmountOf(sys, NumsOf(sys, s, o))) /\ c[o] \in Ranges
    BY <1>0 DEF Shares
  <2>2. OldAmount(s, o) = AmountOf(sys, NumsOf(sys, s, o))
    BY DEF OldAmount, AmountIn, AmountOf, NumsOf, NumKey
  <2>3. AmountOf(sys, NumsOf(sys, s, o)) \in Ranges
    BY AmountType DEF Adds
  <2>4. r.min \in Int /\ r.max \in Int /\ r.min + 0 = r.min /\ r.max + 0 = r.max
    BY DEF Ranges
  <2>5. CountStep(s, o, r) = Plus(r, c[o])
    BY <2>1, <2>2, <2>3, <2>4 DEF CountStep, Share, Plus, Diff, Half, IsHalf, Ranges
  <2>. QED
    BY <2>1, <2>5, PlusIs
<1>3. op \in [S \X Ranges -> Ranges]
  BY <1>2
<1>4. \A o \in S, r \in Ranges : op[o, r] = Plus(r, c[o])
  BY Zenon
<1>5. Chooses(S, ch) /\ \A T \in SUBSET S : ch[T] = AnyOf(T)
  BY DEF Chooses, AnyOf
<1>6. Commute(S, Ranges, op)
  <2>. SUFFICES ASSUME NEW x \in S, NEW y \in S, NEW v \in Ranges PROVE op[x, op[y, v]] = op[y, op[x, v]]
    BY Zenon DEF Commute
  <2>1. op[y, v] = Plus(v, c[y]) /\ op[x, v] = Plus(v, c[x]) /\ Plus(v, c[y]) \in Ranges /\ Plus(v, c[x]) \in Ranges
    BY <1>2, <1>4, Zenon
  <2>2. op[x, op[y, v]] = Plus(Plus(v, c[y]), c[x]) /\ op[y, op[x, v]] = Plus(Plus(v, c[x]), c[y])
    BY <1>4, <2>1, Zenon
  <2>3. c[x] \in Ranges /\ c[y] \in Ranges
    BY <1>0
  <2>. QED
    BY <2>2, <2>3, PlusCommutes, ZenonT(60)
<1>. HIDE DEF op, ch
<1>7. PICK g \in [SUBSET S -> Ranges] : FoldOf(S, base, op, ch, g)
  BY <1>0, <1>3, <1>5, FoldExists, Zenon
<1>8. CountIter(s, S, base, g)
  <2>. SUFFICES ASSUME NEW T \in SUBSET S, T # {} PROVE g[T] = CountStep(s, AnyOf(T), g[T \ {AnyOf(T)}])
    BY <1>7, Zenon DEF FoldOf, CountIter
  <2>1. AnyOf(T) \in S /\ ch[T] = AnyOf(T) /\ g[T \ {AnyOf(T)}] \in Ranges
    BY <1>5, <1>7 DEF Chooses
  <2>2. g[T] = op[ch[T], g[T \ {ch[T]}]]
    BY <1>7, Zenon DEF FoldOf
  <2>3. op[AnyOf(T), g[T \ {AnyOf(T)}]] = CountStep(s, AnyOf(T), g[T \ {AnyOf(T)}])
    <3>. SUFFICES ASSUME NEW x \in S, NEW v \in Ranges PROVE op[x, v] = CountStep(s, x, v)
      BY <2>1, Zenon
    <3>1. op[x, v] = Plus(v, c[x])
      BY <1>4, Zenon
    <3>2. CountStep(s, x, v) = Plus(v, c[x])
      BY <1>2
    <3>. QED
      BY <3>1, <3>2, Zenon
  <2>. QED
    BY <2>1, <2>2, <2>3, Zenon
<1>9. CountIter(s, S, base, F)
  BY <1>8 DEF CountFold
<1>. HIDE DEF F
<1>. DEFINE P == {T \in SUBSET S : F[T] = g[T]}
<1>10. ASSUME NEW T \in SUBSET S, \A x \in T : T \ {x} \in P PROVE T \in P
  <2>1. CASE T = {}
    BY <1>8, <1>9, <2>1 DEF CountIter
  <2>2. CASE T # {}
    <3>1. AnyOf(T) \in T
      BY <2>2 DEF AnyOf
    <3>2. F[T \ {AnyOf(T)}] = g[T \ {AnyOf(T)}]
      BY <1>10, <3>1
    <3>3. F[T] = CountStep(s, AnyOf(T), F[T \ {AnyOf(T)}]) /\ g[T] = CountStep(s, AnyOf(T), g[T \ {AnyOf(T)}])
      BY <1>8, <1>9, <2>2 DEF CountIter
    <3>. QED
      BY <3>2, <3>3
  <2>. QED
    BY <2>1, <2>2
<1>11. F[S] = g[S]
  <2>1. \A T \in SUBSET S : T \in P
    <3>. HIDE DEF P
    <3>. QED
      BY <1>0, <1>10, OverSubsets
  <2>. QED
    BY <2>1
<1>12. Splits(S, op, g)
  <2>1. FoldOf(S, base, op, ch, g) /\ IsFiniteSet(S) /\ base \in Ranges /\ Chooses(S, ch)
    BY <1>0, <1>5, <1>7
  <2>. QED
    BY <1>3, <1>6, <2>1, FoldSplit
<1>13. \A T \in SUBSET S : \A x \in T : g[T] = Plus(g[T \ {x}], c[x])
  BY <1>4, <1>7, <1>12, ZenonT(60) DEF Splits
<1>14. g[{}] = base
  BY <1>7, Zenon DEF FoldOf
<1>15. Sums(n, base, c, g)
  BY <1>7, <1>13, <1>14 DEF Sums
<1>. QED
  BY <1>1, <1>11, <1>15 DEF Tally

LEMMA SharesSame ==
    ASSUME NEW y \in Systems, "cnt" \in y.choices, NEW s, NEW t, \A k \in Ks(y) : OldDomain(t, k) = OldDomain(s, k)
    PROVE  Shares(y, t) = Shares(y, s)
<1>. SUFFICES ASSUME NEW o \in 1 .. y.objs
              PROVE  Share(y, OldDomain(t, FlagKey(o)), AmountOf(y, NumsOf(y, t, o)))
                     = Share(y, OldDomain(s, FlagKey(o)), AmountOf(y, NumsOf(y, s, o)))
  BY DEF Shares
<1>1. FlagKey(o) \in Ks(y) /\ (y.cnt.chosen => NumKey(o) \in Ks(y))
  BY SystemsAssumption, ObjectInstances DEF FlagKey, NumKey
<1>2. OldDomain(t, FlagKey(o)) = OldDomain(s, FlagKey(o)) /\ NumsOf(y, t, o) = NumsOf(y, s, o)
  BY <1>1 DEF NumsOf
<1>. QED
  BY <1>2

\* The counter of a state is the sum over its objects.
Tallied(y, s) == Tally(y.objs, CountBase(y), Shares(y, s), s.dom[Cnt])
Exact(y, s) == s.ok => Tallied(y, s)

LEMMA NarrowedExact ==
    ASSUME NEW y \in Systems, "cnt" \in y.choices, NEW s, NEW t, Exact(y, s), Narrowed(y, s, t)
    PROVE  Exact(y, t)
<1>1. Shares(y, t) = Shares(y, s)
  BY SharesSame DEF Narrowed
<1>. QED
  BY <1>1 DEF Exact, Tallied, Narrowed

\* t is s with another counter, a failure if its range is empty.
Recounted(y, s, t) ==
    /\ Shaped(y, t) /\ (t.ok => s.ok)
    /\ DOMAIN s.diff \subseteq DOMAIN t.diff /\ (t.dom[Cnt] = s.dom[Cnt] \/ Cnt \in DOMAIN t.diff)
    /\ s.ok => t.ok \/ (~Half(y) /\ ~(t.dom[Cnt].min <= t.dom[Cnt].max))
    /\ \A k \in Ks(y) : t.dom[k] = s.dom[k] /\ OldDomain(t, k) = OldDomain(s, k)

LEMMA RangesAreDoms == Ranges \subseteq Doms
BY DEF Ranges, Doms

LEMMA SetCounterIs ==
    ASSUME sys \in Systems, "cnt" \in sys.choices, NEW s, Shaped(sys, s), s.ok, NEW r \in Ranges,
           NEW t, t = SetCounter(s, r)
    PROVE  Recounted(sys, s, t) /\ t.dom[Cnt] = r
<1>. SUFFICES ASSUME NEW u, u = SetDomain(s, Cnt, r)
              PROVE  Recounted(sys, s, t) /\ t.dom[Cnt] = r
  OBVIOUS
<1>0. /\ s \in SpaceStates(sys) /\ Cnt \in Keys(sys) /\ r \in Doms /\ s.dom \in [Keys(sys) -> Doms]
      /\ Ks(sys) \subseteq Keys(sys) /\ \A k \in Ks(sys) : k # Cnt
  BY StateIs, RangesAreDoms, InstanceShape DEF Shaped, Keys
<1>1. ASSUME s.dom[Cnt] # r
      PROVE  u \in SpaceStates(sys) /\ u.dom = Updated(s.dom, Cnt, r) /\ u.ok = s.ok /\ u.diff = Recorded(s, Cnt, r)
  BY <1>0, <1>1, SetDomainIs
<1>. SUFFICES ASSUME NEW b \in BOOLEAN, b <=> Half(sys) \/ r.min <= r.max, t = [u EXCEPT !.ok = b]
              PROVE  Recounted(sys, s, t) /\ t.dom[Cnt] = r
  BY DEF SetCounter, IsHalf, Half
<1>2. CASE s.dom[Cnt] = r
  <2>1. u = s
    BY <1>2 DEF SetDomain
  <2>2. t \in SpaceStates(sys) /\ t.dom = s.dom /\ t.diff = s.diff /\ t.ok = b
    BY <1>0, <2>1, WithOk
  <2>. QED
    BY <1>2, <2>2 DEF Recounted, Shaped, OldDomain
<1>3. CASE s.dom[Cnt] # r
  <2>1. u \in SpaceStates(sys) /\ u.dom = Updated(s.dom, Cnt, r) /\ u.ok = s.ok /\ u.diff = Recorded(s, Cnt, r)
    BY <1>1, <1>3
  <2>2. t \in SpaceStates(sys) /\ t.dom = Updated(s.dom, Cnt, r) /\ t.diff = Recorded(s, Cnt, r) /\ t.ok = b
    BY <1>0, <2>1, WithOk
  <2>3. t.dom[Cnt] = r /\ \A k \in Ks(sys) : t.dom[k] = s.dom[k]
    BY <1>0, <2>2 DEF Updated
  <2>4. \A k \in Ks(sys) : (k \in DOMAIN t.diff <=> k \in DOMAIN s.diff) /\ (k \in DOMAIN s.diff => t.diff[k] = s.diff[k])
    BY <1>0, <2>2 DEF Recorded
  <2>5. \A k \in Ks(sys) : OldDomain(t, k) = OldDomain(s, k)
    BY <2>3, <2>4 DEF OldDomain
  <2>6. Shaped(sys, t)
    BY <2>2, <2>3, <2>4 DEF Shaped
  <2>7. DOMAIN s.diff \subseteq DOMAIN t.diff /\ Cnt \in DOMAIN t.diff
    BY <2>2 DEF Recorded
  <2>. QED
    BY <2>2, <2>3, <2>5, <2>6, <2>7 DEF Recounted
<1>. QED
  BY <1>2, <1>3

\* An entry leaves the diff: the domain it recorded has been propagated.
Popped(s, k) == [s EXCEPT !.diff = [j \in DOMAIN @ \ {k} |-> @[j]]]

LEMMA PoppedIs ==
    ASSUME NEW y \in Systems, NEW s, Shaped(y, s), NEW k \in DOMAIN s.diff, NEW t, t = Popped(s, k)
    PROVE  /\ Shaped(y, t) /\ t.dom = s.dom /\ t.ok = s.ok
           /\ \A j \in Ks(y) : OldDomain(t, j) = IF j = k THEN s.dom[j] ELSE OldDomain(s, j)
<1>. SUFFICES ASSUME NEW df, df = [j \in DOMAIN s.diff \ {k} |-> s.diff[j]]
              PROVE  /\ Shaped(y, t) /\ t.dom = s.dom /\ t.ok = s.ok
                     /\ \A j \in Ks(y) : OldDomain(t, j) = IF j = k THEN s.dom[j] ELSE OldDomain(s, j)
  OBVIOUS
<1>0. s \in SpaceStates(y)
  BY DEF Shaped
<1>1. PICK D \in SUBSET Keys(y) : s.diff \in [D -> [old : Doms, new : Doms]]
  BY <1>0 DEF SpaceStates, Diffs
<1>2. df \in [D \ {k} -> [old : Doms, new : Doms]] /\ D \ {k} \in SUBSET Keys(y)
  BY <1>1
<1>3. df \in Diffs(y)
  BY <1>2 DEF Diffs
<1>4. t = [dom |-> s.dom, diff |-> df, objs |-> s.objs, ok |-> s.ok]
  BY <1>0 DEF SpaceStates, Popped
<1>5. t \in SpaceStates(y) /\ t.dom = s.dom /\ t.ok = s.ok /\ t.diff = df
  BY <1>0, <1>3, <1>4 DEF SpaceStates
<1>6. \A j : (j \in DOMAIN t.diff <=> j \in DOMAIN s.diff /\ j # k) /\ (j \in DOMAIN t.diff => t.diff[j] = s.diff[j])
  BY <1>5
<1>7. Shaped(y, t)
  BY <1>5, <1>6 DEF Shaped
<1>8. \A j \in Ks(y) : OldDomain(t, j) = IF j = k THEN s.dom[j] ELSE OldDomain(s, j)
  BY <1>5, <1>6 DEF OldDomain
<1>. QED
  BY <1>5, <1>7, <1>8

LEMMA AddDef ==
    ASSUME sys.cnt.kind = "Add"
    PROVE  /\ Zero = 0 /\ (IsHalf <=> Half(sys))
           /\ \A a, b : Op(a, b) = a + b /\ Inv(a, b) = a - b
           /\ \A nums : AmountIn(nums) = AmountOf(sys, nums)
           /\ \A s, o : OldAmount(s, o) = AmountOf(sys, NumsOf(sys, s, o))
BY DEF Zero, IsHalf, Half, Op, Inv, AmountIn, AmountOf, OldAmount, NumsOf, NumKey

LEMMA IsDef ==
    ASSUME NEW d, NEW values
    PROVE  /\ Is(d, values) = "T" <=> d # {} /\ d \cap values # {} /\ d \subseteq values
           /\ Is(d, values) = "F" <=> d \cap values = {}
           /\ Is(d, values) \in {"T", "F", "M"}
BY DEF Is

\* The counter follows the change of one share.
LEMMA ShareChanges ==
    ASSUME sys \in Systems, Adds(sys), NEW s, Exact(sys, s), s.ok,
           NEW o \in 1 .. sys.objs, NEW u, NEW t, Recounted(sys, u, t),
           \A x \in (1 .. sys.objs) \ {o} : Shares(sys, u)[x] = Shares(sys, s)[x],
           NEW r, r = s.dom[Cnt], NEW a, a = Shares(sys, s)[o], NEW b, b = Shares(sys, u)[o],
           t.dom[Cnt] \in Ranges, t.dom[Cnt].min = r.min - a.min + b.min, t.dom[Cnt].max = r.max - a.max + b.max
    PROVE  Tallied(sys, t)
<1>. SUFFICES ASSUME NEW n, n = sys.objs, NEW c, c = Shares(sys, s), NEW d, d = Shares(sys, u),
                     NEW q, q = t.dom[Cnt], NEW base, base = CountBase(sys)
              PROVE  Tally(n, base, d, q)
  <2>1. Shares(sys, t) = Shares(sys, u)
    BY SharesSame DEF Recounted, Adds
  <2>. QED
    BY <2>1 DEF Tallied
<1>1. n \in Nat /\ c \in [1 .. n -> Ranges] /\ d \in [1 .. n -> Ranges]
  BY SharesType, SystemsAssumption DEF Adds
<1>2. Tally(n, base, c, r)
  BY DEF Exact, Tallied
<1>. QED
  BY <1>1, <1>2, TallyChange

LEMMA TallyType ==
    ASSUME NEW n \in Nat, NEW base, NEW c, NEW r, Tally(n, base, c, r)
    PROVE  r \in Ranges
BY DEF Tally, Sums

LEMMA Unchanged ==
    ASSUME NEW y, NEW s, Shaped(y, s)
    PROVE  Recounted(y, s, s)
BY DEF Recounted

\* incr_counter
LEMMA IncrExact ==
    ASSUME sys \in Systems, Adds(sys), NEW s, Shaped(sys, s), Exact(sys, s), s.ok,
           NEW o \in 1 .. sys.objs, NEW k, k = FlagKey(o), k \in DOMAIN s.diff,
           NEW u, u = Popped(s, k), NEW t, t = IncrCounter(u, o, s.diff[k].old, s.diff[k].new)
    PROVE  Recounted(sys, u, t) /\ Tallied(sys, t)
<1>. SUFFICES ASSUME NEW old, old = s.diff[k].old, NEW new, new = s.diff[k].new, NEW I, I = sys.cnt.incr,
                     NEW A, A = AmountOf(sys, NumsOf(sys, u, o)), NEW r, r = s.dom[Cnt],
                     NEW a, a = Shares(sys, s)[o], NEW b, b = Shares(sys, u)[o]
              PROVE  Recounted(sys, u, t) /\ Tallied(sys, t)
  OBVIOUS
<1>k. /\ k \in Ks(sys) /\ "cnt" \in sys.choices /\ sys.cnt.kind = "Add" /\ sys.objs \in Nat
      /\ \A x \in 1 .. sys.objs : /\ FlagKey(x) \in Ks(sys) /\ (x # o => FlagKey(x) # k)
                                  /\ sys.cnt.chosen => NumKey(x) \in Ks(sys) /\ NumKey(x) # k
  BY SystemsAssumption, ObjectInstances DEF FlagKey, NumKey, Adds
<1>u. /\ Shaped(sys, u) /\ u.dom = s.dom /\ u.ok
      /\ \A j \in Ks(sys) : OldDomain(u, j) = IF j = k THEN s.dom[j] ELSE OldDomain(s, j)
  BY PoppedIs
<1>1. new = s.dom[k] /\ new \subseteq old /\ new # {} /\ OldDomain(s, k) = old /\ OldDomain(u, k) = new
  BY <1>k, <1>u DEF Shaped, OldDomain
<1>2. \A x \in 1 .. sys.objs : NumsOf(sys, u, x) = NumsOf(sys, s, x)
  BY <1>k, <1>u DEF NumsOf
<1>3. \A x \in (1 .. sys.objs) \ {o} : Shares(sys, u)[x] = Shares(sys, s)[x]
  <2>. SUFFICES ASSUME NEW x \in (1 .. sys.objs) \ {o} PROVE Shares(sys, u)[x] = Shares(sys, s)[x]
    OBVIOUS
  <2>1. OldDomain(u, FlagKey(x)) = OldDomain(s, FlagKey(x)) /\ NumsOf(sys, u, x) = NumsOf(sys, s, x)
    BY <1>k, <1>u, <1>2
  <2>. QED
    BY <2>1 DEF Shares
<1>4. a = Share(sys, old, A) /\ b = Share(sys, new, A)
  BY <1>1, <1>2 DEF Shares
<1>5. A \in Ranges /\ r \in Ranges /\ A.min \in Int /\ A.max \in Int /\ r.min \in Int /\ r.max \in Int
  <2>1. A \in Ranges /\ r \in Ranges
    BY <1>k, AmountType, TallyType DEF Exact, Tallied
  <2>. QED
    BY <2>1 DEF Ranges
<1>6. /\ a.min = IF Is(old, I) = "T" THEN A.min ELSE 0
      /\ a.max = IF ~Half(sys) /\ Is(old, I) # "F" THEN A.max ELSE 0
      /\ b.min = IF Is(new, I) = "T" THEN A.min ELSE 0
      /\ b.max = IF ~Half(sys) /\ Is(new, I) # "F" THEN A.max ELSE 0
  BY <1>4 DEF Share, Diff
<1>7. /\ Is(old, I) = "T" => Is(new, I) = "T"
      /\ Is(old, I) = "F" => Is(new, I) = "F"
  <2>1. Is(old, I) = "T" => new \cap I # {} /\ new \subseteq I
    BY <1>1, IsDef
  <2>2. Is(old, I) = "F" => new \cap I = {}
    BY <1>1, IsDef
  <2>. QED
    BY <1>1, <2>1, <2>2, IsDef
<1>8. t = IF Is(old, I) # "M" THEN u
          ELSE IF Is(new, I) = "T" THEN ApplyDiff(u, Diff(A.min, 0))
          ELSE IF Is(new, I) = "F" /\ ~Half(sys) THEN ApplyDiff(u, Diff(0, A.max)) ELSE u
  BY <1>k, AddDef DEF IncrCounter
<1>9. \A d : ApplyDiff(u, d) = SetCounter(u, Diff(r.min + d.min, IF Half(sys) THEN r.max ELSE r.max - d.max))
  BY <1>k, <1>u, AddDef DEF ApplyDiff
<1>10. ASSUME t = u, b.min = a.min, b.max = a.max PROVE Recounted(sys, u, t) /\ Tallied(sys, t)
  <2>1. Recounted(sys, u, t) /\ t.dom[Cnt] = r
    BY <1>10, <1>u, Unchanged
  <2>2. a.min \in Int /\ a.max \in Int
    BY <1>5, <1>6
  <2>3. r.min = r.min - a.min + b.min /\ r.max = r.max - a.max + b.max
    BY <1>5, <1>10, <2>2
  <2>. QED
    BY <1>3, <1>5, <2>1, <2>3, ShareChanges
<1>11. ASSUME NEW q \in Ranges, t = SetCounter(u, q), q.min = r.min - a.min + b.min, q.max = r.max - a.max + b.max
       PROVE  Recounted(sys, u, t) /\ Tallied(sys, t)
  <2>1. Recounted(sys, u, t) /\ t.dom[Cnt] = q
    BY <1>k, <1>u, <1>11, SetCounterIs
  <2>. QED
    BY <1>3, <1>11, <2>1, ShareChanges
<1>12. CASE Is(old, I) # "M"
  <2>1. t = u
    BY <1>8, <1>12
  <2>2. Is(old, I) = Is(new, I)
    BY <1>7, <1>12, IsDef, SMTT(30)
  <2>. QED
    BY <1>6, <1>10, <2>1, <2>2
<1>13. CASE Is(old, I) = "M" /\ Is(new, I) = "T"
  <2>. SUFFICES ASSUME NEW q, q = Diff(r.min + A.min, IF Half(sys) THEN r.max ELSE r.max - 0)
                PROVE  Recounted(sys, u, t) /\ Tallied(sys, t)
    OBVIOUS
  <2>1. t = SetCounter(u, q)
    BY <1>8, <1>9, <1>13 DEF Diff
  <2>2. q \in Ranges /\ q.min = r.min + A.min /\ q.max = r.max
    BY <1>5 DEF Diff, Ranges
  <2>3. q.min = r.min - a.min + b.min /\ q.max = r.max - a.max + b.max
    BY <1>5, <1>6, <1>13, <2>2
  <2>. QED
    BY <1>11, <2>1, <2>2, <2>3
<1>14. CASE Is(old, I) = "M" /\ Is(new, I) = "F"
  <2>1. CASE Half(sys)
    <3>1. t = u /\ b.min = a.min /\ b.max = a.max
      BY <1>6, <1>8, <1>14, <2>1
    <3>. QED
      BY <1>10, <3>1
  <2>2. CASE ~Half(sys)
    <3>. SUFFICES ASSUME NEW q, q = Diff(r.min + 0, r.max - A.max)
                  PROVE  Recounted(sys, u, t) /\ Tallied(sys, t)
      OBVIOUS
    <3>1. t = SetCounter(u, q)
      BY <1>8, <1>9, <1>14, <2>2 DEF Diff
    <3>2. q \in Ranges /\ q.min = r.min /\ q.max = r.max - A.max
      BY <1>5 DEF Diff, Ranges
    <3>3. q.min = r.min - a.min + b.min /\ q.max = r.max - a.max + b.max
      BY <1>5, <1>6, <1>14, <2>2, <3>2
    <3>. QED
      BY <1>11, <3>1, <3>2, <3>3
  <2>. QED
    BY <2>1, <2>2
<1>15. CASE Is(old, I) = "M" /\ Is(new, I) = "M"
  <2>1. t = u /\ b.min = a.min /\ b.max = a.max
    BY <1>6, <1>8, <1>15
  <2>. QED
    BY <1>10, <2>1
<1>. QED
  BY <1>12, <1>13, <1>14, <1>15, IsDef

\* update_counter
LEMMA UpdateExact ==
    ASSUME sys \in Systems, Adds(sys), sys.cnt.chosen, NEW s, Shaped(sys, s), Exact(sys, s), s.ok,
           NEW o \in 1 .. sys.objs, NEW k, k = NumKey(o), k \in DOMAIN s.diff,
           NEW u, u = Popped(s, k), NEW t, t = UpdateCounter(u, o, s.diff[k].old, s.diff[k].new)
    PROVE  Recounted(sys, u, t) /\ Tallied(sys, t)
<1>. SUFFICES ASSUME NEW old, old = s.diff[k].old, NEW new, new = s.diff[k].new, NEW I, I = sys.cnt.incr,
                     NEW flags, flags = OldDomain(u, FlagKey(o)),
                     NEW A, A = AmountOf(sys, old), NEW B, B = AmountOf(sys, new), NEW r, r = s.dom[Cnt],
                     NEW a, a = Shares(sys, s)[o], NEW b, b = Shares(sys, u)[o]
              PROVE  Recounted(sys, u, t) /\ Tallied(sys, t)
  OBVIOUS
<1>k. /\ k \in Ks(sys) /\ "cnt" \in sys.choices /\ sys.cnt.kind = "Add" /\ sys.objs \in Nat
      /\ \A x \in 1 .. sys.objs : /\ FlagKey(x) \in Ks(sys) /\ FlagKey(x) # k
                                  /\ NumKey(x) \in Ks(sys) /\ (x # o => NumKey(x) # k)
  BY SystemsAssumption, ObjectInstances DEF FlagKey, NumKey, Adds
<1>u. /\ Shaped(sys, u) /\ u.dom = s.dom /\ u.ok
      /\ \A j \in Ks(sys) : OldDomain(u, j) = IF j = k THEN s.dom[j] ELSE OldDomain(s, j)
  BY PoppedIs
<1>1. OldDomain(s, k) = old /\ OldDomain(u, k) = new
  BY <1>k, <1>u DEF Shaped, OldDomain
<1>2. \A x \in 1 .. sys.objs : OldDomain(u, FlagKey(x)) = OldDomain(s, FlagKey(x))
  BY <1>k, <1>u
<1>3. \A x \in (1 .. sys.objs) \ {o} : Shares(sys, u)[x] = Shares(sys, s)[x]
  <2>. SUFFICES ASSUME NEW x \in (1 .. sys.objs) \ {o} PROVE Shares(sys, u)[x] = Shares(sys, s)[x]
    OBVIOUS
  <2>1. OldDomain(u, FlagKey(x)) = OldDomain(s, FlagKey(x)) /\ NumsOf(sys, u, x) = NumsOf(sys, s, x)
    BY <1>k, <1>u, <1>2 DEF NumsOf
  <2>. QED
    BY <2>1 DEF Shares
<1>4. a = Share(sys, flags, A) /\ b = Share(sys, flags, B)
  BY <1>1, <1>2 DEF Shares, NumsOf
<1>5. /\ A.min \in Int /\ A.max \in Int /\ B.min \in Int /\ B.max \in Int
      /\ r \in Ranges /\ r.min \in Int /\ r.max \in Int
  <2>1. A \in Ranges /\ B \in Ranges /\ r \in Ranges
    BY <1>k, AmountType, TallyType DEF Exact, Tallied
  <2>. QED
    BY <2>1 DEF Ranges
<1>6. /\ a.min = IF Is(flags, I) = "T" THEN A.min ELSE 0
      /\ a.max = IF ~Half(sys) /\ Is(flags, I) # "F" THEN A.max ELSE 0
      /\ b.min = IF Is(flags, I) = "T" THEN B.min ELSE 0
      /\ b.max = IF ~Half(sys) /\ Is(flags, I) # "F" THEN B.max ELSE 0
  BY <1>4 DEF Share, Diff
<1>7. \/ t = u /\ a.min = b.min /\ a.max = b.max
      \/ \E n \in Ranges : /\ t = SetCounter(u, n) /\ n.min = r.min - a.min + b.min
                          /\ n.max = r.max - a.max + b.max
  <2>. DEFINE part(X) == Diff(IF Is(flags, I) # "T" THEN 0 ELSE X.min, IF Is(flags, I) = "F" THEN 0 ELSE X.max)
              p == part(A)
              q == part(B)
              n == Diff(r.min - p.min + q.min, IF Half(sys) THEN r.max ELSE r.max - p.max + q.max)
  <2>1. t = IF p.min = q.min /\ (Half(sys) \/ p.max = q.max) THEN u ELSE SetCounter(u, n)
    <3>1. /\ AmountIn(old) = A /\ AmountIn(new) = B /\ Zero = 0 /\ (IsHalf <=> Half(sys)) /\ u.dom[Cnt] = r
          /\ \A x, y : Op(x, y) = x + y /\ Inv(x, y) = x - y
      BY <1>k, <1>u, AddDef
    <3>2. Is(OldDomain(u, <<"flag", <<o>>>>), sys.cnt.incr) = Is(flags, I)
      BY DEF FlagKey
    <3>3. t = UpdateCounter(u, o, old, new)
      OBVIOUS
    <3>. QED
      BY <3>1, <3>2, <3>3, ZenonT(60) DEF UpdateCounter
  <2>2. /\ p.min = a.min /\ q.min = b.min
        /\ Half(sys) => a.max = 0 /\ b.max = 0
        /\ ~Half(sys) => p.max = a.max /\ q.max = b.max
    BY <1>6 DEF Diff
  <2>3. a.min \in Int /\ b.min \in Int /\ a.max \in Int /\ b.max \in Int
    BY <1>5, <1>6
  <2>4. n.min = r.min - p.min + q.min /\ n.max = IF Half(sys) THEN r.max ELSE r.max - p.max + q.max
    BY DEF Diff
  <2>5. n = [min |-> n.min, max |-> n.max]
    BY DEF Diff
  <2>. HIDE DEF p, q, n
  <2>6. n.min = r.min - a.min + b.min /\ n.max = r.max - a.max + b.max /\ n.min \in Int /\ n.max \in Int
    BY <1>5, <2>2, <2>3, <2>4
  <2>7. n \in Ranges
    BY <2>5, <2>6 DEF Ranges
  <2>. QED
    BY <2>1, <2>2, <2>6, <2>7
<1>8. a.min \in Int /\ a.max \in Int
  BY <1>5, <1>6
<1>9. CASE t = u /\ a.min = b.min /\ a.max = b.max
  <2>1. Recounted(sys, u, t) /\ t.dom[Cnt] = r
    BY <1>9, <1>u, Unchanged
  <2>2. r.min = r.min - a.min + b.min /\ r.max = r.max - a.max + b.max
    BY <1>5, <1>8, <1>9
  <2>. QED
    BY <1>3, <1>5, <2>1, <2>2, ShareChanges
<1>10. ASSUME NEW n \in Ranges, t = SetCounter(u, n), n.min = r.min - a.min + b.min, n.max = r.max - a.max + b.max
       PROVE  Recounted(sys, u, t) /\ Tallied(sys, t)
  <2>1. Recounted(sys, u, t) /\ t.dom[Cnt] = n
    BY <1>k, <1>u, <1>10, SetCounterIs
  <2>. QED
    BY <1>3, <1>10, <2>1, ShareChanges
<1>. QED
  BY <1>7, <1>9, <1>10

-----------------------------------------------------------------------------
(* The loops of the handlers, as folds over sequences.                       *)

\* The body of a loop: v is what it carries, x the element, p what it reads.
Body(loop, p, v, x) ==
    IF loop = "run_filters" THEN RunFilters(v, x)
    ELSE IF loop = "run_filter_call" THEN RunFilterCall(v, x)
    ELSE IF loop = "apply_action" THEN ApplyAction(v, x)
    ELSE IF loop = "filter_delayed" THEN Delayed(p, v, x[1], x[2], FilterOf(p, x[1], x[2]))
    ELSE IF loop = "restrict_counter" THEN (IF v.ok THEN CounterStep(v, v, x, p, RestrictChoice) ELSE v)
    ELSE IF loop = "counter_delayed"
    THEN CounterStep(v, p, x, ClampedCounter(p), LAMBDA acts, c, args, values : Delayed(p, acts, c, args, values))
    ELSE IF loop = "triggers" /\ "flag" \in sys.choices /\ Is(p.dom[<<"flag", <<x>>>>], sys.trigger) = "T"
    THEN CallTrigger(v) ELSE v

LoopIter(loop, p, base, seq, g) ==
    g = [T \in SUBSET DOMAIN seq |->
           IF T = {} THEN base ELSE Body(loop, p, g[T \ {Max(T)}], seq[Max(T)])]
LoopFold(loop, p, base, seq) == CHOOSE g : LoopIter(loop, p, base, seq, g)
Loop(loop, p, base, seq) == LoopFold(loop, p, base, seq)[DOMAIN seq]

LEMMA RunFiltersLoop ==
    ASSUME NEW base, NEW seq, NEW p
    PROVE  FoldLeft(RunFilters, base, seq) = Loop("run_filters", p, base, seq)
BY DEF FoldLeft, MapThenFoldSet, Loop, LoopFold, LoopIter, Body

LEMMA FilterCallLoop ==
    ASSUME NEW base, NEW seq, NEW p
    PROVE  FoldLeft(RunFilterCall, base, seq) = Loop("run_filter_call", p, base, seq)
BY DEF FoldLeft, MapThenFoldSet, Loop, LoopFold, LoopIter, Body

LEMMA ApplyActionLoop ==
    ASSUME NEW base, NEW seq, NEW p
    PROVE  FoldLeft(ApplyAction, base, seq) = Loop("apply_action", p, base, seq)
BY DEF FoldLeft, MapThenFoldSet, Loop, LoopFold, LoopIter, Body

LEMMA FilterDelayedLoop ==
    ASSUME NEW s, NEW ks
    PROVE  FilterActions(s, ks) = Loop("filter_delayed", s, <<>>, ks)
BY DEF FilterActions, FoldLeft, MapThenFoldSet, Loop, LoopFold, LoopIter, Body

LEMMA RestrictCounterLoop ==
    ASSUME NEW s, s.ok, ~(ClampedCounter(s).min > ClampedCounter(s).max)
    PROVE  RestrictCounter(s) = Loop("restrict_counter", ClampedCounter(s), s, [o \in 1 .. s.objs |-> o])
BY DEF RestrictCounter, FoldLeft, MapThenFoldSet, Loop, LoopFold, LoopIter, Body

LEMMA CounterDelayedLoop ==
    ASSUME NEW init
    PROVE  CounterActions(init) =
             Loop("counter_delayed", init,
                  IF ComputeCounter(init) = init.dom[Cnt] THEN <<>>
                  ELSE <<ChoiceAct(Cnt, GetDiff(init.dom[Cnt], ComputeCounter(init)))>>,
                  [o \in 1 .. objs |-> o])
BY DEF CounterActions, FoldLeft, MapThenFoldSet, Loop, LoopFold, LoopIter, Body

LEMMA TriggersLoop ==
    ASSUME NEW init, NEW acts
    PROVE  InitTriggers(init, acts) = Loop("triggers", init, [s |-> init, acts |-> acts], [o \in 1 .. objs |-> o])
BY DEF InitTriggers, FoldLeft, MapThenFoldSet, Loop, LoopFold, LoopIter, Body

\* A loop that never leaves a set goes through a sequence of its elements.
StaysIn(loop, p, seq, B) == \A i \in DOMAIN seq, v \in B : Body(loop, p, v, seq[i]) \in B
Trace(loop, p, base, seq, n, h) == h[0] = base /\ \A i \in 1 .. n : h[i] = Body(loop, p, h[i - 1], seq[i])

LEMMA LoopTrace ==
    ASSUME NEW loop, NEW p, NEW B, NEW base \in B, NEW seq, NEW n \in Nat, DOMAIN seq = 1 .. n,
           StaysIn(loop, p, seq, B)
    PROVE  \E h \in [0 .. n -> B] : Trace(loop, p, base, seq, n, h) /\ h[n] = Loop(loop, p, base, seq)
<1>. DEFINE S == 1 .. n
            op == [q \in S \X B |-> Body(loop, p, q[2], seq[q[1]])]
            F == LoopFold(loop, p, base, seq)
<1>1. op \in [S \X B -> B]
  BY DEF StaysIn
<1>2. \A i \in S, v \in B : op[i, v] = Body(loop, p, v, seq[i])
  BY Zenon
<1>. HIDE DEF op
<1>3. PICK g \in [SUBSET S -> B] : LeftFoldOf(n, base, op, g)
  BY <1>1, LeftFold
<1>4. LoopIter(loop, p, base, seq, g)
  <2>. SUFFICES ASSUME NEW T \in SUBSET S, T # {} PROVE g[T] = Body(loop, p, g[T \ {Max(T)}], seq[Max(T)])
    BY <1>3, Zenon DEF LeftFoldOf, LoopIter
  <2>1. Max(T) \in S /\ g[T \ {Max(T)}] \in B
    BY GreatestNatural
  <2>2. g[T] = op[Max(T), g[T \ {Max(T)}]]
    BY <1>3, Zenon DEF LeftFoldOf
  <2>3. \A i \in S : op[i, g[T \ {Max(T)}]] = Body(loop, p, g[T \ {Max(T)}], seq[i])
    BY <1>2, <2>1, Zenon
  <2>. QED
    BY <2>1, <2>2, <2>3, Zenon
<1>5. LoopIter(loop, p, base, seq, F)
  BY <1>4 DEF LoopFold
<1>. HIDE DEF F
<1>6. LeftFoldIn(n, B, base, op, F)
  <2>1. F[{}] = base
    BY <1>5 DEF LoopIter
  <2>2. ASSUME NEW T \in SUBSET S, T # {}, F[T \ {Max(T)}] \in B PROVE F[T] = op[Max(T), F[T \ {Max(T)}]]
    <3>1. F[T] = Body(loop, p, F[T \ {Max(T)}], seq[Max(T)])
      BY <1>5, <2>2 DEF LoopIter
    <3>2. Max(T) \in S
      BY <2>2, GreatestNatural
    <3>3. \A i \in S : op[i, F[T \ {Max(T)}]] = Body(loop, p, F[T \ {Max(T)}], seq[i])
      BY <1>2, <2>2, Zenon
    <3>. QED
      BY <3>1, <3>2, <3>3, Zenon
  <2>. QED
    BY <2>1, <2>2, Zenon DEF LeftFoldIn
<1>7. PICK h \in [0 .. n -> B] : Steps(n, base, op, h) /\ h[n] = F[1 .. n]
  <2>1. HasSteps(n, B, base, op, F)
    BY <1>1, <1>6, LeftFoldSteps
  <2>. QED
    BY <2>1 DEF HasSteps
<1>8. ASSUME NEW i \in S PROVE h[i] = Body(loop, p, h[i - 1], seq[i])
  <2>1. i - 1 \in 0 .. n
    OBVIOUS
  <2>2. h[i - 1] \in B
    BY <2>1
  <2>3. h[i] = op[i, h[i - 1]]
    BY <1>7, Zenon DEF Steps
  <2>4. op[i, h[i - 1]] = Body(loop, p, h[i - 1], seq[i])
    BY <1>2, <2>2, Zenon
  <2>. QED
    BY <2>3, <2>4, Zenon
<1>9. h[n] = Loop(loop, p, base, seq)
  BY <1>7 DEF Loop, F
<1>10. Trace(loop, p, base, seq, n, h)
  BY <1>7, <1>8, Zenon DEF Trace, Steps
<1>. QED
  BY <1>9, <1>10

LEMMA LoopStays ==
    ASSUME NEW loop, NEW p, NEW B, NEW base \in B, NEW seq, NEW n \in Nat, DOMAIN seq = 1 .. n,
           StaysIn(loop, p, seq, B)
    PROVE  Loop(loop, p, base, seq) \in B
<1>1. PICK h \in [0 .. n -> B] : h[n] = Loop(loop, p, base, seq)
  BY LoopTrace
<1>2. h[n] \in B
  OBVIOUS
<1>. QED
  BY <1>1, <1>2

-----------------------------------------------------------------------------
(* What the handlers do to the domains.                                      *)

LEMMA NarrowedSelf ==
    ASSUME NEW y, NEW s, Shaped(y, s)
    PROVE  Narrowed(y, s, s)
BY DEF Narrowed

LEMMA Failed ==
    ASSUME NEW y, NEW s, Shaped(y, s), NEW t, t = [s EXCEPT !.ok = FALSE]
    PROVE  Narrowed(y, s, t) /\ ~t.ok
<1>1. t \in SpaceStates(y) /\ t.dom = s.dom /\ t.diff = s.diff /\ t.ok = FALSE
  BY WithOk, ZenonT(60) DEF Shaped
<1>. QED
  BY <1>1 DEF Narrowed, Shaped, OldDomain

\* restrict_counter and restrict_incr_amount on one object.
LEMMA CounterStepNarrows ==
    ASSUME sys \in Systems, "cnt" \in sys.choices, NEW s, Shaped(sys, s), NEW o \in 1 .. sys.objs, NEW new,
           NEW t, t = Body("restrict_counter", new, s, o)
    PROVE  Narrowed(sys, s, t)
<1>k. FlagKey(o) \in Ks(sys) /\ (sys.cnt.chosen => NumKey(o) \in Ks(sys))
  BY SystemsAssumption, ObjectInstances DEF FlagKey, NumKey
<1>1. CASE t = s
  BY <1>1, NarrowedSelf
<1>2. ASSUME NEW values, t = RestrictChoice(s, "flag", <<o>>, values) PROVE Narrowed(sys, s, t)
  <2>1. FlagKey(o)[1] = "flag" /\ FlagKey(o)[2] = <<o>>
    BY DEF FlagKey
  <2>2. t = RestrictChoice(s, FlagKey(o)[1], FlagKey(o)[2], values)
    BY <1>2, <2>1
  <2>. QED
    BY <1>k, <2>2, RestrictNarrows
<1>3. ASSUME NEW values, sys.cnt.chosen, t = RestrictChoice(s, "num", <<o>>, values) PROVE Narrowed(sys, s, t)
  <2>1. NumKey(o)[1] = "num" /\ NumKey(o)[2] = <<o>>
    BY DEF NumKey
  <2>2. t = RestrictChoice(s, NumKey(o)[1], NumKey(o)[2], values)
    BY <1>3, <2>1
  <2>. QED
    BY <1>k, <1>3, <2>2, RestrictNarrows
<1>4. \/ t = s
      \/ t = RestrictChoice(s, "flag", <<o>>, FlagBound(s, o, new))
      \/ sys.cnt.chosen /\ t = RestrictChoice(s, "num", <<o>>, AmountBound(s, o, new))
  BY DEF Body, CounterStep
<1>. QED
  BY <1>1, <1>2, <1>3, <1>4

LEMMA RestrictCounterNarrows ==
    ASSUME sys \in Systems, "cnt" \in sys.choices, NEW s, Shaped(sys, s), NEW t, t = RestrictCounter(s)
    PROVE  Narrowed(sys, s, t)
<1>. SUFFICES ASSUME NEW new, new = ClampedCounter(s) PROVE Narrowed(sys, s, t)
  OBVIOUS
<1>1. CASE ~s.ok
  BY <1>1, NarrowedSelf DEF RestrictCounter
<1>2. CASE s.ok /\ new.min > new.max
  <2>1. t = [s EXCEPT !.ok = FALSE]
    BY <1>2 DEF RestrictCounter
  <2>. QED
    BY <2>1, Failed
<1>3. CASE s.ok /\ ~(new.min > new.max)
  <2>. DEFINE B == {v \in SpaceStates(sys) : Narrowed(sys, s, v)}
              seq == [o \in 1 .. s.objs |-> o]
  <2>0. s.objs = sys.objs /\ sys.objs \in Nat /\ s \in SpaceStates(sys)
    BY StateIs, SystemsAssumption DEF Shaped
  <2>1. DOMAIN seq = 1 .. sys.objs /\ \A i \in DOMAIN seq : seq[i] = i
    BY <2>0
  <2>2. s \in B
    BY <2>0, NarrowedSelf
  <2>3. ASSUME NEW i \in DOMAIN seq, NEW v \in B PROVE Body("restrict_counter", new, v, seq[i]) \in B
    <3>. SUFFICES ASSUME NEW u, u = Body("restrict_counter", new, v, i) PROVE u \in B
      BY <2>1
    <3>1. Shaped(sys, v) /\ Narrowed(sys, s, v) /\ i \in 1 .. sys.objs
      BY <2>1 DEF Narrowed
    <3>2. Narrowed(sys, v, u)
      BY <3>1, CounterStepNarrows
    <3>3. Narrowed(sys, s, u)
      BY <3>1, <3>2, NarrowedTwice
    <3>. QED
      BY <3>3 DEF Narrowed, Shaped
  <2>4. t = Loop("restrict_counter", new, s, seq)
    BY <1>3, RestrictCounterLoop
  <2>. HIDE DEF B, seq
  <2>5. StaysIn("restrict_counter", new, seq, B)
    BY <2>3 DEF StaysIn
  <2>6. t \in B
    BY <2>0, <2>1, <2>2, <2>4, <2>5, LoopStays
  <2>. QED
    BY <2>6 DEF B
<1>. QED
  BY <1>1, <1>2, <1>3

LEMMA TargetKey ==
    ASSUME sys \in Systems, NEW f, f.choice \in sys.choices \cap {"flag", "num", "rel"},
           NEW b \in Bindings(f, sys.objs), f.choice \in Symmetric => b[Arg(1)] < b[Arg(2)]
    PROVE  <<f.choice, ArgsOf(f.choice, b)>> \in Ks(sys)
<1>. DEFINE O == 1 .. sys.objs
<1>0. /\ Arity["flag"] = 1 /\ Arity["num"] = 1 /\ Arity["rel"] = 2 /\ "rel" \in Symmetric
  BY SystemsAssumption
<1>1. b \in [FilterVars(f) -> O]
  BY DEF Bindings
<1>2. \A i \in 1 .. Arity[f.choice] : b[i] \in O
  <2>1. \A i \in 1 .. Arity[f.choice] : i \in FilterVars(f)
    BY DEF FilterVars, Arg
  <2>. QED
    BY <1>1, <2>1
<1>3. ArgsOf(f.choice, b) = [i \in 1 .. Arity[f.choice] |-> b[i]]
  BY DEF ArgsOf, Arg
<1>4. CASE f.choice \in {"flag", "num"}
  <2>1. Arity[f.choice] = 1
    BY <1>0, <1>4
  <2>2. ArgsOf(f.choice, b) = <<b[1]>> /\ b[1] \in O
    BY <1>2, <1>3, <2>1
  <2>3. \A o \in O : <<f.choice, <<o>>>> \in Ks(sys)
    BY <1>4, ObjectInstances
  <2>. QED
    BY <2>2, <2>3
<1>5. CASE f.choice = "rel"
  <2>1. ArgsOf(f.choice, b) = <<b[1], b[2]>> /\ b[1] \in O /\ b[2] \in O /\ b[1] < b[2]
    BY <1>0, <1>2, <1>3, <1>5 DEF Arg
  <2>2. \A p, q \in O : p < q => <<"rel", <<p, q>>>> \in Ks(sys)
    <3>. SUFFICES ASSUME NEW p \in O, NEW q \in O, p < q PROVE <<"rel", <<p, q>>>> \in Ks(sys)
      OBVIOUS
    <3>1. <<p, q>> \in {x \in O \X O : x[1] < x[2]}
      OBVIOUS
    <3>. QED
      BY <1>5, <3>1 DEF Ks, InstancesOf
  <2>. QED
    BY <1>5, <2>1, <2>2
<1>. QED
  BY <1>4, <1>5

\* A call of a filter: the filter, the position of the changed input, its arguments and
\* those of the restricted choice.
Calls(y, args) ==
    {c \in {filters[j] : j \in DOMAIN filters} \X Nat \X {args, <<args[2], args[1]>>} \X {k[2] : k \in Ks(y)} :
       <<c[1].choice, c[4]>> \in Ks(y)}

LEMMA SeqMonotonic ==
    ASSUME NEW X, NEW Y, X \subseteq Y, NEW q \in Seq(X)
    PROVE  q \in Seq(Y)
OBVIOUS

CallTargets(s, f, i, a) ==
    {ArgsOf(f.choice, b) : b \in {d \in Bindings(f, s.objs) :
        InstArgs(f.inputs[i], d) = a /\ (f.choice \in Symmetric => d[Arg(1)] < d[Arg(2)])}}
Orientations(c, args) == IF c \in Symmetric THEN <<<<args[2], args[1]>>, args>> ELSE <<args>>
CallSet(s, f, i, a) == {<<f, i, a, t>> : t \in CallTargets(s, f, i, a)}
CallSeq(s, f, i, a) == SetToSeq(CallSet(s, f, i, a))
CallsOfInput(s, c, args, f, i) ==
    IF f.inputs[i].choice # c THEN <<>>
    ELSE FlattenSeq([k \in DOMAIN Orientations(c, args) |-> CallSeq(s, f, i, Orientations(c, args)[k])])
CallsOfFilter(s, c, args, f) == FlattenSeq([i \in DOMAIN f.inputs |-> CallsOfInput(s, c, args, f, i)])

LEMMA FilterCallsUnfold ==
    ASSUME NEW s, NEW c, NEW args
    PROVE  FilterCallsOn(s, c, args) = FlattenSeq([j \in DOMAIN filters |-> CallsOfFilter(s, c, args, filters[j])])
BY DEF FilterCallsOn, CallsOfFilter, CallsOfInput, CallSeq, CallSet, CallTargets, Orientations

LEMMA CallsFinite ==
    ASSUME sys \in Systems, FiltersTyped, NEW s, s.objs = sys.objs, NEW args, NEW j \in DOMAIN filters,
           NEW i \in Nat, NEW a \in {args, <<args[2], args[1]>>},
           NEW C, C = CallSet(s, filters[j], i, a)
    PROVE  IsFiniteSet(C) /\ C \subseteq Calls(sys, args)
<1>. SUFFICES ASSUME NEW f, f = filters[j], NEW G, G = CallTargets(s, f, i, a), C = {<<f, i, a, t>> : t \in G}
              PROVE  IsFiniteSet(C) /\ C \subseteq Calls(sys, args)
  BY DEF CallSet
<1>1. \A t \in G : <<f.choice, t>> \in Ks(sys)
  <2>. SUFFICES ASSUME NEW t \in G PROVE <<f.choice, t>> \in Ks(sys)
    OBVIOUS
  <2>1. PICK b \in Bindings(f, sys.objs) : t = ArgsOf(f.choice, b) /\ (f.choice \in Symmetric => b[Arg(1)] < b[Arg(2)])
    BY DEF CallTargets
  <2>2. f.choice \in sys.choices \cap {"flag", "num", "rel"}
    BY DEF FiltersTyped
  <2>. QED
    BY <2>1, <2>2, TargetKey
<1>2. C \subseteq Calls(sys, args)
  <2>. SUFFICES ASSUME NEW t \in G PROVE <<f, i, a, t>> \in Calls(sys, args)
    OBVIOUS
  <2>1. <<f.choice, t>> \in Ks(sys) /\ t \in {k[2] : k \in Ks(sys)}
    BY <1>1
  <2>. QED
    BY <2>1 DEF Calls
<1>3. IsFiniteSet(C)
  <2>. DEFINE h == [k \in Ks(sys) |-> <<f, i, a, k[2]>>]
  <2>1. \A x \in C : \E k \in Ks(sys) : x = h[k]
    BY <1>1
  <2>2. IsFiniteSet(Ks(sys))
    BY FiniteKs
  <2>. HIDE DEF h
  <2>. QED
    BY <2>1, <2>2, FiniteImage
<1>. QED
  BY <1>2, <1>3

LEMMA CallSeqTyped ==
    ASSUME sys \in Systems, FiltersTyped, NEW s, s.objs = sys.objs, NEW args, NEW j \in DOMAIN filters,
           NEW i \in Nat, NEW a \in {args, <<args[2], args[1]>>}
    PROVE  CallSeq(s, filters[j], i, a) \in Seq(Calls(sys, args))
<1>. SUFFICES ASSUME NEW C, C = CallSet(s, filters[j], i, a)
              PROVE  SetToSeq(C) \in Seq(Calls(sys, args))
  BY DEF CallSeq
<1>1. IsFiniteSet(C) /\ C \subseteq Calls(sys, args)
  BY CallsFinite
<1>2. SetToSeq(C) \in Seq(C)
  BY <1>1, SetToSeqOf
<1>. QED
  BY <1>1, <1>2, SeqMonotonic

LEMMA OrientationsTyped ==
    ASSUME NEW c, NEW args
    PROVE  Orientations(c, args) \in Seq({args, <<args[2], args[1]>>})
<1>1. \A x, z : <<x, z>> \in Seq({z, x}) /\ <<z>> \in Seq({z, x})
  OBVIOUS
<1>. QED
  BY <1>1, Zenon DEF Orientations

\* The calls for each orientation, for each input and for each filter.
OrientedCalls(s, c, args, f, i) ==
    [k \in DOMAIN Orientations(c, args) |-> CallSeq(s, f, i, Orientations(c, args)[k])]
InputCalls(s, c, args, f) == [i \in DOMAIN f.inputs |-> CallsOfInput(s, c, args, f, i)]
FilterCalls(s, c, args) == [j \in DOMAIN filters |-> CallsOfFilter(s, c, args, filters[j])]

LEMMA OrientedCallsTyped ==
    ASSUME sys \in Systems, FiltersTyped, NEW s, s.objs = sys.objs, NEW c, NEW args, NEW j \in DOMAIN filters,
           NEW i \in Nat, NEW X, X = Calls(sys, args)
    PROVE  OrientedCalls(s, c, args, filters[j], i) \in Seq(Seq(X))
<1>. DEFINE or == Orientations(c, args)
            sq == [k \in DOMAIN or |-> CallSeq(s, filters[j], i, or[k])]
<1>1. or \in Seq({args, <<args[2], args[1]>>})
  BY OrientationsTyped
<1>4. OrientedCalls(s, c, args, filters[j], i) = sq
  BY DEF OrientedCalls
<1>. HIDE DEF or
<1>2. \A k \in DOMAIN or : or[k] \in {args, <<args[2], args[1]>>}
  BY <1>1
<1>3. \A k \in DOMAIN or : sq[k] \in Seq(X)
  BY <1>2, CallSeqTyped
<1>5. DOMAIN sq = 1 .. Len(or) /\ Len(or) \in Nat
  BY <1>1
<1>6. \A k \in 1 .. Len(or) : sq[k] \in Seq(X)
  BY <1>3, <1>5
<1>7. sq = [k \in 1 .. Len(or) |-> sq[k]]
  BY <1>5
<1>. HIDE DEF sq
<1>. QED
  BY <1>4, <1>5, <1>6, <1>7

LEMMA InputCallsTyped ==
    ASSUME sys \in Systems, FiltersTyped, NEW s, s.objs = sys.objs, NEW c, NEW args, NEW j \in DOMAIN filters,
           NEW X, X = Calls(sys, args)
    PROVE  InputCalls(s, c, args, filters[j]) \in Seq(Seq(X))
<1>. DEFINE ins == filters[j].inputs
            sq == [i \in DOMAIN ins |-> CallsOfInput(s, c, args, filters[j], i)]
<1>0. DOMAIN ins = 1 .. Len(ins) /\ Len(ins) \in Nat
  BY DEF FiltersTyped
<1>1. ASSUME NEW i \in Nat PROVE CallsOfInput(s, c, args, filters[j], i) \in Seq(X)
  <2>. SUFFICES ASSUME NEW oc, oc = OrientedCalls(s, c, args, filters[j], i)
                PROVE  CallsOfInput(s, c, args, filters[j], i) \in Seq(X)
    OBVIOUS
  <2>1. oc \in Seq(Seq(X))
    BY OrientedCallsTyped
  <2>2. FlattenSeq(oc) \in Seq(X) /\ <<>> \in Seq(X)
    BY <2>1, Flattened
  <2>3. CallsOfInput(s, c, args, filters[j], i) = IF filters[j].inputs[i].choice # c THEN <<>> ELSE FlattenSeq(oc)
    BY DEF CallsOfInput, OrientedCalls
  <2>. QED
    BY <2>2, <2>3
<1>2. \A i \in 1 .. Len(ins) : sq[i] \in Seq(X)
  BY <1>0, <1>1
<1>3. sq = [i \in 1 .. Len(ins) |-> sq[i]]
  BY <1>0
<1>4. InputCalls(s, c, args, filters[j]) = sq
  BY DEF InputCalls
<1>. HIDE DEF sq, ins
<1>. QED
  BY <1>0, <1>2, <1>3, <1>4

LEMMA AllCallsTyped ==
    ASSUME sys \in Systems, FiltersTyped, NEW s, s.objs = sys.objs, NEW c, NEW args, NEW X, X = Calls(sys, args)
    PROVE  FilterCalls(s, c, args) \in Seq(Seq(X))
<1>. DEFINE sq == [j \in DOMAIN filters |-> CallsOfFilter(s, c, args, filters[j])]
<1>1. ASSUME NEW j \in DOMAIN filters PROVE CallsOfFilter(s, c, args, filters[j]) \in Seq(X)
  <2>. SUFFICES ASSUME NEW ic, ic = InputCalls(s, c, args, filters[j]) PROVE FlattenSeq(ic) \in Seq(X)
    BY DEF CallsOfFilter, InputCalls
  <2>1. ic \in Seq(Seq(X))
    BY InputCallsTyped
  <2>. QED
    BY <2>1, Flattened
<1>2. DOMAIN filters = 1 .. Len(filters) /\ Len(filters) \in Nat
  BY DEF FiltersTyped
<1>3. \A j \in 1 .. Len(filters) : sq[j] \in Seq(X)
  BY <1>1, <1>2
<1>4. sq = [j \in 1 .. Len(filters) |-> sq[j]]
  BY <1>2
<1>5. FilterCalls(s, c, args) = sq
  BY DEF FilterCalls
<1>. HIDE DEF sq
<1>. QED
  BY <1>2, <1>3, <1>4, <1>5

LEMMA FilterCallsTyped ==
    ASSUME sys \in Systems, FiltersTyped, NEW s, s.objs = sys.objs, NEW c, NEW args
    PROVE  FilterCallsOn(s, c, args) \in Seq(Calls(sys, args))
<1>. SUFFICES ASSUME NEW fc, fc = FilterCalls(s, c, args), NEW X, X = Calls(sys, args) PROVE FlattenSeq(fc) \in Seq(X)
  BY FilterCallsUnfold DEF FilterCalls
<1>1. fc \in Seq(Seq(X))
  BY AllCallsTyped
<1>. QED
  BY <1>1, Flattened

LEMMA FilterCallNarrows ==
    ASSUME sys \in Systems, NEW s, Shaped(sys, s), NEW args, NEW call \in Calls(sys, args),
           NEW t, t = RunFilterCall(s, call)
    PROVE  Narrowed(sys, s, t)
<1>. SUFFICES ASSUME NEW k, k = <<call[1].choice, call[4]>> PROVE Narrowed(sys, s, t)
  OBVIOUS
<1>1. k \in Ks(sys) /\ k[1] = call[1].choice /\ k[2] = call[4]
  BY DEF Calls
<1>2. CASE ~s.ok
  BY <1>2, NarrowedSelf DEF RunFilterCall
<1>3. CASE s.ok
  <2>1. \E values : t = RestrictChoice(s, k[1], k[2], values)
    BY <1>1, <1>3 DEF RunFilterCall
  <2>. QED
    BY <1>1, <2>1, RestrictNarrows
<1>. QED
  BY <1>2, <1>3

LEMMA FilterReadersNarrows ==
    ASSUME sys \in Systems, FiltersTyped, NEW s, Shaped(sys, s), NEW k, NEW t, t = FilterReaders(s, k)
    PROVE  Narrowed(sys, s, t)
<1>1. CASE ~(s.ok /\ k[1] # "cnt")
  <2>1. t = s
    BY <1>1 DEF FilterReaders
  <2>. QED
    BY <2>1, NarrowedSelf
<1>2. CASE s.ok /\ k[1] # "cnt"
  <2>. SUFFICES ASSUME NEW args, args = k[2], NEW seq, seq = FilterCallsOn(s, k[1], args) PROVE Narrowed(sys, s, t)
    OBVIOUS
  <2>. DEFINE B == {v \in SpaceStates(sys) : Narrowed(sys, s, v)}
  <2>0. s.objs = sys.objs /\ s \in SpaceStates(sys)
    BY StateIs DEF Shaped
  <2>1. seq \in Seq(Calls(sys, args))
    BY <2>0, FilterCallsTyped
  <2>2. Len(seq) \in Nat /\ DOMAIN seq = 1 .. Len(seq) /\ \A i \in DOMAIN seq : seq[i] \in Calls(sys, args)
    BY <2>1
  <2>3. s \in B
    BY <2>0, NarrowedSelf
  <2>4. ASSUME NEW i \in DOMAIN seq, NEW v \in B PROVE Body("run_filter_call", s, v, seq[i]) \in B
    <3>. SUFFICES ASSUME NEW u, u = RunFilterCall(v, seq[i]) PROVE u \in B
      BY DEF Body
    <3>1. Shaped(sys, v) /\ Narrowed(sys, s, v)
      BY DEF Narrowed
    <3>2. Narrowed(sys, v, u)
      BY <2>2, <3>1, FilterCallNarrows
    <3>3. Narrowed(sys, s, u)
      BY <3>1, <3>2, NarrowedTwice
    <3>. QED
      BY <3>3 DEF Narrowed, Shaped
  <2>5. t = Loop("run_filter_call", s, s, seq)
    BY <1>2, FilterCallLoop DEF FilterReaders
  <2>. HIDE DEF B
  <2>6. StaysIn("run_filter_call", s, seq, B)
    BY <2>4 DEF StaysIn
  <2>7. t \in B
    BY <2>2, <2>3, <2>5, <2>6, LoopStays
  <2>. QED
    BY <2>7 DEF B
<1>. QED
  BY <1>1, <1>2

-----------------------------------------------------------------------------
(* X::on_change                                                              *)

Additive(y) == "cnt" \in y.choices => y.cnt.kind = "Add"
Counted(y, s) == Shaped(y, s) /\ ("cnt" \in y.choices => Exact(y, s))

LEMMA CountedNarrowed ==
    ASSUME NEW y \in Systems, NEW s, Counted(y, s), NEW t, Narrowed(y, s, t)
    PROVE  Counted(y, t)
BY NarrowedExact DEF Counted, Narrowed

\* Entries that do not count leave the sum as it is.
LEMMA PopOther ==
    ASSUME NEW y \in Systems, "cnt" \in y.choices, NEW s, Shaped(y, s), Exact(y, s), NEW k \in DOMAIN s.diff,
           \A o \in 1 .. y.objs : k # FlagKey(o) /\ (y.cnt.chosen => k # NumKey(o)),
           NEW u, u = Popped(s, k)
    PROVE  Exact(y, u)
<1>1. /\ u.dom = s.dom /\ u.ok = s.ok
      /\ \A j \in Ks(y) : OldDomain(u, j) = IF j = k THEN s.dom[j] ELSE OldDomain(s, j)
  BY PoppedIs
<1>2. Shares(y, u) = Shares(y, s)
  <2>. SUFFICES ASSUME NEW o \in 1 .. y.objs
                PROVE  Share(y, OldDomain(u, FlagKey(o)), AmountOf(y, NumsOf(y, u, o)))
                       = Share(y, OldDomain(s, FlagKey(o)), AmountOf(y, NumsOf(y, s, o)))
    BY DEF Shares
  <2>1. FlagKey(o) \in Ks(y) /\ (y.cnt.chosen => NumKey(o) \in Ks(y))
    BY SystemsAssumption, ObjectInstances DEF FlagKey, NumKey
  <2>2. OldDomain(u, FlagKey(o)) = OldDomain(s, FlagKey(o)) /\ NumsOf(y, u, o) = NumsOf(y, s, o)
    BY <1>1, <2>1 DEF NumsOf
  <2>. QED
    BY <2>2
<1>. QED
  BY <1>1, <1>2 DEF Exact, Tallied

LEMMA CountChangeIs ==
    ASSUME NEW s, NEW k, NEW old, NEW new
    PROVE  /\ k[1] = "flag" /\ HasCounter => CountChange(s, k, old, new) = IncrCounter(s, k[2][1], old, new)
           /\ k[1] = "num" /\ HasCounter /\ sys.cnt.chosen =>
                CountChange(s, k, old, new) = UpdateCounter(s, k[2][1], old, new)
           /\ k[1] = "cnt" => CountChange(s, k, old, new) = RestrictCounter(s)
           /\ k[1] # "cnt" /\ ~(k[1] = "flag" /\ HasCounter) /\ ~(k[1] = "num" /\ HasCounter /\ sys.cnt.chosen) =>
                CountChange(s, k, old, new) = s
<1>0. "flag" # "num" /\ "flag" # "cnt" /\ "num" # "cnt"
  OBVIOUS
<1>1. ASSUME k[1] = "flag", HasCounter PROVE CountChange(s, k, old, new) = IncrCounter(s, k[2][1], old, new)
  BY <1>0, <1>1, Zenon DEF CountChange
<1>2. ASSUME k[1] = "num", HasCounter, sys.cnt.chosen
      PROVE  CountChange(s, k, old, new) = UpdateCounter(s, k[2][1], old, new)
  BY <1>0, <1>2, Zenon DEF CountChange
<1>3. ASSUME k[1] = "cnt" PROVE CountChange(s, k, old, new) = RestrictCounter(s)
  BY <1>0, <1>3, Zenon DEF CountChange
<1>4. ASSUME k[1] # "cnt", ~(k[1] = "flag" /\ HasCounter), ~(k[1] = "num" /\ HasCounter /\ sys.cnt.chosen)
      PROVE  CountChange(s, k, old, new) = s
  BY <1>0, <1>4, Zenon DEF CountChange
<1>. QED
  BY <1>1, <1>2, <1>3, <1>4

LEMMA CountChangeExact ==
    ASSUME sys \in Systems, Additive(sys), NEW s, Counted(sys, s), s.ok, NEW k \in DOMAIN s.diff,
           NEW u, u = Popped(s, k), NEW t, t = CountChange(u, k, s.diff[k].old, s.diff[k].new)
    PROVE  Counted(sys, t) /\ \A j \in Ks(sys) : t.dom[j] \subseteq s.dom[j]
<1>0. /\ Shaped(sys, s) /\ Shaped(sys, u) /\ u.dom = s.dom
      /\ HasCounter <=> "cnt" \in sys.choices
      /\ HasCounter => Exact(sys, s) /\ Adds(sys)
  BY PoppedIs DEF Counted, Additive, Adds, HasCounter
<1>1. k \in Keys(sys)
  <2>1. PICK D \in SUBSET Keys(sys) : s.diff \in [D -> [old : Doms, new : Doms]]
    BY <1>0 DEF Shaped, SpaceStates, Diffs
  <2>. QED
    BY <2>1
<1>2. CASE k = Cnt
  <2>1. k[1] = "cnt" /\ "cnt" \in sys.choices /\ \A o : k # FlagKey(o) /\ k # NumKey(o)
    BY <1>1, <1>2, InstanceShape DEF Cnt, FlagKey, NumKey, Keys
  <2>2. Exact(sys, u)
    BY <1>0, <2>1, PopOther
  <2>3. t = RestrictCounter(u)
    BY <2>1, CountChangeIs
  <2>4. Narrowed(sys, u, t)
    BY <1>0, <2>1, <2>3, RestrictCounterNarrows
  <2>5. Counted(sys, u)
    BY <1>0, <2>2 DEF Counted
  <2>. QED
    BY <1>0, <2>4, <2>5, CountedNarrowed DEF Narrowed
<1>3. CASE k \in Ks(sys)
  <2>0. k[1] \in {"flag", "num", "rel"}
    BY <1>3, InstanceShape
  <2>1. CASE k[1] = "flag" /\ HasCounter
    <3>1. PICK o \in 1 .. sys.objs : k = FlagKey(o) /\ k[2] = <<o>>
      BY <1>3, <2>1, InstanceShape DEF FlagKey
    <3>2. t = IncrCounter(u, o, s.diff[k].old, s.diff[k].new)
      BY <2>1, <3>1, CountChangeIs
    <3>3. Recounted(sys, u, t) /\ Tallied(sys, t)
      BY <1>0, <2>1, <3>1, <3>2, IncrExact
    <3>. QED
      BY <1>0, <3>3 DEF Recounted, Counted, Exact
  <2>2. CASE k[1] = "num" /\ HasCounter /\ sys.cnt.chosen
    <3>1. PICK o \in 1 .. sys.objs : k = NumKey(o) /\ k[2] = <<o>>
      BY <1>3, <2>2, InstanceShape DEF NumKey
    <3>2. t = UpdateCounter(u, o, s.diff[k].old, s.diff[k].new)
      BY <2>2, <3>1, CountChangeIs
    <3>3. Recounted(sys, u, t) /\ Tallied(sys, t)
      BY <1>0, <2>2, <3>1, <3>2, UpdateExact
    <3>. QED
      BY <1>0, <3>3 DEF Recounted, Counted, Exact
  <2>3. CASE ~(k[1] = "flag" /\ HasCounter) /\ ~(k[1] = "num" /\ HasCounter /\ sys.cnt.chosen)
    <3>1. t = u
      BY <2>0, <2>3, CountChangeIs
    <3>2. HasCounter => \A o \in 1 .. sys.objs : k # FlagKey(o) /\ (sys.cnt.chosen => k # NumKey(o))
      BY <2>3 DEF FlagKey, NumKey
    <3>3. HasCounter => Exact(sys, t)
      BY <1>0, <3>1, <3>2, PopOther
    <3>. QED
      BY <1>0, <3>1, <3>3 DEF Counted
  <2>. QED
    BY <2>1, <2>2, <2>3
<1>. QED
  BY <1>1, <1>2, <1>3 DEF Keys

LEMMA OnChangeExact ==
    ASSUME sys \in Systems, Additive(sys), sys.trigger = {}, FiltersTyped,
           NEW s, Counted(sys, s), s.ok, NEW k \in DOMAIN s.diff,
           NEW t, t = OnChange(Popped(s, k), k, s.diff[k].old, s.diff[k].new)
    PROVE  Counted(sys, t)
<1>. SUFFICES ASSUME NEW u, u = Popped(s, k), NEW v, v = CountChange(u, k, s.diff[k].old, s.diff[k].new),
                     NEW w, w = FilterReaders(v, k)
              PROVE  Counted(sys, t)
  OBVIOUS
<1>1. Counted(sys, v)
  BY CountChangeExact
<1>2. Narrowed(sys, v, w)
  BY <1>1, FilterReadersNarrows DEF Counted
<1>3. t = FireTrigger(w, k, s.diff[k].old, s.diff[k].new)
  BY DEF OnChange
<1>4. t = w
  <2>1. ~TriggerFires(s.diff[k].old, s.diff[k].new)
    BY IsDef DEF TriggerFires
  <2>. QED
    BY <1>3, <2>1 DEF FireTrigger
<1>. QED
  BY <1>1, <1>2, <1>4, CountedNarrowed

-----------------------------------------------------------------------------
(* init_domain                                                               *)

Quiet(y, s) == Shaped(y, s) /\ s.diff = NoDiff

LEMMA QuietOld ==
    ASSUME NEW y, NEW s, Quiet(y, s), NEW k
    PROVE  OldDomain(s, k) = s.dom[k]
BY DEF Quiet, OldDomain, NoDiff

LEMMA NoDiffTyped ==
    ASSUME NEW y
    PROVE  NoDiff \in Diffs(y) /\ DOMAIN NoDiff = {}
<1>1. {} \in SUBSET Keys(y) /\ NoDiff \in [{} -> [old : Doms, new : Doms]]
  BY DEF NoDiff
<1>. QED
  BY <1>1 DEF Diffs, NoDiff

LEMMA QuietState ==
    ASSUME NEW y, NEW dom \in [Keys(y) -> Doms], NEW ok \in BOOLEAN,
           \A k \in Ks(y) : dom[k] \subseteq Full(k[1]) /\ (ok => dom[k] # {}),
           NEW s, s = [dom |-> dom, diff |-> NoDiff, objs |-> y.objs, ok |-> ok]
    PROVE  Quiet(y, s) /\ s.dom = dom /\ s.ok = ok
<1>1. s \in SpaceStates(y) /\ s.dom = dom /\ s.ok = ok /\ s.diff = NoDiff
  BY NoDiffTyped DEF SpaceStates
<1>. QED
  BY <1>1, NoDiffTyped DEF Quiet, Shaped

LEMMA OrderedTyped ==
    ASSUME NEW y \in Systems
    PROVE  OrderedInstances(Ks(y)) \in Seq(Ks(y))
<1>. SUFFICES ASSUME NEW S, S = Ks(y) PROVE OrderedInstances(S) \in Seq(S)
  OBVIOUS
<1>. DEFINE part(i) == {k \in S : k[1] = ChoiceOrder[i]}
            sq == [i \in DOMAIN ChoiceOrder |-> SetToSeq(part(i))]
<1>1. \A i : SetToSeq(part(i)) \in Seq(S)
  <2>. SUFFICES ASSUME NEW i PROVE SetToSeq(part(i)) \in Seq(S)
    OBVIOUS
  <2>1. IsFiniteSet(part(i)) /\ part(i) \subseteq S
    BY FiniteKs, FS_Subset
  <2>. HIDE DEF part
  <2>2. SetToSeq(part(i)) \in Seq(part(i))
    BY <2>1, SetToSeqOf
  <2>. QED
    BY <2>1, <2>2, SeqMonotonic
<1>2. DOMAIN ChoiceOrder = 1 .. 4
  BY DEF ChoiceOrder
<1>3. OrderedInstances(S) = FlattenSeq(sq)
  BY DEF OrderedInstances
<1>. HIDE DEF part
<1>4. sq \in Seq(Seq(S))
  <2>1. sq = [i \in 1 .. 4 |-> sq[i]] /\ \A i \in 1 .. 4 : sq[i] \in Seq(S)
    BY <1>1, <1>2
  <2>. HIDE DEF sq
  <2>. QED
    BY <2>1
<1>. HIDE DEF sq
<1>. QED
  BY <1>3, <1>4, Flattened

LEMMA RunFiltersQuiet ==
    ASSUME sys \in Systems, NEW s, Quiet(sys, s), NEW k \in Ks(sys), NEW t, t = RunFilters(s, k)
    PROVE  Quiet(sys, t)
<1>1. CASE ~s.ok
  BY <1>1 DEF RunFilters
<1>2. CASE s.ok
  <2>. SUFFICES ASSUME NEW d, d = s.dom[k] \cap FilterOf(s, k[1], k[2]) PROVE Quiet(sys, t)
    OBVIOUS
  <2>1. t = [s EXCEPT !.dom[k] = d, !.ok = d # {}]
    BY <1>2 DEF RunFilters, Narrow
  <2>2. /\ s.dom \in [Keys(sys) -> Doms] /\ s.diff = NoDiff /\ s.objs = sys.objs
        /\ s = [dom |-> s.dom, diff |-> s.diff, objs |-> s.objs, ok |-> s.ok]
        /\ \A j \in Ks(sys) : s.dom[j] \subseteq Full(j[1]) /\ s.dom[j] # {}
    BY <1>2, StateIs DEF Quiet, Shaped
  <2>3. d \in SUBSET Full(k[1]) /\ Ks(sys) \subseteq Keys(sys)
    BY <2>2 DEF Keys
  <2>4. d \in Doms
    BY <2>3, DomainsAreDoms
  <2>. SUFFICES ASSUME NEW dom, dom = [s.dom EXCEPT ![k] = d], NEW ok \in BOOLEAN, ok <=> d # {},
                       t = [dom |-> dom, diff |-> NoDiff, objs |-> sys.objs, ok |-> ok]
                PROVE  Quiet(sys, t)
    BY <2>1, <2>2, Zenon
  <2>5. dom \in [Keys(sys) -> Doms]
    BY <2>2, <2>4
  <2>6. \A j \in Ks(sys) : dom[j] \subseteq Full(j[1]) /\ (ok => dom[j] # {})
    BY <2>2, <2>3
  <2>. QED
    BY <2>5, <2>6, QuietState, ZenonT(60)
<1>. QED
  BY <1>1, <1>2

\* The state init_domain starts from.
Initial ==
    [dom |-> [k \in EnumInstances \cup (IF HasCounter THEN {Cnt} ELSE {}) |->
                IF k = Cnt THEN Diff(0, U32Max) ELSE Full(k[1])],
     diff |-> NoDiff, objs |-> objs, ok |-> TRUE]

LEMMA InitialQuiet ==
    ASSUME sys \in Systems, objs = sys.objs, EnumValues # {}
    PROVE  /\ Quiet(sys, Initial) /\ Initial.ok = TRUE
           /\ \A k \in Ks(sys) : Initial.dom[k] = Full(k[1])
<1>. DEFINE dom0 == [k \in EnumInstances \cup (IF HasCounter THEN {Cnt} ELSE {}) |->
                       IF k = Cnt THEN Diff(0, U32Max) ELSE Full(k[1])]
<1>0. EnumInstances = Ks(sys) /\ Keys(sys) = EnumInstances \cup (IF HasCounter THEN {Cnt} ELSE {})
  BY DEF EnumInstances, Ks, Keys, HasCounter
<1>1. \A k \in Ks(sys) : k # Cnt /\ Full(k[1]) # {}
  <2>1. NumUniverse \in Seq(U32) /\ Len(NumUniverse) \in Nat /\ Len(NumUniverse) >= 1
    BY UniverseAssumption, Constants
  <2>2. NumUniverse[1] \in Range(NumUniverse)
    BY <2>1 DEF Range
  <2>. QED
    BY <2>2, FullTypes, InstanceShape
<1>2. \A k \in Ks(sys) : Full(k[1]) \in Doms
  BY DomainsAreDoms
<1>3. Diff(0, U32Max) \in Doms
  BY Constants DEF Doms, Diff
<1>4. dom0 \in [Keys(sys) -> Doms]
  <2>1. \A k \in Keys(sys) : k \in Ks(sys) \/ k = Cnt
    BY DEF Keys
  <2>2. \A k \in Keys(sys) : (IF k = Cnt THEN Diff(0, U32Max) ELSE Full(k[1])) \in Doms
    BY <1>2, <1>3, <2>1
  <2>. QED
    BY <1>0, <2>2
<1>5. \A k \in Ks(sys) : dom0[k] = Full(k[1])
  BY <1>0, <1>1
<1>. SUFFICES ASSUME NEW d \in [Keys(sys) -> Doms], d = dom0, NEW v, v = Initial
              PROVE  Quiet(sys, v) /\ v.ok = TRUE /\ \A k \in Ks(sys) : v.dom[k] = Full(k[1])
  BY <1>4
<1>6. v = [dom |-> d, diff |-> NoDiff, objs |-> sys.objs, ok |-> TRUE]
  BY DEF Initial
<1>7. \A k \in Ks(sys) : d[k] \subseteq Full(k[1]) /\ (TRUE => d[k] # {})
  BY <1>1, <1>5
<1>8. v.dom = d /\ v.ok = TRUE
  BY <1>6
<1>9. \A k \in Ks(sys) : v.dom[k] = Full(k[1])
  BY <1>5, <1>8
<1>. HIDE DEF dom0
<1>10. Quiet(sys, v)
  BY <1>6, <1>7, QuietState
<1>. QED
  BY <1>8, <1>9, <1>10

LEMMA InitFilterQuiet ==
    ASSUME sys \in Systems, objs = sys.objs, EnumValues # {}
    PROVE  Quiet(sys, InitFilter)
<1>. DEFINE z == Initial
            seq == OrderedInstances(EnumInstances)
            B == {v \in SpaceStates(sys) : Quiet(sys, v)}
<1>0. EnumInstances = Ks(sys)
  BY DEF EnumInstances, Ks
<1>1. seq \in Seq(Ks(sys))
  BY <1>0, OrderedTyped
<1>3. z \in B
  BY InitialQuiet DEF Quiet, Shaped
<1>4. InitFilter = Loop("run_filters", z, z, seq)
  BY RunFiltersLoop DEF InitFilter, Initial
<1>5. ASSUME NEW i \in DOMAIN seq, NEW v \in B PROVE Body("run_filters", z, v, seq[i]) \in B
  <2>. SUFFICES ASSUME NEW u, u = RunFilters(v, seq[i]) PROVE u \in B
    BY DEF Body
  <2>1. seq[i] \in Ks(sys)
    <3>. HIDE DEF seq
    <3>. QED
      BY <1>1
  <2>2. Quiet(sys, u)
    BY <2>1, RunFiltersQuiet
  <2>. QED
    BY <2>2 DEF Quiet, Shaped
<1>. HIDE DEF z, seq, B
<1>6. StaysIn("run_filters", z, seq, B)
  BY <1>5 DEF StaysIn
<1>7. Len(seq) \in Nat /\ DOMAIN seq = 1 .. Len(seq)
  BY <1>1
<1>8. InitFilter \in B
  BY <1>3, <1>4, <1>6, <1>7, LoopStays
<1>. QED
  BY <1>8 DEF B

\* The counter has been computed on domains that may have been restricted since.
CountedWide(y, s) ==
    \E w : /\ Quiet(y, w) /\ Tally(y.objs, CountBase(y), Shares(y, w), s.dom[Cnt])
           /\ \A k \in Ks(y) : s.dom[k] \subseteq w.dom[k]

LEMMA InitCounterQuiet ==
    ASSUME sys \in Systems, Additive(sys), NEW s, Quiet(sys, s), NEW t, t = InitCounter(s)
    PROVE  /\ Quiet(sys, t) /\ ("cnt" \in sys.choices /\ t.ok => CountedWide(sys, t))
           /\ (\A k \in Ks(sys) : t.dom[k] \subseteq s.dom[k]) /\ (t.ok => s.ok)
<1>1. CASE ~HasCounter \/ ~s.ok
  <2>1. t = s
    BY <1>1 DEF InitCounter
  <2>. QED
    BY <1>1, <2>1 DEF HasCounter
<1>2. CASE HasCounter /\ s.ok
  <2>. SUFFICES ASSUME NEW r, r = ComputeCounter(s), NEW w, w = [s EXCEPT !.dom[Cnt] = r], NEW u, u = RestrictCounter(w)
                PROVE  /\ Quiet(sys, t) /\ ("cnt" \in sys.choices /\ t.ok => CountedWide(sys, t))
                       /\ (\A k \in Ks(sys) : t.dom[k] \subseteq s.dom[k]) /\ (t.ok => s.ok)
    OBVIOUS
  <2>0. /\ "cnt" \in sys.choices /\ Adds(sys) /\ Cnt \in Keys(sys) /\ Ks(sys) \subseteq Keys(sys)
        /\ \A k \in Ks(sys) : k # Cnt
    BY <1>2, InstanceShape DEF HasCounter, Additive, Adds, Keys
  <2>1. /\ s.dom \in [Keys(sys) -> Doms] /\ s.diff = NoDiff /\ s.objs = sys.objs /\ sys.objs \in Nat
        /\ s = [dom |-> s.dom, diff |-> s.diff, objs |-> s.objs, ok |-> s.ok]
        /\ \A j \in Ks(sys) : s.dom[j] \subseteq Full(j[1]) /\ s.dom[j] # {}
    BY <1>2, StateIs, SystemsAssumption DEF Quiet, Shaped
  <2>2. Tally(sys.objs, CountBase(sys), Shares(sys, s), r)
    BY <2>0, <2>1, ComputeIs
  <2>3. r \in Ranges /\ r \in Doms
    BY <2>1, <2>2, TallyType, RangesAreDoms
  <2>4. Quiet(sys, w) /\ w.dom[Cnt] = r /\ \A k \in Ks(sys) : w.dom[k] = s.dom[k]
    <3>. SUFFICES ASSUME NEW dom, dom = [s.dom EXCEPT ![Cnt] = r],
                         w = [dom |-> dom, diff |-> NoDiff, objs |-> sys.objs, ok |-> TRUE]
                  PROVE  Quiet(sys, w) /\ w.dom[Cnt] = r /\ \A k \in Ks(sys) : w.dom[k] = s.dom[k]
      BY <1>2, <2>1
    <3>1. dom \in [Keys(sys) -> Doms] /\ dom[Cnt] = r /\ \A k \in Ks(sys) : dom[k] = s.dom[k]
      BY <2>0, <2>1, <2>3
    <3>2. \A k \in Ks(sys) : dom[k] \subseteq Full(k[1]) /\ (TRUE => dom[k] # {})
      BY <2>1, <3>1
    <3>3. Quiet(sys, w) /\ w.dom = dom
      BY <3>1, <3>2, QuietState
    <3>. QED
      BY <3>1, <3>3
  <2>5. Shares(sys, w) = Shares(sys, s)
    <3>1. \A k \in Ks(sys) : OldDomain(w, k) = w.dom[k] /\ OldDomain(s, k) = s.dom[k]
      BY <2>4, QuietOld
    <3>2. \A k \in Ks(sys) : OldDomain(w, k) = OldDomain(s, k)
      BY <2>4, <3>1
    <3>. QED
      BY <2>0, <3>2, SharesSame
  <2>6. Narrowed(sys, w, u)
    BY <2>0, <2>4, RestrictCounterNarrows DEF Quiet
  <2>7. t = Undo(u)
    BY <1>2 DEF InitCounter
  <2>8. /\ u.dom \in [Keys(sys) -> Doms] /\ u.ok \in BOOLEAN /\ u.objs = sys.objs
        /\ u = [dom |-> u.dom, diff |-> u.diff, objs |-> u.objs, ok |-> u.ok]
        /\ \A j \in Ks(sys) : u.dom[j] \subseteq Full(j[1]) /\ (u.ok => u.dom[j] # {})
    BY <2>6, StateIs DEF Narrowed, Shaped
  <2>9. Quiet(sys, t) /\ t.dom = u.dom /\ t.ok = u.ok
    <3>1. t = [dom |-> u.dom, diff |-> NoDiff, objs |-> sys.objs, ok |-> u.ok]
      BY <2>7, <2>8 DEF Undo
    <3>. QED
      BY <2>8, <3>1, QuietState
  <2>10. u.dom[Cnt] = r /\ \A k \in Ks(sys) : u.dom[k] \subseteq w.dom[k]
    BY <2>0, <2>4, <2>6 DEF Narrowed
  <2>11. CountedWide(sys, t)
    BY <2>2, <2>4, <2>5, <2>9, <2>10 DEF CountedWide
  <2>. QED
    BY <1>2, <2>4, <2>9, <2>10, <2>11
<1>. QED
  BY <1>1, <1>2


\* A counter without a maximum keeps the one it started from.
LEMMA HalfTally ==
    ASSUME NEW y \in Systems, "cnt" \in y.choices, Half(y), NEW s, NEW r,
           Tally(y.objs, CountBase(y), Shares(y, s), r)
    PROVE  r.max = U32Max
<1>. SUFFICES ASSUME NEW n, n = y.objs, NEW c, c = Shares(y, s) PROVE r.max = U32Max
  OBVIOUS
<1>1. PICK g : Sums(n, CountBase(y), c, g) /\ r = g[1 .. n]
  BY DEF Tally
<1>2. n \in Nat /\ IsFiniteSet(1 .. n)
  BY SystemsAssumption, FS_Interval
<1>3. c \in [1 .. n -> Ranges] /\ \A x \in 1 .. n : c[x].max = 0
  BY SharesType DEF Shares, Share, Diff
<1>. DEFINE P == {T \in SUBSET (1 .. n) : g[T].max = U32Max}
<1>4. ASSUME NEW T \in SUBSET (1 .. n), \A x \in T : T \ {x} \in P PROVE T \in P
  <2>1. CASE T = {}
    BY <1>1, <2>1 DEF Sums, CountBase, Diff
  <2>2. CASE T # {}
    <3>1. PICK x \in T : TRUE
      BY <2>2
    <3>2. T \ {x} \in SUBSET (1 .. n) /\ x \in 1 .. n
      OBVIOUS
    <3>3. g[T] = Plus(g[T \ {x}], c[x]) /\ g[T \ {x}] \in Ranges
      BY <1>1, <3>2 DEF Sums
    <3>4. g[T].max = g[T \ {x}].max + c[x].max
      BY <1>3, <3>2, <3>3, PlusIs
    <3>5. g[T \ {x}].max = U32Max
      BY <1>4
    <3>. QED
      BY <1>3, <3>2, <3>4, <3>5, Constants
  <2>. QED
    BY <2>1, <2>2
<1>5. \A T \in SUBSET (1 .. n) : (\A x \in T : T \ {x} \in P) => T \in P
  BY <1>4
<1>. HIDE DEF P
<1>6. \A T \in SUBSET (1 .. n) : T \in P
  BY <1>2, <1>5, OverSubsets
<1>7. 1 .. n \in P
  BY <1>6
<1>. QED
  BY <1>1, <1>7 DEF P

-----------------------------------------------------------------------------
(* The actions of init_domain.                                               *)

Acts(y) == [k : Ks(y), values : SUBSET (EnumValues \cup Range(NumUniverse))]

Extended(y, acts, res) == res = acts \/ \E a \in Acts(y) : res = Append(acts, a)

LEMMA DelayedTyped ==
    ASSUME NEW y \in Systems, NEW init, Shaped(y, init), NEW acts, NEW k \in Ks(y), NEW values,
           NEW res, res = Delayed(init, acts, k[1], k[2], values)
    PROVE  Extended(y, acts, res)
<1>1. k = <<k[1], k[2]>>
  BY InstanceShape
<1>2. init.dom[k] \subseteq EnumValues \cup Range(NumUniverse)
  BY FullTypes DEF Shaped
<1>3. ChoiceAct(k, values \cap init.dom[k]) \in Acts(y)
  BY <1>2 DEF ChoiceAct, Acts
<1>. QED
  BY <1>1, <1>3 DEF Delayed, Extended

LEMMA FilterActionsTyped ==
    ASSUME NEW y \in Systems, NEW init, Shaped(y, init), NEW ks \in Seq(Ks(y))
    PROVE  FilterActions(init, ks) \in Seq(Acts(y))
<1>. DEFINE B == Seq(Acts(y))
<1>1. ASSUME NEW i \in DOMAIN ks, NEW v \in B PROVE Body("filter_delayed", init, v, ks[i]) \in B
  <2>. SUFFICES ASSUME NEW k, k = ks[i], NEW values, values = FilterOf(init, k[1], k[2]),
                       NEW res, res = Delayed(init, v, k[1], k[2], values)
                PROVE  res \in B
    BY DEF Body
  <2>1. k \in Ks(y)
    OBVIOUS
  <2>2. Extended(y, v, res)
    BY <2>1, DelayedTyped
  <2>. QED
    BY <2>2 DEF Extended
<1>2. Len(ks) \in Nat /\ DOMAIN ks = 1 .. Len(ks) /\ <<>> \in B
  OBVIOUS
<1>. HIDE DEF B
<1>3. StaysIn("filter_delayed", init, ks, B)
  BY <1>1 DEF StaysIn
<1>4. FilterActions(init, ks) \in B
  BY <1>2, <1>3, FilterDelayedLoop, LoopStays
<1>. QED
  BY <1>4 DEF B

\* The actions restrict choices, except the one at p, if p is not zero.
AnyActs(y) == [k : Keys(y), values : Doms]
Positioned(y, p, a, v) ==
    /\ v \in Seq(AnyActs(y)) /\ p \in 0 .. Len(v)
    /\ \A i \in 1 .. Len(v) : IF i = p THEN v[i] = a ELSE v[i] \in Acts(y)

LEMMA ActsAreActs ==
    ASSUME NEW y
    PROVE  Acts(y) \subseteq AnyActs(y)
BY DEF Acts, AnyActs, Keys, Doms

LEMMA PositionedAppend ==
    ASSUME NEW y, NEW p, NEW a, NEW v, Positioned(y, p, a, v), NEW b \in Acts(y)
    PROVE  Positioned(y, p, a, Append(v, b))
<1>. SUFFICES ASSUME NEW u, u = Append(v, b) PROVE Positioned(y, p, a, u)
  OBVIOUS
<1>0. v \in Seq(AnyActs(y)) /\ p \in 0 .. Len(v) /\ \A i \in 1 .. Len(v) : IF i = p THEN v[i] = a ELSE v[i] \in Acts(y)
  BY DEF Positioned
<1>1. b \in AnyActs(y)
  BY ActsAreActs
<1>2. /\ u \in Seq(AnyActs(y)) /\ Len(u) = Len(v) + 1 /\ Len(v) \in Nat
      /\ \A i \in 1 .. Len(v) : u[i] = v[i]
      /\ u[Len(v) + 1] = b
  BY <1>0, <1>1
<1>3. \A i \in 1 .. Len(u) : IF i = p THEN u[i] = a ELSE u[i] \in Acts(y)
  <2>. SUFFICES ASSUME NEW i \in 1 .. Len(u) PROVE IF i = p THEN u[i] = a ELSE u[i] \in Acts(y)
    OBVIOUS
  <2>1. i \in 1 .. Len(v) \/ i = Len(v) + 1
    BY <1>2
  <2>2. i = Len(v) + 1 => i # p
    BY <1>0, <1>2
  <2>. QED
    BY <1>0, <1>2, <2>1, <2>2
<1>. QED
  BY <1>0, <1>2, <1>3 DEF Positioned

LEMMA PositionedAfter ==
    ASSUME NEW y, NEW w \in Seq(Acts(y)), NEW p, NEW a, NEW v, Positioned(y, p, a, v)
    PROVE  \E q : Positioned(y, q, a, w \o v) /\ (q = 0 <=> p = 0)
<1>. SUFFICES ASSUME NEW u, u = w \o v PROVE \E q : Positioned(y, q, a, u) /\ (q = 0 <=> p = 0)
  OBVIOUS
<1>. DEFINE q == IF p = 0 THEN 0 ELSE Len(w) + p
<1>0. v \in Seq(AnyActs(y)) /\ p \in 0 .. Len(v) /\ \A i \in 1 .. Len(v) : IF i = p THEN v[i] = a ELSE v[i] \in Acts(y)
  BY DEF Positioned
<1>1. w \in Seq(AnyActs(y)) /\ \A i \in 1 .. Len(w) : w[i] \in Acts(y)
  BY ActsAreActs, SeqMonotonic
<1>2. /\ u \in Seq(AnyActs(y)) /\ Len(u) = Len(w) + Len(v) /\ Len(v) \in Nat /\ Len(w) \in Nat
      /\ \A i \in 1 .. Len(u) : u[i] = IF i <= Len(w) THEN w[i] ELSE v[i - Len(w)]
  BY <1>0, <1>1
<1>3. q \in 0 .. Len(u) /\ (q = 0 <=> p = 0)
  BY <1>0, <1>2
<1>4. \A i \in 1 .. Len(u) : IF i = q THEN u[i] = a ELSE u[i] \in Acts(y)
  <2>. SUFFICES ASSUME NEW i \in 1 .. Len(u) PROVE IF i = q THEN u[i] = a ELSE u[i] \in Acts(y)
    OBVIOUS
  <2>1. CASE i <= Len(w)
    <3>1. i \in 1 .. Len(w) /\ i # q
      BY <1>0, <1>2, <2>1
    <3>. QED
      BY <1>1, <1>2, <2>1, <3>1
  <2>2. CASE ~(i <= Len(w))
    <3>1. i - Len(w) \in 1 .. Len(v) /\ (i = q <=> i - Len(w) = p)
      BY <1>0, <1>2, <2>2
    <3>2. u[i] = v[i - Len(w)]
      BY <1>2, <2>2
    <3>. QED
      BY <1>0, <3>1, <3>2
  <2>. QED
    BY <2>1, <2>2
<1>. HIDE DEF q
<1>. QED
  BY <1>2, <1>3, <1>4 DEF Positioned

LEMMA CounterActionsTyped ==
    ASSUME sys \in Systems, "cnt" \in sys.choices, objs = sys.objs, NEW init, Shaped(sys, init),
           NEW d, d = GetDiff(init.dom[Cnt], ComputeCounter(init)), d \in Ranges
    PROVE  \E p : /\ Positioned(sys, p, ChoiceAct(Cnt, d), CounterActions(init))
                  /\ p = 0 <=> ComputeCounter(init) = init.dom[Cnt]
<1>. DEFINE a == ChoiceAct(Cnt, d)
            p == IF ComputeCounter(init) = init.dom[Cnt] THEN 0 ELSE 1
            pre == IF ComputeCounter(init) = init.dom[Cnt] THEN <<>> ELSE <<a>>
            B == {v \in Seq(AnyActs(sys)) : Positioned(sys, p, a, v)}
            ns == [o \in 1 .. objs |-> o]
<1>0. objs \in Nat /\ DOMAIN ns = 1 .. objs
  BY SystemsAssumption
<1>1. pre \in B
  <2>1. a \in AnyActs(sys)
    BY RangesAreDoms DEF ChoiceAct, AnyActs, Keys
  <2>. HIDE DEF a
  <2>2. <<>> \in Seq(AnyActs(sys)) /\ Len(<<>>) = 0 /\ <<a>> \in Seq(AnyActs(sys)) /\ Len(<<a>>) = 1 /\ <<a>>[1] = a
    BY <2>1
  <2>3. Positioned(sys, 0, a, <<>>)
    BY <2>2 DEF Positioned
  <2>4. Positioned(sys, 1, a, <<a>>)
    BY <2>2 DEF Positioned
  <2>. QED
    BY <2>2, <2>3, <2>4
<1>2. ASSUME NEW i \in DOMAIN ns, NEW v \in B PROVE Body("counter_delayed", init, v, ns[i]) \in B
  <2>. SUFFICES ASSUME NEW o, o = ns[i], NEW u, u = Body("counter_delayed", init, v, o) PROVE u \in B
    OBVIOUS
  <2>1. o \in 1 .. sys.objs
    BY <1>0
  <2>2. FlagKey(o) \in Ks(sys) /\ (sys.cnt.chosen => NumKey(o) \in Ks(sys))
    BY <2>1, SystemsAssumption, ObjectInstances DEF FlagKey, NumKey
  <2>3. \/ u = v
        \/ \E values : u = Delayed(init, v, "flag", <<o>>, values)
        \/ sys.cnt.chosen /\ \E values : u = Delayed(init, v, "num", <<o>>, values)
    <3>. HIDE DEF B, a, p, pre, ns
    <3>. QED
      BY DEF Body, CounterStep
  <2>4. Extended(sys, v, u)
    <3>1. FlagKey(o)[1] = "flag" /\ FlagKey(o)[2] = <<o>> /\ NumKey(o)[1] = "num" /\ NumKey(o)[2] = <<o>>
      BY DEF FlagKey, NumKey
    <3>. HIDE DEF B, a, p, pre, ns
    <3>2. ASSUME NEW values, u = Delayed(init, v, "flag", <<o>>, values) 
          PROVE  Extended(sys, v, u)
      <4>. SUFFICES ASSUME NEW k \in Ks(sys), u = Delayed(init, v, k[1], k[2], values)
                    PROVE  Extended(sys, v, u)
        BY <2>2, <3>1, <3>2
      <4>. QED
        BY DelayedTyped
    <3>3. ASSUME sys.cnt.chosen, NEW values, u = Delayed(init, v, "num", <<o>>, values)
          PROVE  Extended(sys, v, u)
      <4>. SUFFICES ASSUME NEW k \in Ks(sys), u = Delayed(init, v, k[1], k[2], values)
                    PROVE  Extended(sys, v, u)
        BY <2>2, <3>1, <3>3
      <4>. QED
        BY DelayedTyped
    <3>. QED
      BY <2>3, <3>2, <3>3 DEF Extended
  <2>5. Positioned(sys, p, a, u)
    <3>. HIDE DEF a, p, ns
    <3>. QED
      BY <2>4, PositionedAppend DEF Extended
  <2>. QED
    BY <2>5 DEF Positioned
<1>3. CounterActions(init) = Loop("counter_delayed", init, pre, ns)
  BY CounterDelayedLoop
<1>. HIDE DEF B, pre, ns, a
<1>4. StaysIn("counter_delayed", init, ns, B)
  BY <1>2 DEF StaysIn
<1>5. CounterActions(init) \in B
  BY <1>0, <1>1, <1>3, <1>4, LoopStays
<1>6. Positioned(sys, p, a, CounterActions(init)) /\ (p = 0 <=> ComputeCounter(init) = init.dom[Cnt])
  BY <1>5 DEF B
<1>. HIDE DEF p
<1>. QED
  BY <1>6 DEF a

LEMMA ActNarrows ==
    ASSUME sys \in Systems, NEW s, Shaped(sys, s), NEW a \in Acts(sys), NEW t, t = ApplyAction(s, a)
    PROVE  Narrowed(sys, s, t)
<1>0. a.k \in Ks(sys) /\ a.k # Cnt
  BY InstanceShape DEF Acts
<1>1. CASE ~s.ok
  <2>1. t = s
    BY <1>1 DEF ApplyAction
  <2>. QED
    BY <2>1, NarrowedSelf
<1>2. CASE s.ok
  <2>1. t = RestrictChoice(s, a.k[1], a.k[2], a.values)
    BY <1>0, <1>2 DEF ApplyAction
  <2>. QED
    BY <1>0, <2>1, RestrictNarrows
<1>. QED
  BY <1>1, <1>2

\* Without counter the actions only restrict.
LEMMA ActsShaped ==
    ASSUME sys \in Systems, NEW s, Shaped(sys, s), NEW acts \in Seq(Acts(sys)), NEW t, t = FoldLeft(ApplyAction, s, acts)
    PROVE  Shaped(sys, t)
<1>. DEFINE B == {v \in SpaceStates(sys) : Shaped(sys, v)}
<1>1. ASSUME NEW i \in DOMAIN acts, NEW v \in B PROVE Body("apply_action", s, v, acts[i]) \in B
  <2>. SUFFICES ASSUME NEW u, u = ApplyAction(v, acts[i]) PROVE u \in B
    BY DEF Body
  <2>1. acts[i] \in Acts(sys)
    OBVIOUS
  <2>2. Narrowed(sys, v, u)
    BY <2>1, ActNarrows
  <2>. QED
    BY <2>2 DEF Narrowed, Shaped
<1>2. s \in B /\ Len(acts) \in Nat /\ DOMAIN acts = 1 .. Len(acts)
  BY DEF Shaped
<1>. HIDE DEF B
<1>3. StaysIn("apply_action", s, acts, B)
  BY <1>1 DEF StaysIn
<1>4. t = Loop("apply_action", s, s, acts)
  BY ApplyActionLoop
<1>5. t \in B
  BY <1>2, <1>3, <1>4, LoopStays
<1>. QED
  BY <1>5 DEF B

\* The action on the counter brings it to what the filtered domains say.
LEMMA CountActIs ==
    ASSUME sys \in Systems, Adds(sys), NEW s, Shaped(sys, s), s.ok, s.dom[Cnt] \in Ranges, NEW d \in Ranges,
           NEW t, t = ApplyAction(s, ChoiceAct(Cnt, d))
    PROVE  /\ Recounted(sys, s, t) /\ t.dom[Cnt] \in Ranges
           /\ t.dom[Cnt].min = s.dom[Cnt].min + d.min
           /\ t.dom[Cnt].max = IF Half(sys) THEN s.dom[Cnt].max ELSE s.dom[Cnt].max - d.max
<1>. SUFFICES ASSUME NEW r, r = s.dom[Cnt],
                     NEW q, q = Diff(Op(r.min, d.min), IF IsHalf THEN r.max ELSE Inv(r.max, d.max))
              PROVE  /\ Recounted(sys, s, t) /\ t.dom[Cnt] \in Ranges
                     /\ t.dom[Cnt].min = r.min + d.min
                     /\ t.dom[Cnt].max = IF Half(sys) THEN r.max ELSE r.max - d.max
  OBVIOUS
<1>1. q \in Ranges /\ q.min = r.min + d.min /\ q.max = IF Half(sys) THEN r.max ELSE r.max - d.max
  BY AddDef DEF Adds, Diff, Ranges
<1>2. t = SetCounter(s, q)
  BY DEF ApplyAction, ChoiceAct, ApplyDiff
<1>3. Recounted(sys, s, t) /\ t.dom[Cnt] = q
  BY <1>1, <1>2, SetCounterIs DEF Adds
<1>. QED
  BY <1>1, <1>3

\* Whenever the counter is brought up to date among the actions, it is exact at the end:
\* the filtered domains are the propagated ones until the diff is popped.
LEMMA ActsCounted ==
    ASSUME sys \in Systems, Adds(sys), NEW s, Quiet(sys, s), NEW r \in Ranges, r = s.dom[Cnt],
           NEW e \in Ranges, Tally(sys.objs, CountBase(sys), Shares(sys, s), e), Half(sys) => r.max = e.max,
           NEW d \in Ranges, d.min = e.min - r.min, ~Half(sys) => d.max = r.max - e.max,
           NEW p, NEW acts, Positioned(sys, p, ChoiceAct(Cnt, d), acts), p = 0 => e = r,
           NEW t, t = FoldLeft(ApplyAction, s, acts)
    PROVE  Counted(sys, t)
<1>. DEFINE n == Len(acts)
            same(v) == \A k \in Ks(sys) : OldDomain(v, k) = OldDomain(s, k)
            B == {v \in SpaceStates(sys) : Shaped(sys, v) /\ v.dom[Cnt] \in Ranges /\ same(v)}
<1>0. /\ n \in Nat /\ DOMAIN acts = 1 .. n /\ p \in 0 .. n
      /\ \A i \in 1 .. n : IF i = p THEN acts[i] = ChoiceAct(Cnt, d) ELSE acts[i] \in Acts(sys)
  BY DEF Positioned
<1>1. ASSUME NEW v \in B, NEW i \in 1 .. n, NEW u, u = ApplyAction(v, acts[i])
      PROVE  /\ u \in B /\ (u.ok => v.ok)
             /\ i # p => u.dom[Cnt] = v.dom[Cnt]
             /\ i = p /\ u.ok /\ v.dom[Cnt] = r => u.dom[Cnt] = e
  <2>0. Shaped(sys, v) /\ v.dom[Cnt] \in Ranges /\ same(v) /\ "cnt" \in sys.choices
    BY DEF Adds
  <2>a. PICK a : a = acts[i] /\ u = ApplyAction(v, a) /\ (IF i = p THEN a = ChoiceAct(Cnt, d) ELSE a \in Acts(sys))
    BY <1>0, <1>1
  <2>1. CASE i # p
    <3>1. Narrowed(sys, v, u)
      <4>1. a \in Acts(sys) /\ u = ApplyAction(v, a)
        BY <2>1, <2>a
      <4>. QED
        BY <2>0, <4>1, ActNarrows
    <3>2. Shaped(sys, u) /\ u.dom[Cnt] = v.dom[Cnt] /\ (u.ok => v.ok) /\ same(u)
      BY <2>0, <3>1 DEF Narrowed
    <3>. QED
      BY <2>0, <2>1, <3>2 DEF Shaped
  <2>2. CASE i = p /\ ~v.ok
    <3>1. u = v
      BY <2>2, <2>a, Zenon DEF ApplyAction
    <3>. QED
      BY <2>2, <3>1
  <2>3. CASE i = p /\ v.ok
    <3>1. u = ApplyAction(v, ChoiceAct(Cnt, d))
      BY <2>3, <2>a
    <3>2. /\ Recounted(sys, v, u) /\ u.dom[Cnt] \in Ranges
          /\ u.dom[Cnt].min = v.dom[Cnt].min + d.min
          /\ u.dom[Cnt].max = IF Half(sys) THEN v.dom[Cnt].max ELSE v.dom[Cnt].max - d.max
      BY <2>0, <2>3, <3>1, CountActIs
    <3>3. Shaped(sys, u) /\ same(u)
      BY <2>0, <3>2 DEF Recounted
    <3>4. ASSUME v.dom[Cnt] = r PROVE u.dom[Cnt] = e
      <4>1. u.dom[Cnt].min = e.min /\ u.dom[Cnt].max = e.max
        BY <3>2, <3>4 DEF Ranges
      <4>. QED
        BY <3>2, <4>1, SameRange
    <3>. QED
      BY <2>3, <3>2, <3>3, <3>4 DEF Shaped
  <2>. QED
    BY <2>1, <2>2, <2>3
<1>2. s \in B
  BY DEF Quiet, Shaped
<1>3. t = Loop("apply_action", s, s, acts)
  BY ApplyActionLoop
<1>4. StaysIn("apply_action", s, acts, B)
  <2>. SUFFICES ASSUME NEW i \in DOMAIN acts, NEW v \in B, NEW u, u = ApplyAction(v, acts[i]) PROVE u \in B
    BY DEF StaysIn, Body
  <2>. HIDE DEF B, n
  <2>. QED
    BY <1>0, <1>1
<1>. HIDE DEF B, n
<1>5. PICK h \in [0 .. n -> B] : Trace("apply_action", s, s, acts, n, h) /\ h[n] = t
  BY <1>0, <1>2, <1>3, <1>4, LoopTrace
<1>6. h[0] = s /\ \A i \in 1 .. n : h[i] = ApplyAction(h[i - 1], acts[i])
  BY <1>5 DEF Trace, Body
<1>. DEFINE P == {i \in 0 .. n : h[i].ok => h[i].dom[Cnt] = IF i < p THEN r ELSE e}
<1>7. 0 \in P
  BY <1>0, <1>6
<1>8. ASSUME NEW i \in 1 .. n, i - 1 \in P PROVE i \in P
  <2>. SUFFICES ASSUME NEW v \in B, v = h[i - 1], NEW u \in B, u = h[i], u.ok
                PROVE  u.dom[Cnt] = IF i < p THEN r ELSE e
    BY <1>0, <1>5
  <2>1. /\ u.ok => v.ok
        /\ i # p => u.dom[Cnt] = v.dom[Cnt]
        /\ i = p /\ u.ok /\ v.dom[Cnt] = r => u.dom[Cnt] = e
    BY <1>1, <1>6
  <2>2. v.dom[Cnt] = IF i - 1 < p THEN r ELSE e
    BY <1>8, <2>1
  <2>. QED
    BY <1>0, <2>1, <2>2
<1>9. n \in P
  <2>1. \A i \in 1 .. n : i - 1 \in P => i \in P
    BY <1>8
  <2>. HIDE DEF P
  <2>2. \A i \in 0 .. n : i \in P
    BY <1>0, <1>7, <2>1, UpTo
  <2>. QED
    BY <1>0, <2>2
<1>10. t \in B /\ (t.ok => t.dom[Cnt] = e)
  BY <1>0, <1>5, <1>9
<1>11. Shaped(sys, t) /\ same(t)
  BY <1>10 DEF B
<1>12. Shares(sys, t) = Shares(sys, s)
  BY <1>11, SharesSame DEF Adds
<1>. QED
  BY <1>10, <1>11, <1>12 DEF Counted, Exact, Tallied

\* No trigger can hold when no value of the flags calls the lowering.
LEMMA NoTriggers ==
    ASSUME sys \in Systems, objs = sys.objs, sys.trigger = {}, NEW init, NEW acts
    PROVE  InitTriggers(init, acts) = [s |-> init, acts |-> acts]
<1>. SUFFICES ASSUME NEW l, l = [s |-> init, acts |-> acts] PROVE InitTriggers(init, acts) = l
  OBVIOUS
<1>. DEFINE ns == [o \in 1 .. objs |-> o]
<1>1. objs \in Nat /\ DOMAIN ns = 1 .. objs
  BY SystemsAssumption
<1>2. InitTriggers(init, acts) = Loop("triggers", init, l, ns)
  BY TriggersLoop
<1>. HIDE DEF ns
<1>3. StaysIn("triggers", init, ns, {l})
  <2>1. \A d : Is(d, sys.trigger) # "T"
    BY IsDef
  <2>2. \A x : Body("triggers", init, l, x) = l
    BY <2>1 DEF Body
  <2>. QED
    BY <2>2 DEF StaysIn
<1>4. Loop("triggers", init, l, ns) \in {l}
  BY <1>1, <1>3, LoopStays
<1>. QED
  BY <1>2, <1>4

\* Without lowering, init_domain ends with the actions of its second round.
LEMMA InitActs ==
    ASSUME sys \in Systems, sys.trigger = {}, objs = sys.objs, NEW s, Quiet(sys, s), s.ok, ~CounterFails(s)
    PROVE  InitPropagate(s) = FoldLeft(ApplyAction, s, InitActions(s))
<1>. SUFFICES ASSUME NEW t, t = InitPropagate(s), NEW acts, acts = InitActions(s) PROVE t = FoldLeft(ApplyAction, s, acts)
  OBVIOUS
<1>1. InitTriggers(s, acts) = [s |-> s, acts |-> acts]
  BY NoTriggers
<1>2. Undo(s) = s
  <2>1. s \in SpaceStates(sys) /\ s.diff = NoDiff
    BY DEF Quiet, Shaped
  <2>2. s = [dom |-> s.dom, diff |-> s.diff, objs |-> s.objs, ok |-> s.ok]
    BY <2>1, StateIs
  <2>. QED
    BY <2>1, <2>2 DEF Undo
<1>3. t = ApplyLowered([InitTriggers(s, acts) EXCEPT !.s = Undo(@)])
  BY DEF InitPropagate
<1>4. [[s |-> s, acts |-> acts] EXCEPT !.s = Undo(@)] = [s |-> s, acts |-> acts]
  BY <1>2
<1>5. t = ApplyLowered([s |-> s, acts |-> acts])
  BY <1>1, <1>3, <1>4
<1>. QED
  BY <1>5 DEF ApplyLowered

LEMMA InitDomainCounted ==
    ASSUME sys \in Systems, Additive(sys), sys.trigger = {}, objs = sys.objs, EnumValues # {},
           NEW t, t = InitDomain
    PROVE  Counted(sys, t)
<1>. SUFFICES ASSUME NEW f, f = InitFilter, NEW s, s = InitCounter(f) PROVE Counted(sys, t)
  OBVIOUS
<1>1. Quiet(sys, f)
  BY InitFilterQuiet
<1>2. Quiet(sys, s) /\ ("cnt" \in sys.choices /\ s.ok => CountedWide(sys, s))
  BY <1>1, InitCounterQuiet
<1>3. t = InitPropagate(s)
  BY DEF InitDomain
<1>4. CASE ~s.ok
  <2>1. t = s
    BY <1>3, <1>4 DEF InitPropagate
  <2>. QED
    BY <1>2, <1>4, <2>1 DEF Quiet, Counted, Exact, Tallied
<1>5. CASE s.ok /\ CounterFails(s)
  <2>1. t = [s EXCEPT !.ok = FALSE]
    BY <1>3, <1>5 DEF InitPropagate
  <2>2. Shaped(sys, t) /\ ~t.ok
    BY <1>2, <2>1, Failed DEF Quiet, Narrowed
  <2>. QED
    BY <2>2 DEF Counted, Exact, Tallied
<1>6. CASE s.ok /\ ~CounterFails(s)
  <2>. SUFFICES ASSUME NEW acts, acts = InitActions(s) PROVE Counted(sys, t)
    OBVIOUS
  <2>3. t = FoldLeft(ApplyAction, s, acts)
    BY <1>2, <1>3, <1>6, InitActs
  <2>. SUFFICES ASSUME NEW fa, fa = FilterActions(s, OrderedInstances(EnumInstances)) PROVE Counted(sys, t)
    OBVIOUS
  <2>4. EnumInstances = Ks(sys)
    BY DEF EnumInstances, Ks
  <2>5. fa \in Seq(Acts(sys))
    <3>1. OrderedInstances(EnumInstances) \in Seq(Ks(sys))
      BY <2>4, OrderedTyped
    <3>. QED
      BY <1>2, <3>1, FilterActionsTyped DEF Quiet
  <2>6. CASE ~HasCounter
    <3>1. acts = fa
      BY <2>5, <2>6 DEF InitActions
    <3>2. Shaped(sys, t)
      BY <1>2, <2>3, <2>5, <3>1, ActsShaped DEF Quiet
    <3>. QED
      BY <2>6, <3>2 DEF Counted, HasCounter
  <2>7. CASE HasCounter
    <3>. SUFFICES ASSUME NEW r, r = s.dom[Cnt], NEW e, e = ComputeCounter(s), NEW d, d = GetDiff(r, e)
                  PROVE  Counted(sys, t)
      OBVIOUS
    <3>1. "cnt" \in sys.choices /\ Adds(sys) /\ sys.objs \in Nat /\ s.objs = sys.objs
      BY <1>2, <2>7, StateIs, SystemsAssumption DEF HasCounter, Additive, Adds, Quiet, Shaped
    <3>2. PICK w : Tally(sys.objs, CountBase(sys), Shares(sys, w), r)
      BY <1>2, <1>6, <3>1 DEF CountedWide
    <3>3. Tally(sys.objs, CountBase(sys), Shares(sys, s), e)
      BY <3>1, ComputeIs
    <3>4. r \in Ranges /\ e \in Ranges
      BY <3>1, <3>2, <3>3, TallyType
    <3>5. Half(sys) => r.max = e.max
      BY <3>1, <3>2, <3>3, HalfTally
    <3>6. d \in Ranges /\ d.min = e.min - r.min /\ (~Half(sys) => d.max = r.max - e.max)
      BY <3>1, <3>4, AddDef DEF Adds, GetDiff, Diff, Ranges
    <3>7. PICK p : Positioned(sys, p, ChoiceAct(Cnt, d), CounterActions(s)) /\ (p = 0 <=> e = r)
      BY <1>2, <3>1, <3>6, CounterActionsTyped DEF Quiet
    <3>8. acts = fa \o CounterActions(s)
      BY <2>7 DEF InitActions
    <3>9. PICK q : Positioned(sys, q, ChoiceAct(Cnt, d), acts) /\ (q = 0 <=> p = 0)
      BY <2>5, <3>7, <3>8, PositionedAfter
    <3>10. q = 0 => e = r
      BY <3>7, <3>9
    <3>. QED
      BY <1>2, <2>3, <3>1, <3>3, <3>4, <3>5, <3>6, <3>9, <3>10, ActsCounted
  <2>. QED
    BY <2>6, <2>7
<1>. QED
  BY <1>4, <1>5, <1>6

-----------------------------------------------------------------------------
(* The counter over a run.                                                   *)

\* The systems the theorem is about: those without lowering whose counter adds.
Counting == Additive(sys) /\ sys.trigger = {}

CountInv ==
    /\ sys \in Systems
    /\ Counting => /\ objs = sys.objs
                   /\ Running => FiltersTyped /\ Counted(sys, Current)

LEMMA Committed ==
    ASSUME NEW y, NEW t, Counted(y, t), Commit(t)
    PROVE  objs' = y.objs /\ (Running' => Counted(y, Current'))
<1>1. t = [dom |-> t.dom, diff |-> t.diff, objs |-> t.objs, ok |-> t.ok] /\ t.ok \in BOOLEAN /\ t.objs = y.objs
  BY StateIs DEF Counted, Shaped
<1>2. objs' = y.objs
  BY <1>1 DEF Commit
<1>3. ASSUME Running' PROVE Counted(y, Current')
  <2>1. t.ok = TRUE
    BY <1>1, <1>3 DEF Running, Commit
  <2>2. Current' = [dom |-> t.dom, diff |-> t.diff, objs |-> t.objs, ok |-> TRUE]
    BY DEF Current, Commit
  <2>3. Current' = t
    BY <1>1, <2>1, <2>2
  <2>. QED
    BY <2>3
<1>. QED
  BY <1>2, <1>3

LEMMA CurrentIs ==
    ASSUME CountInv, Counting, Running
    PROVE  /\ Counted(sys, Current) /\ Shaped(sys, Current) /\ Current.ok /\ Current.dom = store /\ Current.diff = diff
           /\ FiltersTyped /\ EnumInstances = Ks(sys)
BY DEF CountInv, Current, Counted, EnumInstances, Ks

LEMMA CountInvInit == Init => CountInv
BY DEF Init, CountInv, Running

LEMMA CountInvNext ==
    ASSUME CountInv, phase = "compiled" => FiltersTyped, [Next]_vars
    PROVE  CountInv'
<1>0. sys \in Systems
  BY DEF CountInv
<1>1. CASE UNCHANGED vars
  BY <1>1 DEF vars, CountInv, Counting, Running, FiltersTyped, Current
<1>2. CASE DedupStep \/ GenStep \/ MergeStep \/ TableStep
  BY <1>2 DEF CountInv, Counting, Running, DedupStep, GenStep, MergeStep, TableStep, RuntimeVars
<1>3. CASE NewSpace
  <2>1. sys' = sys /\ filters' = filters /\ Commit(InitDomain) /\ phase = "compiled"
    BY <1>3 DEF NewSpace
  <2>2. FiltersTyped /\ FiltersTyped'
    BY <2>1 DEF FiltersTyped
  <2>3. ASSUME Counting PROVE objs' = sys.objs /\ (Running' => Counted(sys, Current'))
    <3>. SUFFICES ASSUME NEW t, t = InitDomain PROVE objs' = sys.objs /\ (Running' => Counted(sys, Current'))
      OBVIOUS
    <3>1. Counted(sys, t)
      BY <1>0, <2>3, FilterGenAssumption, InitDomainCounted DEF CountInv, Counting
    <3>. QED
      BY <2>1, <3>1, Committed
  <2>. QED
    BY <1>0, <2>1, <2>2, <2>3 DEF CountInv, Counting
<1>4. ASSUME NEW k1 \in EnumInstances, NEW k2 \in EnumInstances, NEW v1, NEW v2, Decide(k1, v1, k2, v2) PROVE CountInv'
  <2>1. sys' = sys /\ filters' = filters /\ Running
    BY <1>4 DEF Decide, Running
  <2>2. FiltersTyped => FiltersTyped'
    BY <2>1 DEF FiltersTyped
  <2>3. ASSUME Counting PROVE FiltersTyped /\ objs' = sys.objs /\ (Running' => Counted(sys, Current'))
    <3>. SUFFICES ASSUME NEW c, c = Current, NEW s, s = RestrictChoice(c, k1[1], k1[2], {v1}),
                         NEW t, t = RestrictChoice(s, k2[1], k2[2], {v2})
                  PROVE  FiltersTyped /\ objs' = sys.objs /\ (Running' => Counted(sys, Current'))
      OBVIOUS
    <3>1. Counted(sys, c) /\ Shaped(sys, c) /\ FiltersTyped /\ k1 \in Ks(sys) /\ k2 \in Ks(sys)
      BY <2>1, <2>3, CurrentIs
    <3>2. Narrowed(sys, c, s) /\ Shaped(sys, s)
      <4>1. Narrowed(sys, c, s)
        BY <1>0, <3>1, RestrictNarrows
      <4>. QED
        BY <4>1 DEF Narrowed
    <3>3. Narrowed(sys, s, t)
      BY <1>0, <3>1, <3>2, RestrictNarrows
    <3>4. Counted(sys, t)
      BY <1>0, <3>1, <3>2, <3>3, NarrowedTwice, CountedNarrowed
    <3>5. Commit(t)
      BY <1>4 DEF Decide
    <3>. QED
      BY <3>1, <3>4, <3>5, Committed
  <2>. QED
    BY <1>0, <2>1, <2>2, <2>3 DEF CountInv, Counting
<1>5. ASSUME NEW k, Pop(k) PROVE CountInv'
  <2>1. sys' = sys /\ filters' = filters /\ Running /\ k \in DOMAIN diff
    BY <1>5 DEF Pop, Running
  <2>2. FiltersTyped => FiltersTyped'
    BY <2>1 DEF FiltersTyped
  <2>3. ASSUME Counting PROVE FiltersTyped /\ objs' = sys.objs /\ (Running' => Counted(sys, Current'))
    <3>. SUFFICES ASSUME NEW c, c = Current, NEW t, t = OnChange(Popped(c, k), k, diff[k].old, diff[k].new)
                  PROVE  FiltersTyped /\ objs' = sys.objs /\ (Running' => Counted(sys, Current'))
      OBVIOUS
    <3>1. Counted(sys, c) /\ c.ok /\ FiltersTyped /\ c.diff = diff
      BY <2>1, <2>3, CurrentIs
    <3>2. Counted(sys, t)
      BY <1>0, <2>1, <2>3, <3>1, OnChangeExact DEF Counting
    <3>3. Commit(t)
      BY <1>5 DEF Pop, Popped
    <3>. QED
      BY <3>1, <3>2, <3>3, Committed
  <2>. QED
    BY <1>0, <2>1, <2>2, <2>3 DEF CountInv, Counting
<1>6. CASE Advance
  BY <1>6 DEF Advance, CountInv, Counting, Running, FiltersTyped, Current
<1>. QED
  BY <1>1, <1>2, <1>3, <1>4, <1>5, <1>6 DEF Next

LEMMA CountInvExact ==
    ASSUME CountInv, Counting
    PROVE  CounterExact
<1>. SUFFICES ASSUME Running, HasCounter, NEW c, c = Current, NEW r, r = store[Cnt] PROVE r = ComputeCounter(c)
  BY DEF CounterExact
<1>1. sys \in Systems /\ Counted(sys, c) /\ c.ok /\ c.dom = store /\ Adds(sys)
  BY CurrentIs DEF CountInv, Counting, Additive, Adds, HasCounter
<1>2. sys.objs \in Nat /\ c.objs = sys.objs /\ "cnt" \in sys.choices
  BY <1>1, StateIs, SystemsAssumption DEF Counted, Shaped, Adds
<1>3. Tally(sys.objs, CountBase(sys), Shares(sys, c), r)
  BY <1>1, <1>2 DEF Counted, Exact, Tallied
<1>4. Tally(sys.objs, CountBase(sys), Shares(sys, c), ComputeCounter(c))
  BY <1>1, <1>2, ComputeIs
<1>. QED
  BY <1>2, <1>3, <1>4, TallyUnique

\* Between two handlers the counter of a space without lowering, if it adds, is what
\* compute_counter returns on the domains that have been propagated.
THEOREM AdditiveCounterExact ==
    Spec /\ []FiltersFaithful => [](sys.trigger = {} /\ sys.cnt.kind = "Add" => CounterExact)
<1>1. CountInv => (sys.trigger = {} /\ sys.cnt.kind = "Add" => CounterExact)
  BY CountInvExact DEF Counting, Additive
<1>2. CountInv /\ FiltersFaithful /\ [Next]_vars => CountInv'
  BY CountInvNext DEF FiltersFaithful
<1>. QED
  BY <1>1, <1>2, CountInvInit, PTL DEF Spec

-----------------------------------------------------------------------------
(* Assignments.                                                              *)

Total(V, dom, T) == {m \in [T -> V] : \A k \in T : m[k] \in dom[k]}
With(m, k, x) == [j \in DOMAIN m \cup {k} |-> IF j = k THEN x ELSE m[j]]
ExtendAll(dom, k, ms) == {With(m, k, x) : m \in ms, x \in dom[k]}
AssignIter(dom, ks, g) ==
    g = [T \in SUBSET ks |-> IF T = {} THEN {NoDiff} ELSE ExtendAll(dom, AnyOf(T), g[T \ {AnyOf(T)}])]

LEMMA AssignmentsUnfold ==
    ASSUME NEW dom, NEW ks
    PROVE  Assignments(dom, ks) = (CHOOSE g : AssignIter(dom, ks, g))[ks]
BY DEF Assignments, FoldSet, MapThenFoldSet, AssignIter, ExtendAll, With, AnyOf

LEMMA ExtendTotal ==
    ASSUME NEW V, NEW dom, NEW T, NEW k \in T, dom[k] \subseteq V
    PROVE  ExtendAll(dom, k, Total(V, dom, T \ {k})) = Total(V, dom, T)
<1>1. ASSUME NEW m \in Total(V, dom, T \ {k}), NEW x \in dom[k], NEW n, n = With(m, k, x)
      PROVE  n \in Total(V, dom, T)
  <2>1. DOMAIN m \cup {k} = T
    BY DEF Total
  <2>2. m \in [T \ {k} -> V] /\ \A j \in T \ {k} : m[j] \in dom[j]
    BY DEF Total
  <2>3. n \in [T -> V]
    BY <1>1, <2>1, <2>2 DEF With
  <2>4. \A j \in T : n[j] \in dom[j]
    BY <1>1, <2>1, <2>2 DEF With
  <2>. QED
    BY <2>3, <2>4 DEF Total
<1>2. ASSUME NEW n \in Total(V, dom, T) PROVE n \in ExtendAll(dom, k, Total(V, dom, T \ {k}))
  <2>. DEFINE m == [j \in T \ {k} |-> n[j]]
  <2>1. n \in [T -> V] /\ \A j \in T : n[j] \in dom[j]
    BY DEF Total
  <2>2. m \in Total(V, dom, T \ {k}) /\ n[k] \in dom[k]
    BY <2>1 DEF Total
  <2>3. n = With(m, k, n[k])
    BY <2>1 DEF With
  <2>. HIDE DEF m
  <2>. QED
    BY <2>2, <2>3 DEF ExtendAll
<1>3. ASSUME NEW n \in ExtendAll(dom, k, Total(V, dom, T \ {k})) PROVE n \in Total(V, dom, T)
  <2>1. PICK m \in Total(V, dom, T \ {k}), x \in dom[k] : n = With(m, k, x)
    BY DEF ExtendAll
  <2>. QED
    BY <1>1, <2>1
<1>. QED
  BY <1>2, <1>3

\* The assignments of a finite set of instances are the functions that choose a value of
\* each domain.
LEMMA AssignmentsAre ==
    ASSUME NEW V, NEW ks, IsFiniteSet(ks), NEW dom, \A k \in ks : dom[k] \subseteq V
    PROVE  Assignments(dom, ks) = Total(V, dom, ks)
<1>. DEFINE h == [T \in SUBSET ks |-> Total(V, dom, T)]
            F == CHOOSE g : AssignIter(dom, ks, g)
<1>1. Total(V, dom, {}) = {NoDiff}
  BY DEF Total, NoDiff
<1>2. AssignIter(dom, ks, h)
  <2>1. ASSUME NEW T \in SUBSET ks, T # {} PROVE h[T] = ExtendAll(dom, AnyOf(T), h[T \ {AnyOf(T)}])
    <3>1. AnyOf(T) \in T
      BY <2>1 DEF AnyOf
    <3>2. dom[AnyOf(T)] \subseteq V /\ T \ {AnyOf(T)} \in SUBSET ks
      BY <3>1
    <3>3. ExtendAll(dom, AnyOf(T), Total(V, dom, T \ {AnyOf(T)})) = Total(V, dom, T)
      BY <3>1, <3>2, ExtendTotal
    <3>. QED
      BY <3>2, <3>3
  <2>2. h[{}] = {NoDiff}
    BY <1>1
  <2>3. \A T \in SUBSET ks : h[T] = IF T = {} THEN {NoDiff} ELSE ExtendAll(dom, AnyOf(T), h[T \ {AnyOf(T)}])
    BY <2>1, <2>2
  <2>4. h = [T \in SUBSET ks |-> h[T]]
    OBVIOUS
  <2>. HIDE DEF h
  <2>. QED
    BY <2>3, <2>4 DEF AssignIter
<1>3. AssignIter(dom, ks, F)
  BY <1>2
<1>. HIDE DEF F
<1>. DEFINE P == {T \in SUBSET ks : F[T] = h[T]}
<1>4. ASSUME NEW T \in SUBSET ks, \A x \in T : T \ {x} \in P PROVE T \in P
  <2>. HIDE DEF h
  <2>1. CASE T = {}
    BY <1>2, <1>3, <2>1 DEF AssignIter
  <2>2. CASE T # {}
    <3>1. AnyOf(T) \in T
      BY <2>2 DEF AnyOf
    <3>2. F[T \ {AnyOf(T)}] = h[T \ {AnyOf(T)}]
      BY <1>4, <3>1
    <3>3. /\ F[T] = ExtendAll(dom, AnyOf(T), F[T \ {AnyOf(T)}])
          /\ h[T] = ExtendAll(dom, AnyOf(T), h[T \ {AnyOf(T)}])
      BY <1>2, <1>3, <2>2 DEF AssignIter
    <3>. QED
      BY <3>2, <3>3
  <2>. QED
    BY <2>1, <2>2
<1>5. F[ks] = h[ks]
  <2>1. \A T \in SUBSET ks : T \in P
    <3>. HIDE DEF P
    <3>. QED
      BY <1>4, OverSubsets
  <2>. QED
    BY <2>1
<1>. QED
  BY <1>5, AssignmentsUnfold DEF F

-----------------------------------------------------------------------------
(* Filters keep the values of an assignment that satisfies the constraints.  *)

Vals == EnumValues \cup Range(NumUniverse)

\* What is in the domains of s.
Holding(y, m, s) == \A k \in Ks(y) : m[k] \in s.dom[k]

\* FilterOf, for a given list of filters.
FilterBy(fl, s, c, args) ==
    {v \in Full(c) : \A i \in DOMAIN fl : fl[i].choice = c =>
       \A b \in Bindings(fl[i], s.objs) : ArgsOf(c, b) = args => v \in CallFilter(s, fl[i], b)}

LEMMA FilterOfIs ==
    ASSUME NEW s, NEW c, NEW args
    PROVE  FilterOf(s, c, args) = FilterBy(filters, s, c, args)
BY DEF FilterOf, FilterBy

Compatible(y, fl, m) ==
    \A s : Shaped(y, s) /\ s.ok /\ Holding(y, m, s) =>
      \A k \in Ks(y) : m[k] \in FilterBy(fl, s, k[1], k[2])

\* A filter reads domains that exist.
LEMMA InputKey ==
    ASSUME sys \in Systems, NEW f, NEW inst, InputTyped(f, inst), NEW b \in Bindings(f, sys.objs)
    PROVE  Key(inst.choice, InstArgs(inst, b)) \in Ks(sys)
<1>. SUFFICES ASSUME NEW c, c = inst.choice, NEW args, args = InstArgs(inst, b), NEW O, O = 1 .. sys.objs
              PROVE  Key(c, args) \in Ks(sys)
  OBVIOUS
<1>0. /\ Arity["flag"] = 1 /\ Arity["num"] = 1 /\ Arity["rel"] = 2 /\ "rel" \in Symmetric
      /\ "flag" \notin Symmetric /\ "num" \notin Symmetric
  BY SystemsAssumption, FilterGenAssumption
<1>1. /\ c \in sys.choices \cap {"flag", "num", "rel"}
      /\ inst.vars \in [1 .. Arity[c] -> FilterVars(f)]
      /\ \A p, q \in 1 .. Arity[c] : inst.vars[p] = inst.vars[q] => p = q
  BY DEF InputTyped
<1>2. b \in [FilterVars(f) -> O] /\ \A x, z \in FilterVars(f) : b[x] = b[z] => x = z
  BY DEF Bindings
<1>3. args = [p \in 1 .. Arity[c] |-> b[inst.vars[p]]]
  BY <1>1 DEF InstArgs
<1>4. CASE c \in {"flag", "num"}
  <2>1. Arity[c] = 1 /\ c \notin Symmetric
    BY <1>0, <1>4
  <2>2. inst.vars[1] \in FilterVars(f)
    BY <1>1, <2>1
  <2>3. args = <<b[inst.vars[1]]>> /\ b[inst.vars[1]] \in O
    BY <1>2, <1>3, <2>1, <2>2
  <2>4. \A o \in O : <<c, <<o>>>> \in Ks(sys)
    BY <1>1, <1>4, ObjectInstances
  <2>. QED
    BY <2>1, <2>3, <2>4 DEF Key
<1>5. CASE c = "rel"
  <2>1. inst.vars[1] \in FilterVars(f) /\ inst.vars[2] \in FilterVars(f) /\ inst.vars[1] # inst.vars[2]
    BY <1>0, <1>1, <1>5
  <2>2. PICK p \in O, q \in O : args = <<p, q>> /\ p # q
    <3>1. args = <<b[inst.vars[1]], b[inst.vars[2]]>>
      BY <1>0, <1>3, <1>5
    <3>. QED
      BY <1>2, <2>1, <3>1
  <2>3. \A x, z \in O : x < z => <<"rel", <<x, z>>>> \in Ks(sys)
    <3>. SUFFICES ASSUME NEW x \in O, NEW z \in O, x < z PROVE <<"rel", <<x, z>>>> \in Ks(sys)
      OBVIOUS
    <3>1. <<x, z>> \in {w \in O \X O : w[1] < w[2]}
      OBVIOUS
    <3>. QED
      BY <1>1, <1>5, <3>1 DEF Ks, InstancesOf
  <2>4. Key(c, args) = IF p > q THEN <<"rel", <<q, p>>>> ELSE <<"rel", <<p, q>>>>
    BY <1>0, <1>5, <2>2 DEF Key
  <2>5. p \in Int /\ q \in Int /\ (p > q <=> q < p) /\ (~(p > q) => p < q)
    BY <2>2
  <2>. QED
    BY <2>2, <2>3, <2>4, <2>5
<1>. QED
  BY <1>1, <1>4, <1>5

LEMMA SameCalls ==
    ASSUME sys \in Systems, NEW f, \A j \in DOMAIN f.inputs : InputTyped(f, f.inputs[j]),
           NEW s, NEW t, \A k \in Ks(sys) : t.dom[k] = s.dom[k], NEW b \in Bindings(f, sys.objs)
    PROVE  CallFilter(t, f, b) = CallFilter(s, f, b)
<1>1. ASSUME NEW j \in DOMAIN f.inputs
      PROVE  Get(t, f.inputs[j].choice, InstArgs(f.inputs[j], b)) = Get(s, f.inputs[j].choice, InstArgs(f.inputs[j], b))
  <2>. SUFFICES ASSUME NEW inst, inst = f.inputs[j], NEW c, c = inst.choice, NEW args, args = InstArgs(inst, b)
                PROVE  Get(t, c, args) = Get(s, c, args)
    OBVIOUS
  <2>1. Key(c, args) \in Ks(sys)
    BY InputKey
  <2>2. t.dom[Key(c, args)] = s.dom[Key(c, args)]
    BY <2>1
  <2>. QED
    BY <2>2 DEF Get
<1>2. [i \in DOMAIN f.inputs |-> Get(t, f.inputs[i].choice, InstArgs(f.inputs[i], b))]
        = [i \in DOMAIN f.inputs |-> Get(s, f.inputs[i].choice, InstArgs(f.inputs[i], b))]
  BY <1>1
<1>. QED
  BY <1>2 DEF CallFilter

LEMMA SameFilters ==
    ASSUME sys \in Systems, InputsTyped, NEW s, NEW t, s.objs = sys.objs, t.objs = sys.objs,
           \A k \in Ks(sys) : t.dom[k] = s.dom[k], NEW c, NEW args
    PROVE  FilterBy(filters, t, c, args) = FilterBy(filters, s, c, args)
<1>1. \A i \in DOMAIN filters : \A b \in Bindings(filters[i], sys.objs) :
        CallFilter(t, filters[i], b) = CallFilter(s, filters[i], b)
  <2>. SUFFICES ASSUME NEW i \in DOMAIN filters, NEW f, f = filters[i], NEW b \in Bindings(f, sys.objs)
                PROVE  CallFilter(t, f, b) = CallFilter(s, f, b)
    OBVIOUS
  <2>1. \A j \in DOMAIN f.inputs : InputTyped(f, f.inputs[j])
    BY DEF InputsTyped
  <2>. QED
    BY <2>1, SameCalls
<1>. QED
  BY <1>1 DEF FilterBy

\* The domains of a state that has not failed are some of those the filters are sound for.
LEMMA StateDomains ==
    ASSUME sys \in Systems, objs = sys.objs, NEW s, Shaped(sys, s), s.ok,
           NEW d, d = [k \in Ks(sys) |-> s.dom[k]]
    PROVE  d \in AllDomains
<1>. DEFINE V == SUBSET Vals
            dom == [k \in Ks(sys) |-> (SUBSET Full(k[1])) \ {{}}]
<1>0. EnumInstances = Ks(sys)
  BY DEF EnumInstances, Ks
<1>1. AllDomains = Assignments(dom, Ks(sys))
  BY <1>0 DEF AllDomains
<1>2. \A k \in Ks(sys) : dom[k] \subseteq V
  BY FullTypes DEF Vals
<1>3. \A k \in Ks(sys) : s.dom[k] \in dom[k]
  BY DEF Shaped
<1>4. d \in [Ks(sys) -> V] /\ \A k \in Ks(sys) : d[k] \in dom[k]
  BY <1>2, <1>3
<1>. HIDE DEF dom, V
<1>5. Assignments(dom, Ks(sys)) = Total(V, dom, Ks(sys))
  BY <1>2, FiniteKs, AssignmentsAre
<1>. QED
  BY <1>1, <1>4, <1>5 DEF Total

LEMMA AllAssignmentsAre ==
    ASSUME sys \in Systems, objs = sys.objs, NEW m \in AllAssignments, NEW k \in Ks(sys)
    PROVE  m[k] \in Full(k[1])
<1>. DEFINE dom == [j \in Ks(sys) |-> Full(j[1])]
<1>0. EnumInstances = Ks(sys)
  BY DEF EnumInstances, Ks
<1>1. AllAssignments = Assignments(dom, Ks(sys))
  BY <1>0 DEF AllAssignments
<1>2. \A j \in Ks(sys) : dom[j] \subseteq Vals
  BY FullTypes DEF Vals
<1>3. dom[k] = Full(k[1])
  OBVIOUS
<1>. HIDE DEF dom
<1>4. Assignments(dom, Ks(sys)) = Total(Vals, dom, Ks(sys))
  BY <1>2, FiniteKs, AssignmentsAre
<1>. QED
  BY <1>1, <1>3, <1>4 DEF Total

LEMMA CompatibleIs ==
    ASSUME sys \in Systems, objs = sys.objs, InputsTyped, FiltersSound, NEW m \in AllAssignments, ConstraintsHold(m)
    PROVE  Compatible(sys, filters, m)
<1>. SUFFICES ASSUME NEW s, Shaped(sys, s), s.ok, Holding(sys, m, s), NEW k \in Ks(sys)
              PROVE  m[k] \in FilterBy(filters, s, k[1], k[2])
  BY DEF Compatible
<1>. SUFFICES ASSUME NEW d, d = [j \in Ks(sys) |-> s.dom[j]], NEW z, z = StateOf(d)
              PROVE  m[k] \in FilterBy(filters, s, k[1], k[2])
  OBVIOUS
<1>0. EnumInstances = Ks(sys)
  BY DEF EnumInstances, Ks
<1>1. d \in AllDomains /\ \A j \in Ks(sys) : m[j] \in d[j]
  BY StateDomains DEF Holding
<1>2. m[k] \in FilterOf(z, k[1], k[2])
  BY <1>0, <1>1 DEF FiltersSound
<1>3. z.objs = sys.objs /\ s.objs = sys.objs /\ \A j \in Ks(sys) : z.dom[j] = s.dom[j]
  BY StateIs DEF StateOf, Shaped
<1>4. FilterBy(filters, z, k[1], k[2]) = FilterBy(filters, s, k[1], k[2])
  BY <1>3, SameFilters
<1>. QED
  BY <1>2, <1>4, FilterOfIs

-----------------------------------------------------------------------------
(* The count of an assignment lies in the counter of a state that holds it.  *)

Contrib(y, m, o) == IF m[FlagKey(o)] \notin y.cnt.incr THEN 0
                    ELSE IF y.cnt.chosen THEN m[NumKey(o)] ELSE y.cnt.amount
Contribs(y, m) == [o \in 1 .. y.objs |-> Diff(Contrib(y, m, o), Contrib(y, m, o))]
PointBase(y) == Diff(y.cnt.base, y.cnt.base)

Values(y, m) == \A k \in Ks(y) : m[k] \in Full(k[1])
CountOf(y, m, x) == x \in Nat /\ Tally(y.objs, PointBase(y), Contribs(y, m), Diff(x, x))

LEMMA ContribType ==
    ASSUME NEW y \in Systems, "cnt" \in y.choices, NEW m, Values(y, m), NEW o \in 1 .. y.objs
    PROVE  Contrib(y, m, o) \in Nat
<1>1. \A x \in Range(NumUniverse) : x \in Nat
  BY UniverseAssumption, Constants, Increasing DEF Range, Ordered
<1>2. y.cnt.amount \in Nat /\ (y.cnt.chosen => NumKey(o) \in Ks(y))
  BY SystemsAssumption, ObjectInstances DEF NumKey
<1>3. y.cnt.chosen => m[NumKey(o)] \in Nat
  <2>1. NumKey(o)[1] = "num"
    BY DEF NumKey
  <2>. QED
    BY <1>1, <1>2, <2>1, FullTypes DEF Values
<1>. QED
  BY <1>2, <1>3 DEF Contrib

PointStep(m, o, n) == IF m[<<"flag", <<o>>>>] \notin sys.cnt.incr THEN n
                      ELSE n + (IF sys.cnt.chosen THEN m[<<"num", <<o>>>>] ELSE sys.cnt.amount)
PointIter(m, S, g) ==
    g = [T \in SUBSET S |-> IF T = {} THEN sys.cnt.base ELSE PointStep(m, AnyOf(T), g[T \ {AnyOf(T)}])]

LEMMA CounterInUnfold ==
    ASSUME NEW m, sys.cnt.kind = "Add"
    PROVE  CounterIn(m) = (CHOOSE g : PointIter(m, 1 .. objs, g))[1 .. objs]
BY DEF CounterIn, FoldSet, MapThenFoldSet, Op, PointIter, PointStep, AnyOf

LEMMA CounterInIs ==
    ASSUME sys \in Systems, Adds(sys), objs = sys.objs, NEW m, Values(sys, m)
    PROVE  CountOf(sys, m, CounterIn(m))
<1>. SUFFICES ASSUME NEW n, n = sys.objs, NEW S, S = 1 .. n, NEW base, base = sys.cnt.base,
                     NEW c, c = [o \in S |-> Contrib(sys, m, o)]
              PROVE  CountOf(sys, m, CounterIn(m))
  OBVIOUS
<1>0. /\ n \in Nat /\ base \in Nat /\ IsFiniteSet(S) /\ sys.cnt.kind = "Add" /\ "cnt" \in sys.choices
      /\ c \in [S -> Nat]
  <2>1. sys.cnt.kind = "Add" /\ "cnt" \in sys.choices
    BY DEF Adds
  <2>2. n \in Nat /\ base \in Nat
    BY <2>1, SystemsAssumption
  <2>3. IsFiniteSet(S)
    BY <2>2, FS_Interval
  <2>4. \A o \in S : Contrib(sys, m, o) \in Nat
    BY <2>1, ContribType
  <2>. QED
    BY <2>1, <2>2, <2>3, <2>4
<1>. DEFINE F == CHOOSE g : PointIter(m, S, g)
            op == [p \in S \X Nat |-> p[2] + c[p[1]]]
            ch == [T \in SUBSET S |-> AnyOf(T)]
<1>1. CounterIn(m) = F[S]
  BY <1>0, CounterInUnfold
<1>2. \A o \in S, v \in Nat : PointStep(m, o, v) = v + c[o] /\ v + c[o] \in Nat
  <2>. SUFFICES ASSUME NEW o \in S, NEW v \in Nat PROVE PointStep(m, o, v) = v + c[o] /\ v + c[o] \in Nat
    OBVIOUS
  <2>1. c[o] = Contrib(sys, m, o) /\ c[o] \in Nat
    BY <1>0
  <2>2. PointStep(m, o, v) = IF m[FlagKey(o)] \notin sys.cnt.incr THEN v ELSE v + Contrib(sys, m, o)
    BY DEF PointStep, Contrib, FlagKey, NumKey
  <2>3. m[FlagKey(o)] \notin sys.cnt.incr => Contrib(sys, m, o) = 0
    BY DEF Contrib
  <2>. QED
    BY <2>1, <2>2, <2>3
<1>3. op \in [S \X Nat -> Nat]
  BY <1>2
<1>4. \A o \in S, v \in Nat : op[o, v] = v + c[o]
  BY Zenon
<1>5. Chooses(S, ch) /\ \A T \in SUBSET S : ch[T] = AnyOf(T)
  BY DEF Chooses, AnyOf
<1>6. Commute(S, Nat, op)
  <2>. SUFFICES ASSUME NEW x \in S, NEW z \in S, NEW v \in Nat PROVE op[x, op[z, v]] = op[z, op[x, v]]
    BY Zenon DEF Commute
  <2>1. op[z, v] = v + c[z] /\ op[x, v] = v + c[x] /\ v + c[z] \in Nat /\ v + c[x] \in Nat
    BY <1>2, <1>4, Zenon
  <2>2. op[x, op[z, v]] = (v + c[z]) + c[x] /\ op[z, op[x, v]] = (v + c[x]) + c[z]
    BY <1>4, <2>1, Zenon
  <2>3. c[x] \in Nat /\ c[z] \in Nat
    BY <1>0
  <2>4. (v + c[z]) + c[x] = (v + c[x]) + c[z]
    BY <2>3
  <2>. HIDE DEF op
  <2>. QED
    BY <2>2, <2>4, Zenon
<1>. HIDE DEF op, ch
<1>7. PICK g \in [SUBSET S -> Nat] : FoldOf(S, base, op, ch, g)
  BY <1>0, <1>3, <1>5, FoldExists, Zenon
<1>8. PointIter(m, S, g)
  <2>. SUFFICES ASSUME NEW T \in SUBSET S, T # {} PROVE g[T] = PointStep(m, AnyOf(T), g[T \ {AnyOf(T)}])
    BY <1>7, Zenon DEF FoldOf, PointIter
  <2>1. AnyOf(T) \in S /\ ch[T] = AnyOf(T) /\ g[T \ {AnyOf(T)}] \in Nat
    BY <1>5, <1>7 DEF Chooses
  <2>2. g[T] = op[AnyOf(T), g[T \ {AnyOf(T)}]]
    BY <1>7, <2>1, Zenon DEF FoldOf
  <2>3. \A o \in S : op[o, g[T \ {AnyOf(T)}]] = PointStep(m, o, g[T \ {AnyOf(T)}])
    <3>. SUFFICES ASSUME NEW v \in Nat, v = g[T \ {AnyOf(T)}], NEW o \in S PROVE op[o, v] = PointStep(m, o, v)
      BY <2>1, Zenon
    <3>1. op[o, v] = v + c[o]
      BY <1>4, Zenon
    <3>2. PointStep(m, o, v) = v + c[o]
      BY <1>2
    <3>. QED
      BY <3>1, <3>2, Zenon
  <2>. QED
    BY <2>1, <2>2, <2>3, Zenon
<1>9. PointIter(m, S, F)
  BY <1>8
<1>. HIDE DEF F
<1>. DEFINE P == {T \in SUBSET S : F[T] = g[T]}
<1>10. ASSUME NEW T \in SUBSET S, \A x \in T : T \ {x} \in P PROVE T \in P
  <2>1. CASE T = {}
    BY <1>8, <1>9, <2>1 DEF PointIter
  <2>2. CASE T # {}
    <3>1. AnyOf(T) \in T
      BY <2>2 DEF AnyOf
    <3>2. F[T \ {AnyOf(T)}] = g[T \ {AnyOf(T)}]
      BY <1>10, <3>1
    <3>3. /\ F[T] = PointStep(m, AnyOf(T), F[T \ {AnyOf(T)}])
          /\ g[T] = PointStep(m, AnyOf(T), g[T \ {AnyOf(T)}])
      BY <1>8, <1>9, <2>2 DEF PointIter
    <3>. QED
      BY <3>2, <3>3
  <2>. QED
    BY <2>1, <2>2
<1>11. F[S] = g[S]
  <2>1. \A T \in SUBSET S : T \in P
    <3>. HIDE DEF P
    <3>. QED
      BY <1>0, <1>10, OverSubsets, ZenonT(60)
  <2>. QED
    BY <2>1
<1>12. Splits(S, op, g)
  <2>1. IsFiniteSet(S) /\ Chooses(S, ch) /\ FoldOf(S, base, op, ch, g) /\ base \in Nat
    BY <1>0, <1>5, <1>7
  <2>. QED
    BY <1>3, <1>6, <2>1, FoldSplit
<1>13. \A T \in SUBSET S : \A x \in T : g[T] = g[T \ {x}] + c[x]
  <2>. SUFFICES ASSUME NEW T \in SUBSET S, NEW x \in T PROVE g[T] = g[T \ {x}] + c[x]
    BY Zenon
  <2>1. x \in S /\ g[T \ {x}] \in Nat
    BY <1>7
  <2>2. g[T] = op[x, g[T \ {x}]]
    BY <1>12, Zenon DEF Splits
  <2>. QED
    BY <1>4, <2>1, <2>2, Zenon
<1>. DEFINE h == [T \in SUBSET S |-> Diff(g[T], g[T])]
<1>14. Sums(n, PointBase(sys), Contribs(sys, m), h)
  <2>1. h \in [SUBSET S -> Ranges]
    BY DEF Ranges, Diff
  <2>2. h[{}] = PointBase(sys)
    BY <1>7, Zenon DEF FoldOf, PointBase
  <2>3. ASSUME NEW T \in SUBSET S, NEW x \in T PROVE h[T] = Plus(h[T \ {x}], Contribs(sys, m)[x])
    <3>1. Contribs(sys, m)[x] = Diff(c[x], c[x])
      BY DEF Contribs
    <3>2. g[T] = g[T \ {x}] + c[x] /\ h[T] = Diff(g[T], g[T]) /\ h[T \ {x}] = Diff(g[T \ {x}], g[T \ {x}])
      BY <1>13
    <3>. QED
      BY <3>1, <3>2 DEF Plus, Diff
  <2>. HIDE DEF h
  <2>. QED
    BY <2>1, <2>2, <2>3 DEF Sums
<1>15. h[1 .. n] = Diff(CounterIn(m), CounterIn(m)) /\ CounterIn(m) \in Nat
  BY <1>1, <1>7, <1>11
<1>. HIDE DEF h
<1>. QED
  BY <1>14, <1>15 DEF CountOf, Tally

\* What is counted is ordered as the objects are, up to what one of them adds.
Lowers(n, c, d) == \A x \in 1 .. n : c[x].min <= d[x].min
Raises(n, c, d) == \A x \in 1 .. n : d[x].max <= c[x].max

LEMMA TallyBelow ==
    ASSUME NEW n \in Nat, NEW base, NEW start, NEW c \in [1 .. n -> Ranges], NEW d \in [1 .. n -> Ranges],
           NEW r, NEW q, Tally(n, base, c, r), Tally(n, start, d, q)
    PROVE  /\ base.min <= start.min /\ Lowers(n, c, d) => r.min <= q.min
           /\ start.max <= base.max /\ Raises(n, c, d) => q.max <= r.max
<1>1. PICK g : Sums(n, base, c, g) /\ r = g[1 .. n]
  BY DEF Tally
<1>2. PICK h : Sums(n, start, d, h) /\ q = h[1 .. n]
  BY DEF Tally
<1>. DEFINE S == 1 .. n
            Low == {T \in SUBSET S : g[T].min <= h[T].min}
            High == {T \in SUBSET S : h[T].max <= g[T].max}
<1>3. /\ g \in [SUBSET S -> Ranges] /\ g[{}] = base /\ \A T \in SUBSET S : \A x \in T : g[T] = Plus(g[T \ {x}], c[x])
      /\ h \in [SUBSET S -> Ranges] /\ h[{}] = start /\ \A T \in SUBSET S : \A x \in T : h[T] = Plus(h[T \ {x}], d[x])
  BY <1>1, <1>2 DEF Sums
<1>f. IsFiniteSet(S)
  BY FS_Interval
<1>4. ASSUME NEW T \in SUBSET S, NEW x \in T
      PROVE  /\ g[T].min = g[T \ {x}].min + c[x].min /\ h[T].min = h[T \ {x}].min + d[x].min
             /\ g[T].max = g[T \ {x}].max + c[x].max /\ h[T].max = h[T \ {x}].max + d[x].max
             /\ g[T \ {x}].min \in Int /\ h[T \ {x}].min \in Int /\ c[x].min \in Int /\ d[x].min \in Int
             /\ g[T \ {x}].max \in Int /\ h[T \ {x}].max \in Int /\ c[x].max \in Int /\ d[x].max \in Int
  <2>1. g[T \ {x}] \in Ranges /\ h[T \ {x}] \in Ranges /\ c[x] \in Ranges /\ d[x] \in Ranges
    BY <1>3
  <2>2. g[T] = Plus(g[T \ {x}], c[x]) /\ h[T] = Plus(h[T \ {x}], d[x])
    BY <1>3
  <2>3. /\ g[T].min = g[T \ {x}].min + c[x].min /\ h[T].min = h[T \ {x}].min + d[x].min
        /\ g[T].max = g[T \ {x}].max + c[x].max /\ h[T].max = h[T \ {x}].max + d[x].max
    BY <2>1, <2>2, PlusIs
  <2>4. \A a \in Ranges : a.min \in Int /\ a.max \in Int
    BY DEF Ranges
  <2>. QED
    BY <2>1, <2>3, <2>4
<1>5. ASSUME base.min <= start.min, Lowers(n, c, d) PROVE r.min <= q.min
  <2>1. ASSUME NEW T \in SUBSET S, \A x \in T : T \ {x} \in Low PROVE T \in Low
    <3>1. CASE T = {}
      BY <1>3, <1>5, <3>1
    <3>2. CASE T # {}
      <4>1. PICK x : x \in T
        BY <3>2
      <4>2. g[T \ {x}].min <= h[T \ {x}].min /\ c[x].min <= d[x].min
        BY <1>5, <2>1, <4>1 DEF Lowers
      <4>3. /\ g[T].min = g[T \ {x}].min + c[x].min /\ h[T].min = h[T \ {x}].min + d[x].min
            /\ g[T \ {x}].min \in Int /\ h[T \ {x}].min \in Int /\ c[x].min \in Int /\ d[x].min \in Int
        BY <1>4, <4>1
      <4>4. g[T].min <= h[T].min
        BY <4>2, <4>3
      <4>. QED
        BY <4>4
    <3>. QED
      BY <3>1, <3>2
  <2>2. \A T \in SUBSET S : T \in Low
    <3>. HIDE DEF Low
    <3>. QED
      BY <1>f, <2>1, OverSubsets
  <2>. QED
    BY <1>1, <1>2, <2>2
<1>6. ASSUME start.max <= base.max, Raises(n, c, d) PROVE q.max <= r.max
  <2>1. ASSUME NEW T \in SUBSET S, \A x \in T : T \ {x} \in High PROVE T \in High
    <3>1. CASE T = {}
      BY <1>3, <1>6, <3>1
    <3>2. CASE T # {}
      <4>1. PICK x : x \in T
        BY <3>2
      <4>2. h[T \ {x}].max <= g[T \ {x}].max /\ d[x].max <= c[x].max
        BY <1>6, <2>1, <4>1 DEF Raises
      <4>3. /\ g[T].max = g[T \ {x}].max + c[x].max /\ h[T].max = h[T \ {x}].max + d[x].max
            /\ g[T \ {x}].max \in Int /\ h[T \ {x}].max \in Int /\ c[x].max \in Int /\ d[x].max \in Int
        BY <1>4, <4>1
      <4>4. h[T].max <= g[T].max
        BY <4>2, <4>3
      <4>. QED
        BY <4>4
    <3>. QED
      BY <3>1, <3>2
  <2>2. \A T \in SUBSET S : T \in High
    <3>. HIDE DEF High
    <3>. QED
      BY <1>f, <2>1, OverSubsets
  <2>. QED
    BY <1>1, <1>2, <2>2
<1>. QED
  BY <1>5, <1>6

LEMMA TallyGap ==
    ASSUME NEW n \in Nat, NEW base, NEW start, NEW c \in [1 .. n -> Ranges], NEW d \in [1 .. n -> Ranges],
           NEW r, NEW q, Tally(n, base, c, r), Tally(n, start, d, q), NEW o \in 1 .. n
    PROVE  /\ base.min <= start.min /\ Lowers(n, c, d) => r.min - c[o].min + d[o].min <= q.min
           /\ start.max <= base.max /\ Raises(n, c, d) => q.max <= r.max - c[o].max + d[o].max
<1>0. /\ r \in Ranges /\ r.min \in Int /\ r.max \in Int /\ c[o].min \in Int /\ c[o].max \in Int
      /\ d[o].min \in Int /\ d[o].max \in Int
  <2>1. r \in Ranges /\ c[o] \in Ranges /\ d[o] \in Ranges
    BY TallyType
  <2>. QED
    BY <2>1 DEF Ranges
<1>1. PICK e \in [1 .. n -> Ranges] : e[o] = d[o] /\ \A x \in (1 .. n) \ {o} : e[x] = c[x]
  <2>. DEFINE e == [x \in 1 .. n |-> IF x = o THEN d[o] ELSE c[x]]
  <2>1. e \in [1 .. n -> Ranges] /\ e[o] = d[o] /\ \A x \in (1 .. n) \ {o} : e[x] = c[x]
    OBVIOUS
  <2>. QED
    BY <2>1
<1>2. PICK p \in Ranges : p.min = r.min - c[o].min + d[o].min /\ p.max = r.max - c[o].max + d[o].max
  <2>. DEFINE p == Diff(r.min - c[o].min + d[o].min, r.max - c[o].max + d[o].max)
  <2>1. p \in Ranges /\ p.min = r.min - c[o].min + d[o].min /\ p.max = r.max - c[o].max + d[o].max
    BY <1>0 DEF Diff, Ranges
  <2>. HIDE DEF p
  <2>. QED
    BY <2>1
<1>3. Tally(n, base, e, p)
  BY <1>1, <1>2, TallyChange
<1>4. (Lowers(n, c, d) => Lowers(n, e, d)) /\ (Raises(n, c, d) => Raises(n, e, d))
  BY <1>0, <1>1, SMTT(30) DEF Lowers, Raises
<1>5. /\ base.min <= start.min /\ Lowers(n, e, d) => p.min <= q.min
      /\ start.max <= base.max /\ Raises(n, e, d) => q.max <= p.max
  BY <1>3, TallyBelow
<1>. QED
  BY <1>2, <1>4, <1>5

LEMMA AmountHolds ==
    ASSUME NEW y \in Systems, "cnt" \in y.choices, y.cnt.chosen, NEW nums \in SUBSET Range(NumUniverse), NEW x \in nums,
           NEW A, A = AmountOf(y, nums)
    PROVE  x \in Nat /\ A.min <= x /\ x <= A.max
<1>. SUFFICES ASSUME NEW d, d = NumSetOf(nums), NEW bits, bits = {k \in DOMAIN NumUniverse : NumUniverse[k] \in nums}
              PROVE  x \in Nat /\ A.min <= x /\ x <= A.max
  OBVIOUS
<1>1. A.min = MinValue(d) /\ A.max = MaxValue(d)
  BY DEF AmountOf, Diff
<1>2. d = NumericSet(NumUniverse, bits) /\ d.kind = "set" /\ d.bits = bits /\ d.uni = NumUniverse
  BY DEF NumSetOf, NumericSet
<1>3. Universe(NumUniverse) /\ DOMAIN NumUniverse = 1 .. Len(NumUniverse)
  BY UniverseAssumption DEF Universe, Ordered
<1>4. PICK p \in DOMAIN NumUniverse : NumUniverse[p] = x
  BY DEF Range
<1>5. bits \in SUBSET (1 .. Len(NumUniverse)) /\ p \in bits
  BY <1>3, <1>4
<1>6. Bounded(d)
  BY <1>2, <1>3, <1>5, SetBounded
<1>7. Gamma(d) = {d.uni[k] : k \in d.bits \cap DOMAIN d.uni}
  BY <1>2, SetDef, Zenon
<1>8. x \in Gamma(d)
  BY <1>2, <1>4, <1>5, <1>7
<1>. QED
  BY <1>1, <1>6, <1>8, Constants DEF Bounded

\* The domains that have been propagated in w hold m.
Remains(y, m, w) == \A k \in Ks(y) : m[k] \in OldDomain(w, k) /\ OldDomain(w, k) \subseteq Full(k[1])

LEMMA RemainsIn ==
    ASSUME NEW y, NEW m, NEW s, Shaped(y, s), Holding(y, m, s)
    PROVE  Remains(y, m, s) /\ Values(y, m)
BY DEF Shaped, Holding, Remains, Values, OldDomain

LEMMA RemainsValues ==
    ASSUME NEW y, NEW m, NEW w, Remains(y, m, w)
    PROVE  Values(y, m)
BY DEF Remains, Values

LEMMA ShareHolds ==
    ASSUME NEW y \in Systems, "cnt" \in y.choices, NEW m, NEW w, Remains(y, m, w), NEW o \in 1 .. y.objs,
           NEW a, a = Shares(y, w)[o], NEW x, x = Contrib(y, m, o)
    PROVE  a.min <= x /\ (~Half(y) => x <= a.max)
<1>. SUFFICES ASSUME NEW flags, flags = OldDomain(w, FlagKey(o)), NEW nums, nums = NumsOf(y, w, o),
                     NEW A, A = AmountOf(y, nums), NEW I, I = y.cnt.incr, NEW v, v = m[FlagKey(o)]
              PROVE  a.min <= x /\ (~Half(y) => x <= a.max)
  OBVIOUS
<1>1. /\ a.min = IF Is(flags, I) = "T" THEN A.min ELSE 0
      /\ a.max = IF ~Half(y) /\ Is(flags, I) # "F" THEN A.max ELSE 0
  BY DEF Shares, Share, Diff
<1>2. FlagKey(o) \in Ks(y) /\ (y.cnt.chosen => NumKey(o) \in Ks(y)) /\ y.cnt.amount \in Nat
  BY SystemsAssumption, ObjectInstances DEF FlagKey, NumKey
<1>3. v \in flags /\ (Is(flags, I) = "T" => v \in I) /\ (Is(flags, I) = "F" => v \notin I)
  BY <1>2, IsDef DEF Remains
<1>4. x \in Nat /\ (v \in I => x = IF y.cnt.chosen THEN m[NumKey(o)] ELSE y.cnt.amount) /\ (v \notin I => x = 0)
  <2>1. x \in Nat
    BY RemainsValues, ContribType
  <2>. QED
    BY <2>1 DEF Contrib
<1>5. y.cnt.chosen => LET z == m[NumKey(o)] IN z \in Nat /\ A.min <= z /\ z <= A.max
  <2>. SUFFICES ASSUME y.cnt.chosen, NEW z, z = m[NumKey(o)] PROVE z \in Nat /\ A.min <= z /\ z <= A.max
    OBVIOUS
  <2>1. nums = OldDomain(w, NumKey(o)) /\ NumKey(o)[1] = "num"
    BY DEF NumsOf, NumKey
  <2>2. z \in nums /\ nums \in SUBSET Range(NumUniverse)
    BY <1>2, <2>1, FullTypes DEF Remains
  <2>. QED
    BY <2>2, AmountHolds
<1>6. ~y.cnt.chosen => A.min = y.cnt.amount /\ A.max = y.cnt.amount
  BY DEF AmountOf, Diff
<1>7. A.min \in Int /\ A.max \in Int
  BY AmountType DEF Ranges
<1>8. CASE v \in I
  <2>1. A.min <= x /\ x <= A.max /\ Is(flags, I) # "F"
    BY <1>2, <1>3, <1>4, <1>5, <1>6, <1>8
  <2>. QED
    BY <1>1, <1>4, <2>1
<1>9. CASE v \notin I
  <2>1. x = 0 /\ Is(flags, I) # "T"
    BY <1>3, <1>4, <1>9
  <2>2. Is(flags, I) # "F" => 0 <= A.max
    <3>1. CASE y.cnt.chosen
      <4>1. PICK z \in Nat : z <= A.max
        BY <1>5, <3>1
      <4>. QED
        BY <1>7, <4>1
    <3>2. CASE ~y.cnt.chosen
      BY <1>2, <1>6, <3>2
    <3>. QED
      BY <3>1, <3>2, SystemsAssumption
  <2>. QED
    BY <1>1, <2>1, <2>2
<1>. QED
  BY <1>8, <1>9

LEMMA CountHolds ==
    ASSUME NEW y \in Systems, "cnt" \in y.choices, NEW m, NEW w, Remains(y, m, w), NEW x, CountOf(y, m, x),
           NEW r, Tally(y.objs, CountBase(y), Shares(y, w), r)
    PROVE  /\ r.min <= x /\ (~Half(y) => x <= r.max)
           /\ \A o \in 1 .. y.objs :
                /\ r.min - Shares(y, w)[o].min + Contrib(y, m, o) <= x
                /\ ~Half(y) => x <= r.max - Shares(y, w)[o].max + Contrib(y, m, o)
<1>. SUFFICES ASSUME NEW n, n = y.objs, NEW c, c = Shares(y, w), NEW d, d = Contribs(y, m),
                     NEW base, base = CountBase(y), NEW start, start = PointBase(y), NEW q, q = Diff(x, x)
              PROVE  /\ r.min <= x /\ (~Half(y) => x <= r.max)
                     /\ \A o \in 1 .. n : /\ r.min - c[o].min + Contrib(y, m, o) <= x
                                          /\ ~Half(y) => x <= r.max - c[o].max + Contrib(y, m, o)
  OBVIOUS
<1>1. n \in Nat /\ c \in [1 .. n -> Ranges] /\ Tally(n, base, c, r) /\ Tally(n, start, d, q) /\ x \in Nat
  BY SystemsAssumption, SharesType DEF CountOf
<1>2. q.min = x /\ q.max = x
  BY DEF Diff
<1>3. \A o \in 1 .. n : Contrib(y, m, o) \in Nat /\ d[o] = Diff(Contrib(y, m, o), Contrib(y, m, o))
  BY RemainsValues, ContribType DEF Contribs
<1>4. \A o \in 1 .. n : d[o].min = Contrib(y, m, o) /\ d[o].max = Contrib(y, m, o)
  <2>1. \A a, b : Diff(a, b).min = a /\ Diff(a, b).max = b
    BY DEF Diff
  <2>. QED
    BY <1>3, <2>1
<1>5. d \in [1 .. n -> Ranges]
  <2>1. \A z \in Nat : Diff(z, z) \in Ranges
    BY DEF Diff, Ranges
  <2>2. d = [o \in 1 .. n |-> d[o]]
    BY DEF Contribs
  <2>. QED
    BY <1>3, <2>1, <2>2
<1>6. \A o \in 1 .. n : c[o].min <= Contrib(y, m, o) /\ (~Half(y) => Contrib(y, m, o) <= c[o].max)
  BY ShareHolds
<1>7. Lowers(n, c, d) /\ (~Half(y) => Raises(n, c, d))
  BY <1>4, <1>6 DEF Lowers, Raises
<1>8. base.min <= start.min /\ (~Half(y) => start.max <= base.max)
  BY SystemsAssumption DEF CountBase, PointBase, Diff
<1>9. r.min <= q.min /\ (~Half(y) => q.max <= r.max)
  BY <1>1, <1>5, <1>7, <1>8, TallyBelow
<1>10. \A o \in 1 .. n : r.min - c[o].min + d[o].min <= q.min /\ (~Half(y) => q.max <= r.max - c[o].max + d[o].max)
  <2>. SUFFICES ASSUME NEW o \in 1 .. n
                PROVE  r.min - c[o].min + d[o].min <= q.min /\ (~Half(y) => q.max <= r.max - c[o].max + d[o].max)
    OBVIOUS
  <2>. QED
    BY <1>1, <1>5, <1>7, <1>8, TallyGap
<1>. QED
  BY <1>2, <1>4, <1>9, <1>10

-----------------------------------------------------------------------------
(* Handlers keep an assignment.                                              *)

Candidate(y, fl, m) ==
    /\ Compatible(y, fl, m)
    /\ "cnt" \in y.choices => \E x : CountOf(y, m, x) /\ x <= y.cnt.limit
Keeps(y, m, s) == s.ok /\ Holding(y, m, s)

LEMMA RestrictKeeps ==
    ASSUME NEW y \in Systems, NEW s, Shaped(y, s), NEW m, Keeps(y, m, s), NEW k \in Ks(y), NEW values, m[k] \in values,
           NEW t, t = RestrictChoice(s, k[1], k[2], values)
    PROVE  Keeps(y, m, t)
<1>. SUFFICES ASSUME NEW d, d = Meet(s, k, values) PROVE Keeps(y, m, t)
  OBVIOUS
<1>1. (t.ok <=> t.dom[k] # {}) /\ t.dom = Updated(s.dom, k, d) /\ t \in SpaceStates(y)
  BY RestrictIs DEF Keeps
<1>2. m[k] \in d /\ \A j \in Ks(y) : m[j] \in s.dom[j]
  BY DEF Keeps, Holding, Meet
<1>3. s.dom \in [Keys(y) -> Doms] /\ Ks(y) \subseteq Keys(y)
  BY StateIs DEF Shaped, Keys
<1>4. \A j \in Ks(y) : m[j] \in t.dom[j]
  BY <1>1, <1>2, <1>3 DEF Updated
<1>5. t.ok
  BY <1>1, <1>4
<1>. QED
  BY <1>4, <1>5 DEF Keeps, Holding

LEMMA CallKeeps ==
    ASSUME sys \in Systems, NEW m, Compatible(sys, filters, m), NEW s, Shaped(sys, s), Keeps(sys, m, s),
           NEW args, NEW call \in Calls(sys, args), NEW t, t = RunFilterCall(s, call)
    PROVE  Keeps(sys, m, t)
<1>. SUFFICES ASSUME NEW f, f = call[1], NEW a, a = call[4], NEW k, k = <<f.choice, a>>,
                     NEW bs, bs = {b \in Bindings(f, s.objs) : InstArgs(f.inputs[call[2]], b) = call[3] /\ ArgsOf(f.choice, b) = a},
                     NEW values, values = {v \in Full(f.choice) : \A b \in bs : v \in CallFilter(s, f, b)}
              PROVE  Keeps(sys, m, t)
  OBVIOUS
<1>1. k \in Ks(sys) /\ k[1] = f.choice /\ k[2] = a /\ \E i \in DOMAIN filters : f = filters[i]
  BY DEF Calls
<1>2. t = RestrictChoice(s, k[1], k[2], values)
  BY <1>1 DEF RunFilterCall, Keeps
<1>3. m[k] \in FilterBy(filters, s, k[1], k[2])
  BY <1>1 DEF Compatible, Keeps
<1>4. m[k] \in Full(f.choice) /\ \A b \in Bindings(f, s.objs) : ArgsOf(f.choice, b) = a => m[k] \in CallFilter(s, f, b)
  BY <1>1, <1>3 DEF FilterBy
<1>5. m[k] \in values
  BY <1>4
<1>. QED
  BY <1>1, <1>2, <1>5, RestrictKeeps

LEMMA ReadersKeep ==
    ASSUME sys \in Systems, FiltersTyped, NEW m, Compatible(sys, filters, m), NEW s, Shaped(sys, s), Keeps(sys, m, s),
           NEW k, NEW t, t = FilterReaders(s, k)
    PROVE  Keeps(sys, m, t)
<1>1. CASE ~(s.ok /\ k[1] # "cnt")
  BY <1>1 DEF FilterReaders
<1>2. CASE s.ok /\ k[1] # "cnt"
  <2>. SUFFICES ASSUME NEW args, args = k[2], NEW seq, seq = FilterCallsOn(s, k[1], args) PROVE Keeps(sys, m, t)
    OBVIOUS
  <2>. DEFINE B == {v \in SpaceStates(sys) : Shaped(sys, v) /\ Keeps(sys, m, v)}
  <2>0. s.objs = sys.objs /\ s \in SpaceStates(sys)
    BY StateIs DEF Shaped
  <2>1. seq \in Seq(Calls(sys, args))
    BY <2>0, FilterCallsTyped
  <2>2. Len(seq) \in Nat /\ DOMAIN seq = 1 .. Len(seq) /\ \A i \in DOMAIN seq : seq[i] \in Calls(sys, args)
    BY <2>1
  <2>3. s \in B
    BY <2>0
  <2>4. ASSUME NEW i \in DOMAIN seq, NEW v \in B PROVE Body("run_filter_call", s, v, seq[i]) \in B
    <3>. SUFFICES ASSUME NEW u, u = RunFilterCall(v, seq[i]) PROVE u \in B
      BY DEF Body
    <3>1. Shaped(sys, v) /\ Keeps(sys, m, v) /\ seq[i] \in Calls(sys, args)
      BY <2>2
    <3>2. Narrowed(sys, v, u)
      BY <3>1, FilterCallNarrows
    <3>3. Keeps(sys, m, u)
      BY <3>1, CallKeeps
    <3>. QED
      BY <3>2, <3>3 DEF Narrowed, Shaped
  <2>5. t = Loop("run_filter_call", s, s, seq)
    BY <1>2, FilterCallLoop DEF FilterReaders
  <2>. HIDE DEF B
  <2>6. StaysIn("run_filter_call", s, seq, B)
    BY <2>4 DEF StaysIn
  <2>7. t \in B
    BY <2>2, <2>3, <2>5, <2>6, LoopStays
  <2>. QED
    BY <2>7 DEF B
<1>. QED
  BY <1>1, <1>2

\* A counter computed on the domains of w, which hold m, in a state that has restricted them.
Backed(y, m, w, s) ==
    /\ Remains(y, m, w) /\ \A k \in Ks(y) : s.dom[k] \subseteq OldDomain(w, k)
    /\ Tally(y.objs, CountBase(y), Shares(y, w), s.dom[Cnt])

Between(new, x) == new \in Ranges /\ new.min <= x /\ x <= new.max

LEMMA ClampHolds ==
    ASSUME sys \in Systems, Adds(sys), NEW m, NEW w, NEW s, Backed(sys, m, w, s),
           NEW x, CountOf(sys, m, x), x <= sys.cnt.limit, NEW new, new = ClampedCounter(s)
    PROVE  Between(new, x)
<1>. SUFFICES ASSUME NEW r, r = s.dom[Cnt], NEW L, L = sys.cnt.limit PROVE Between(new, x)
  OBVIOUS
<1>1. "cnt" \in sys.choices /\ L \in Nat /\ x \in Nat /\ sys.objs \in Nat /\ Tally(sys.objs, CountBase(sys), Shares(sys, w), r)
  BY SystemsAssumption DEF Adds, CountOf, Backed
<1>2. r \in Ranges /\ r.min \in Int /\ r.max \in Int
  <2>1. r \in Ranges
    BY <1>1, TallyType
  <2>. QED
    BY <2>1 DEF Ranges
<1>3. r.min <= x /\ (~Half(sys) => x <= r.max)
  BY <1>1, CountHolds DEF Backed
<1>4. /\ Max({r.min, 0}) = IF r.min <= 0 THEN 0 ELSE r.min
      /\ Min({r.max, L}) = IF r.max <= L THEN r.max ELSE L
  <2>1. \A a, b \in Int : Max({a, b}) = (IF a <= b THEN b ELSE a) /\ Min({a, b}) = (IF a <= b THEN a ELSE b)
    BY PairBounds
  <2>2. 0 \in Int /\ L \in Int
    BY <1>1
  <2>. QED
    BY <1>2, <2>1, <2>2
<1>5. new = Diff(Max({r.min, 0}), IF Half(sys) THEN L ELSE Min({r.max, L}))
  <2>1. CounterFilter.min = 0 /\ CounterFilter.max = L
    BY DEF CounterFilter, Diff
  <2>. QED
    BY <2>1 DEF ClampedCounter, IsHalf, Half
<1>6. new.min = Max({r.min, 0}) /\ new.max = IF Half(sys) THEN L ELSE Min({r.max, L})
  BY <1>5 DEF Diff
<1>7. new \in Ranges
  <2>1. Max({r.min, 0}) \in Int /\ (IF Half(sys) THEN L ELSE Min({r.max, L})) \in Int
    BY <1>1, <1>2, <1>4
  <2>2. \A a, b \in Int : Diff(a, b) \in Ranges
    BY DEF Diff, Ranges
  <2>. QED
    BY <1>5, <2>1, <2>2
<1>8. new.min <= x /\ x <= new.max
  BY <1>1, <1>2, <1>3, <1>4, <1>6
<1>. QED
  BY <1>7, <1>8 DEF Between

LEMMA AmountNarrows ==
    ASSUME NEW y \in Systems, "cnt" \in y.choices, y.cnt.chosen, NEW wide \in SUBSET Range(NumUniverse),
           NEW nums \in SUBSET wide, nums # {}, NEW A, A = AmountOf(y, nums), NEW W, W = AmountOf(y, wide)
    PROVE  W.min <= A.min /\ A.max <= W.max /\ A.min \in Nat
<1>. SUFFICES ASSUME NEW d, d = NumSetOf(nums), NEW bits, bits = {k \in DOMAIN NumUniverse : NumUniverse[k] \in nums}
              PROVE  W.min <= A.min /\ A.max <= W.max /\ A.min \in Nat
  OBVIOUS
<1>1. A.min = MinValue(d) /\ A.max = MaxValue(d)
  BY DEF AmountOf, Diff
<1>2. d = NumericSet(NumUniverse, bits) /\ d.kind = "set" /\ d.bits = bits /\ d.uni = NumUniverse
  BY DEF NumSetOf, NumericSet
<1>3. Universe(NumUniverse) /\ DOMAIN NumUniverse = 1 .. Len(NumUniverse)
  BY UniverseAssumption DEF Universe, Ordered
<1>4. bits \in SUBSET (1 .. Len(NumUniverse)) /\ bits # {}
  <2>1. PICK x \in nums : x \in Range(NumUniverse)
    OBVIOUS
  <2>2. PICK p \in DOMAIN NumUniverse : NumUniverse[p] = x
    BY <2>1 DEF Range
  <2>. QED
    BY <1>3, <2>2
<1>5. Bounded(d)
  BY <1>2, <1>3, <1>4, SetBounded
<1>6. Gamma(d) = {d.uni[k] : k \in d.bits \cap DOMAIN d.uni}
  BY <1>2, SetDef, Zenon
<1>7. Gamma(d) \subseteq nums
  BY <1>2, <1>6
<1>8. A.min \in wide /\ A.max \in wide
  BY <1>1, <1>5, <1>7 DEF Bounded
<1>. QED
  BY <1>8, AmountHolds

LEMMA LeqHolds ==
    ASSUME NEW z \in Range(NumUniverse), NEW K \in Int, z <= K
    PROVE  z \in Gamma(NewNumericSet("Leq", NumUniverse, ConstOf(K)))
<1>. SUFFICES ASSUME NEW u, u = NumUniverse, NEW b, b = ConstOf(K) PROVE z \in Gamma(NewNumericSet("Leq", u, b))
  OBVIOUS
<1>1. Universe(u) /\ DOMAIN u = 1 .. Len(u)
  BY UniverseAssumption DEF Universe, Ordered
<1>2. PICK p \in 1 .. Len(u) : u[p] = z
  BY <1>1 DEF Range
<1>3. z \in Nat /\ K \in Nat
  <2>1. z \in Nat
    BY <1>1, <1>2, Increasing DEF Universe
  <2>. QED
    BY <2>1
<1>4. MaxValue(b) = K
  <2>1. b.kind = "const" /\ b.val = K
    BY DEF ConstOf
  <2>. QED
    BY <2>1, ConstDef
<1>5. After(u, K, TRUE) \in 0 .. Len(u) /\ p <= After(u, K, TRUE)
  BY <1>1, <1>2, <1>3, AfterIs
<1>6. NewNumericSet("Leq", u, b) = NumericSet(u, Ones(0, After(u, K, TRUE)))
  BY <1>4, NewSetDef
<1>. QED
  BY <1>1, <1>2, <1>5, <1>6, MasksKeep

NumsIn(y, s, o) == IF y.cnt.chosen THEN s.dom[NumKey(o)] ELSE {}

\* The increment of an object is between those of its domains now and when the counter
\* was computed.
LEMMA AmountsHold ==
    ASSUME NEW y \in Systems, "cnt" \in y.choices, NEW m, NEW w, NEW s, Backed(y, m, w, s), Holding(y, m, s), NEW o \in 1 .. y.objs,
           NEW A, A = AmountOf(y, NumsIn(y, s, o)), NEW W, W = AmountOf(y, NumsOf(y, w, o)), NEW x, x = Contrib(y, m, o)
    PROVE  /\ A.min \in Nat /\ A.max \in Int /\ W.min \in Int /\ W.max \in Int /\ x \in Nat
           /\ W.min <= A.min /\ A.max <= W.max
           /\ m[FlagKey(o)] \in y.cnt.incr => A.min <= x
           /\ m[FlagKey(o)] \notin y.cnt.incr => x = 0
<1>1. A \in Ranges /\ W \in Ranges /\ y.cnt.amount \in Nat /\ x \in Nat
  BY AmountType, SystemsAssumption, RemainsValues, ContribType DEF Backed
<1>2. A.min \in Int /\ A.max \in Int /\ W.min \in Int /\ W.max \in Int
  BY <1>1 DEF Ranges
<1>3. m[FlagKey(o)] \notin y.cnt.incr => x = 0
  BY DEF Contrib
<1>4. CASE ~y.cnt.chosen
  <2>1. A.min = y.cnt.amount /\ A.max = y.cnt.amount /\ W.min = y.cnt.amount /\ W.max = y.cnt.amount
    BY <1>4 DEF AmountOf, Diff
  <2>2. m[FlagKey(o)] \in y.cnt.incr => x = y.cnt.amount
    BY <1>4 DEF Contrib
  <2>. QED
    BY <1>1, <1>2, <1>3, <2>1, <2>2
<1>5. CASE y.cnt.chosen
  <2>. SUFFICES ASSUME NEW nums, nums = s.dom[NumKey(o)], NEW wide, wide = OldDomain(w, NumKey(o)),
                       NEW z, z = m[NumKey(o)]
                PROVE  /\ A.min \in Nat /\ W.min <= A.min /\ A.max <= W.max
                       /\ m[FlagKey(o)] \in y.cnt.incr => A.min <= x
    BY <1>1, <1>2, <1>3
  <2>1. A = AmountOf(y, nums) /\ W = AmountOf(y, wide)
    BY <1>5 DEF NumsIn, NumsOf
  <2>2. NumKey(o) \in Ks(y) /\ NumKey(o)[1] = "num"
    BY <1>5, SystemsAssumption, ObjectInstances DEF NumKey
  <2>3. z \in nums /\ nums \in SUBSET wide /\ wide \in SUBSET Range(NumUniverse)
    BY <2>2, FullTypes DEF Backed, Holding, Remains
  <2>4. A.min \in Nat /\ W.min <= A.min /\ A.max <= W.max
    BY <1>5, <2>1, <2>3, AmountNarrows
  <2>5. A.min <= z
    BY <1>5, <2>1, <2>3, AmountHolds
  <2>6. m[FlagKey(o)] \in y.cnt.incr => x = z
    BY <1>5 DEF Contrib
  <2>. QED
    BY <2>4, <2>5, <2>6
<1>. QED
  BY <1>4, <1>5, SystemsAssumption

LEMMA CurrentAmount ==
    ASSUME NEW s, NEW o
    PROVE  Amount(s, o) = AmountOf(sys, NumsIn(sys, s, o))
BY DEF Amount, AmountIn, AmountOf, NumsIn, NumKey

\* The shares of an object, from its domains when the counter was computed.
LEMMA BackedShare ==
    ASSUME NEW y \in Systems, "cnt" \in y.choices, NEW m, NEW w, NEW s, Backed(y, m, w, s), NEW o \in 1 .. y.objs,
           NEW a, a = Shares(y, w)[o], NEW W, W = AmountOf(y, NumsOf(y, w, o)),
           NEW flags, flags = s.dom[FlagKey(o)]
    PROVE  /\ Is(flags, y.cnt.incr) = "M" => a.min = 0 /\ (~Half(y) => a.max = W.max)
           /\ a.min = 0 \/ a.min = W.min
<1>. SUFFICES ASSUME NEW wide, wide = OldDomain(w, FlagKey(o)), NEW I, I = y.cnt.incr
              PROVE  /\ Is(flags, I) = "M" => a.min = 0 /\ (~Half(y) => a.max = W.max)
                     /\ a.min = 0 \/ a.min = W.min
  OBVIOUS
<1>1. /\ a.min = IF Is(wide, I) = "T" THEN W.min ELSE 0
      /\ a.max = IF ~Half(y) /\ Is(wide, I) # "F" THEN W.max ELSE 0
  BY DEF Shares, Share, Diff
<1>2. flags \subseteq wide
  <2>1. FlagKey(o) \in Ks(y)
    BY SystemsAssumption, ObjectInstances DEF FlagKey
  <2>. QED
    BY <2>1 DEF Backed
<1>3. Is(flags, I) = "M" => Is(wide, I) # "T" /\ Is(wide, I) # "F"
  <2>. SUFFICES ASSUME Is(flags, I) = "M" PROVE Is(wide, I) # "T" /\ Is(wide, I) # "F"
    OBVIOUS
  <2>1. flags \cap I # {} /\ ~(flags \subseteq I)
    BY DEF Is
  <2>. QED
    BY <1>2, <2>1, IsDef
<1>. QED
  BY <1>1, <1>3

LEMMA FlagBoundHolds ==
    ASSUME sys \in Systems, Adds(sys), NEW m, NEW w, NEW s, Backed(sys, m, w, s), Holding(sys, m, s),
           NEW o \in 1 .. sys.objs, NEW x, CountOf(sys, m, x), NEW new, Between(new, x),
           Is(s.dom[FlagKey(o)], sys.cnt.incr) = "M"
    PROVE  m[FlagKey(o)] \in FlagBound(s, o, new)
<1>. SUFFICES ASSUME NEW r, r = s.dom[Cnt], NEW a, a = Shares(sys, w)[o], NEW c, c = Contrib(sys, m, o),
                     NEW A, A = AmountOf(sys, NumsIn(sys, s, o)), NEW W, W = AmountOf(sys, NumsOf(sys, w, o)),
                     NEW v, v = m[FlagKey(o)], NEW I, I = sys.cnt.incr
              PROVE  v \in FlagBound(s, o, new)
  OBVIOUS
<1>0. "cnt" \in sys.choices /\ sys.cnt.kind = "Add" /\ sys.objs \in Nat /\ x \in Nat
  BY SystemsAssumption DEF Adds, CountOf
<1>1. /\ A.min \in Nat /\ A.max \in Int /\ W.min \in Int /\ W.max \in Int /\ c \in Nat
      /\ W.min <= A.min /\ A.max <= W.max /\ (v \in I => A.min <= c) /\ (v \notin I => c = 0)
  BY <1>0, AmountsHold
<1>2. a.min = 0 /\ (~Half(sys) => a.max = W.max)
  BY <1>0, BackedShare
<1>3. r.min \in Int /\ r.max \in Int /\ new.min \in Int /\ new.max \in Int /\ new.min <= x /\ x <= new.max
  <2>1. r \in Ranges
    BY <1>0, TallyType DEF Backed
  <2>. QED
    BY <2>1 DEF Ranges, Between
<1>4. r.min - a.min + c <= x /\ (~Half(sys) => x <= r.max - a.max + c)
  BY <1>0, CountHolds DEF Backed
<1>5. v \in EnumValues
  <2>1. FlagKey(o) \in Ks(sys) /\ FlagKey(o)[1] = "flag"
    BY <1>0, SystemsAssumption, ObjectInstances DEF FlagKey
  <2>. QED
    BY <2>1, RemainsValues, FullTypes DEF Backed, Values
<1>6. r.min + A.min > new.max => v \notin I
  BY <1>0, <1>1, <1>2, <1>3, <1>4
<1>7. ~Half(sys) /\ r.max < new.min + A.max => v \in I
  BY <1>0, <1>1, <1>2, <1>3, <1>4
<1>8. FlagBound(s, o, new) =
        {e \in EnumValues : /\ r.min + A.min > new.max => e \notin I
                            /\ ~Half(sys) /\ r.max < new.min + A.max => e \in I}
  BY <1>0, AddDef, CurrentAmount DEF FlagBound
<1>. QED
  BY <1>5, <1>6, <1>7, <1>8

LEMMA AmountBoundHolds ==
    ASSUME sys \in Systems, Adds(sys), sys.cnt.chosen, NEW m, NEW w, NEW s, Backed(sys, m, w, s), Holding(sys, m, s),
           NEW o \in 1 .. sys.objs, NEW x, CountOf(sys, m, x), NEW new, Between(new, x),
           Is(s.dom[FlagKey(o)], sys.cnt.incr) = "T"
    PROVE  m[NumKey(o)] \in AmountBound(s, o, new)
<1>. SUFFICES ASSUME NEW r, r = s.dom[Cnt], NEW a, a = Shares(sys, w)[o], NEW c, c = Contrib(sys, m, o),
                     NEW A, A = AmountOf(sys, NumsIn(sys, s, o)), NEW W, W = AmountOf(sys, NumsOf(sys, w, o)),
                     NEW v, v = m[FlagKey(o)], NEW I, I = sys.cnt.incr, NEW z, z = m[NumKey(o)],
                     NEW K, K = new.max - r.min + A.min
              PROVE  z \in AmountBound(s, o, new)
  OBVIOUS
<1>0. "cnt" \in sys.choices /\ sys.cnt.kind = "Add" /\ sys.objs \in Nat /\ x \in Nat
  BY SystemsAssumption DEF Adds, CountOf
<1>1. /\ A.min \in Nat /\ A.max \in Int /\ W.min \in Int /\ W.max \in Int /\ c \in Nat
      /\ W.min <= A.min /\ A.max <= W.max
  BY <1>0, AmountsHold
<1>2. a.min = 0 \/ a.min = W.min
  BY <1>0, BackedShare
<1>3. r.min \in Int /\ r.max \in Int /\ new.min \in Int /\ new.max \in Int /\ new.min <= x /\ x <= new.max
  <2>1. r \in Ranges
    BY <1>0, TallyType DEF Backed
  <2>. QED
    BY <2>1 DEF Ranges, Between
<1>4. r.min - a.min + c <= x
  BY <1>0, CountHolds DEF Backed
<1>k. FlagKey(o) \in Ks(sys) /\ NumKey(o) \in Ks(sys) /\ NumKey(o)[1] = "num"
  BY <1>0, SystemsAssumption, ObjectInstances DEF FlagKey, NumKey
<1>5. c = z
  <2>1. v \in s.dom[FlagKey(o)]
    BY <1>k DEF Holding
  <2>2. v \in I
    BY <2>1, IsDef
  <2>. QED
    BY <2>2 DEF Contrib
<1>6. z \in Range(NumUniverse)
  BY <1>k, RemainsValues, FullTypes DEF Backed, Values
<1>7. K \in Int /\ z <= K
  BY <1>0, <1>1, <1>2, <1>3, <1>4, <1>5
<1>8. AmountBound(s, o, new) = Gamma(NewNumericSet("Leq", NumUniverse, ConstOf(K)))
  BY <1>0, AddDef, CurrentAmount DEF AmountBound
<1>. QED
  BY <1>6, <1>7, <1>8, LeqHolds

LEMMA BackedNarrowed ==
    ASSUME NEW y, "cnt" \in y.choices, NEW m, NEW w, NEW s, Backed(y, m, w, s), NEW t, Narrowed(y, s, t)
    PROVE  Backed(y, m, w, t)
<1>1. t.dom[Cnt] = s.dom[Cnt] /\ \A k \in Ks(y) : t.dom[k] \subseteq s.dom[k]
  BY DEF Narrowed
<1>. QED
  BY <1>1 DEF Backed

\* restrict_counter and restrict_incr_amount on one object keep an assignment whose count
\* the counter admits.
LEMMA CounterStepKeeps ==
    ASSUME sys \in Systems, Adds(sys), NEW m, NEW w, NEW s, Shaped(sys, s), Keeps(sys, m, s), Backed(sys, m, w, s),
           NEW o \in 1 .. sys.objs, NEW x, CountOf(sys, m, x), NEW new, Between(new, x),
           NEW t, t = Body("restrict_counter", new, s, o)
    PROVE  Keeps(sys, m, t)
<1>k. FlagKey(o) \in Ks(sys) /\ (sys.cnt.chosen => NumKey(o) \in Ks(sys))
  BY SystemsAssumption, ObjectInstances DEF FlagKey, NumKey, Adds
<1>h. s.ok /\ Holding(sys, m, s)
  BY DEF Keeps
<1>1. CASE t = s
  BY <1>1
<1>2. ASSUME Is(s.dom[FlagKey(o)], sys.cnt.incr) = "M", t = RestrictChoice(s, "flag", <<o>>, FlagBound(s, o, new))
      PROVE  Keeps(sys, m, t)
  <2>. SUFFICES ASSUME NEW k \in Ks(sys), k = FlagKey(o), NEW values, values = FlagBound(s, o, new) PROVE Keeps(sys, m, t)
    BY <1>k
  <2>1. m[k] \in values
    BY <1>h, <1>2, FlagBoundHolds
  <2>2. t = RestrictChoice(s, k[1], k[2], values)
    BY <1>2 DEF FlagKey
  <2>. QED
    BY <2>1, <2>2, RestrictKeeps
<1>3. ASSUME sys.cnt.chosen, Is(s.dom[FlagKey(o)], sys.cnt.incr) = "T",
             t = RestrictChoice(s, "num", <<o>>, AmountBound(s, o, new))
      PROVE  Keeps(sys, m, t)
  <2>. SUFFICES ASSUME NEW k \in Ks(sys), k = NumKey(o), NEW values, values = AmountBound(s, o, new) PROVE Keeps(sys, m, t)
    BY <1>k, <1>3
  <2>1. m[k] \in values
    BY <1>h, <1>3, AmountBoundHolds
  <2>2. t = RestrictChoice(s, k[1], k[2], values)
    BY <1>3 DEF NumKey
  <2>. QED
    BY <2>1, <2>2, RestrictKeeps
<1>4. \/ t = s
      \/ /\ Is(s.dom[FlagKey(o)], sys.cnt.incr) = "M"
         /\ t = RestrictChoice(s, "flag", <<o>>, FlagBound(s, o, new))
      \/ /\ sys.cnt.chosen /\ Is(s.dom[FlagKey(o)], sys.cnt.incr) = "T"
         /\ t = RestrictChoice(s, "num", <<o>>, AmountBound(s, o, new))
  BY DEF Body, CounterStep, FlagKey
<1>. QED
  BY <1>1, <1>2, <1>3, <1>4

LEMMA RestrictCounterKeeps ==
    ASSUME sys \in Systems, Adds(sys), NEW m, NEW w, NEW s, Shaped(sys, s), Keeps(sys, m, s), Backed(sys, m, w, s),
           NEW x, CountOf(sys, m, x), x <= sys.cnt.limit, NEW t, t = RestrictCounter(s)
    PROVE  Keeps(sys, m, t)
<1>. SUFFICES ASSUME NEW new, new = ClampedCounter(s) PROVE Keeps(sys, m, t)
  OBVIOUS
<1>0. "cnt" \in sys.choices /\ s.ok /\ x \in Nat
  BY DEF Adds, Keeps, CountOf
<1>1. Between(new, x)
  BY ClampHolds
<1>2. ~(new.min > new.max)
  BY <1>0, <1>1 DEF Between, Ranges
<1>. DEFINE B == {v \in SpaceStates(sys) : Shaped(sys, v) /\ Keeps(sys, m, v) /\ Backed(sys, m, w, v)}
            seq == [o \in 1 .. s.objs |-> o]
<1>3. s.objs = sys.objs /\ sys.objs \in Nat /\ s \in SpaceStates(sys)
  BY StateIs, SystemsAssumption DEF Shaped
<1>4. DOMAIN seq = 1 .. sys.objs /\ \A i \in DOMAIN seq : seq[i] = i
  BY <1>3
<1>5. s \in B
  BY <1>3
<1>6. ASSUME NEW i \in DOMAIN seq, NEW v \in B PROVE Body("restrict_counter", new, v, seq[i]) \in B
  <2>. SUFFICES ASSUME NEW u, u = Body("restrict_counter", new, v, i) PROVE u \in B
    BY <1>4
  <2>1. Shaped(sys, v) /\ Keeps(sys, m, v) /\ Backed(sys, m, w, v) /\ i \in 1 .. sys.objs
    BY <1>4
  <2>2. Narrowed(sys, v, u)
    BY <1>0, <2>1, CounterStepNarrows
  <2>3. Keeps(sys, m, u)
    BY <1>1, <2>1, CounterStepKeeps
  <2>4. Backed(sys, m, w, u)
    BY <1>0, <2>1, <2>2, BackedNarrowed
  <2>. QED
    BY <2>2, <2>3, <2>4 DEF Narrowed, Shaped
<1>7. t = Loop("restrict_counter", new, s, seq)
  BY <1>0, <1>2, RestrictCounterLoop
<1>. HIDE DEF B, seq
<1>8. StaysIn("restrict_counter", new, seq, B)
  BY <1>6 DEF StaysIn
<1>9. t \in B
  BY <1>3, <1>4, <1>5, <1>7, <1>8, LoopStays
<1>. QED
  BY <1>9 DEF B

-----------------------------------------------------------------------------
(* X::on_change keeps an assignment.                                         *)

LEMMA CountChangeKeeps ==
    ASSUME sys \in Systems, Additive(sys), NEW fl, NEW m, Candidate(sys, fl, m), NEW s, Counted(sys, s), Keeps(sys, m, s),
           NEW k \in DOMAIN s.diff, NEW u, u = Popped(s, k), NEW t, t = CountChange(u, k, s.diff[k].old, s.diff[k].new)
    PROVE  Keeps(sys, m, t)
<1>0. /\ Shaped(sys, s) /\ Shaped(sys, u) /\ u.dom = s.dom /\ u.ok /\ s.ok
      /\ HasCounter <=> "cnt" \in sys.choices
      /\ HasCounter => Exact(sys, s) /\ Adds(sys)
  <2>1. Shaped(sys, s) /\ s.ok
    BY DEF Counted, Keeps
  <2>2. Shaped(sys, u) /\ u.dom = s.dom /\ u.ok
    BY <2>1, PoppedIs
  <2>3. /\ HasCounter <=> "cnt" \in sys.choices
        /\ HasCounter => Exact(sys, s) /\ Adds(sys)
    BY DEF Counted, Additive, Adds, HasCounter
  <2>. QED
    BY <2>1, <2>2, <2>3
<1>h. Keeps(sys, m, u)
  BY <1>0 DEF Keeps, Holding
<1>1. k \in Keys(sys)
  <2>1. PICK D \in SUBSET Keys(sys) : s.diff \in [D -> [old : Doms, new : Doms]]
    BY <1>0 DEF Shaped, SpaceStates, Diffs
  <2>. QED
    BY <2>1
<1>x. HasCounter => \E x : CountOf(sys, m, x) /\ x <= sys.cnt.limit
  BY <1>0 DEF Candidate
<1>r. ASSUME HasCounter, Recounted(sys, u, t), Tallied(sys, t) PROVE Keeps(sys, m, t)
  <2>1. PICK x : CountOf(sys, m, x) /\ x <= sys.cnt.limit
    BY <1>r, <1>x, SMTT(30)
  <2>2. Shaped(sys, t) /\ Holding(sys, m, t)
    BY <1>h, <1>r DEF Recounted, Keeps, Holding
  <2>3. Remains(sys, m, t)
    BY <2>2, RemainsIn
  <2>. SUFFICES ASSUME NEW r, r = t.dom[Cnt] PROVE Keeps(sys, m, t)
    OBVIOUS
  <2>4. Tally(sys.objs, CountBase(sys), Shares(sys, t), r)
    BY <1>r DEF Tallied
  <2>5. r.min <= x /\ (~Half(sys) => x <= r.max)
    BY <1>0, <1>r, <2>1, <2>3, <2>4, CountHolds
  <2>6. r.min \in Int /\ r.max \in Int /\ x \in Nat
    <3>1. r \in Ranges
      BY <2>4, TallyType, SystemsAssumption, SMTT(30)
    <3>. QED
      BY <2>1, <3>1 DEF Ranges, CountOf
  <2>7. t.ok
    <3>1. u.ok => t.ok \/ (~Half(sys) /\ ~(t.dom[Cnt].min <= t.dom[Cnt].max))
      BY <1>r DEF Recounted
    <3>2. ~Half(sys) => r.min <= r.max
      BY <2>5, <2>6
    <3>. QED
      BY <1>0, <3>1, <3>2
  <2>. QED
    BY <2>2, <2>7 DEF Keeps
<1>2. CASE k = Cnt
  <2>1. k[1] = "cnt" /\ "cnt" \in sys.choices /\ \A o : k # FlagKey(o) /\ k # NumKey(o)
    BY <1>1, <1>2, InstanceShape DEF Cnt, FlagKey, NumKey, Keys
  <2>2. Exact(sys, u)
    BY <1>0, <2>1, PopOther
  <2>3. t = RestrictCounter(u)
    BY <2>1, CountChangeIs
  <2>4. PICK x : CountOf(sys, m, x) /\ x <= sys.cnt.limit
    BY <1>0, <1>x, <2>1
  <2>5. Remains(sys, m, u)
    BY <1>0, <1>h, RemainsIn DEF Keeps
  <2>6. \A j \in Ks(sys) : u.dom[j] \subseteq OldDomain(u, j)
    BY <1>0 DEF Shaped, OldDomain
  <2>7. Backed(sys, m, u, u)
    BY <1>0, <2>2, <2>5, <2>6 DEF Backed, Exact, Tallied
  <2>. QED
    BY <1>0, <1>h, <2>1, <2>3, <2>4, <2>7, RestrictCounterKeeps
<1>3. CASE k \in Ks(sys)
  <2>0. k[1] \in {"flag", "num", "rel"}
    BY <1>3, InstanceShape
  <2>1. CASE k[1] = "flag" /\ HasCounter
    <3>1. PICK o \in 1 .. sys.objs : k = FlagKey(o) /\ k[2] = <<o>>
      BY <1>3, <2>1, InstanceShape DEF FlagKey
    <3>2. t = IncrCounter(u, o, s.diff[k].old, s.diff[k].new)
      BY <2>1, <3>1, CountChangeIs
    <3>3. Recounted(sys, u, t) /\ Tallied(sys, t)
      BY <1>0, <2>1, <3>1, <3>2, IncrExact
    <3>. QED
      BY <1>r, <2>1, <3>3
  <2>2. CASE k[1] = "num" /\ HasCounter /\ sys.cnt.chosen
    <3>1. PICK o \in 1 .. sys.objs : k = NumKey(o) /\ k[2] = <<o>>
      BY <1>3, <2>2, InstanceShape DEF NumKey
    <3>2. t = UpdateCounter(u, o, s.diff[k].old, s.diff[k].new)
      BY <2>2, <3>1, CountChangeIs
    <3>3. Recounted(sys, u, t) /\ Tallied(sys, t)
      BY <1>0, <2>2, <3>1, <3>2, UpdateExact
    <3>. QED
      BY <1>r, <2>2, <3>3
  <2>3. CASE ~(k[1] = "flag" /\ HasCounter) /\ ~(k[1] = "num" /\ HasCounter /\ sys.cnt.chosen)
    <3>1. t = u
      BY <2>0, <2>3, CountChangeIs
    <3>. QED
      BY <1>h, <3>1
  <2>. QED
    BY <2>1, <2>2, <2>3
<1>. QED
  BY <1>1, <1>2, <1>3 DEF Keys

LEMMA OnChangeKeeps ==
    ASSUME sys \in Systems, Additive(sys), sys.trigger = {}, FiltersTyped, NEW m, Candidate(sys, filters, m),
           NEW s, Counted(sys, s), Keeps(sys, m, s), NEW k \in DOMAIN s.diff,
           NEW t, t = OnChange(Popped(s, k), k, s.diff[k].old, s.diff[k].new)
    PROVE  Keeps(sys, m, t)
<1>. SUFFICES ASSUME NEW u, u = Popped(s, k), NEW v, v = CountChange(u, k, s.diff[k].old, s.diff[k].new),
                     NEW w, w = FilterReaders(v, k)
              PROVE  Keeps(sys, m, t)
  OBVIOUS
<1>0. s.ok /\ Compatible(sys, filters, m)
  BY DEF Keeps, Candidate
<1>1. Counted(sys, v)
  BY <1>0, CountChangeExact
<1>2. Keeps(sys, m, v)
  BY CountChangeKeeps
<1>3. Shaped(sys, v)
  BY <1>1 DEF Counted
<1>4. Keeps(sys, m, w)
  BY <1>0, <1>2, <1>3, ReadersKeep
<1>5. t = FireTrigger(w, k, s.diff[k].old, s.diff[k].new)
  BY DEF OnChange
<1>6. t = w
  <2>1. ~TriggerFires(s.diff[k].old, s.diff[k].new)
    BY IsDef DEF TriggerFires
  <2>. QED
    BY <1>5, <2>1 DEF FireTrigger
<1>. QED
  BY <1>4, <1>6

-----------------------------------------------------------------------------
(* init_domain keeps an assignment.                                          *)

LEMMA RunFiltersKeep ==
    ASSUME sys \in Systems, NEW m, Compatible(sys, filters, m), NEW s, Quiet(sys, s), Keeps(sys, m, s),
           NEW k \in Ks(sys), NEW t, t = RunFilters(s, k)
    PROVE  Keeps(sys, m, t)
<1>. SUFFICES ASSUME NEW d, d = s.dom[k] \cap FilterOf(s, k[1], k[2]) PROVE Keeps(sys, m, t)
  OBVIOUS
<1>1. /\ s.dom \in [Keys(sys) -> Doms] /\ Ks(sys) \subseteq Keys(sys) /\ s.ok
      /\ s = [dom |-> s.dom, diff |-> s.diff, objs |-> s.objs, ok |-> s.ok]
  BY StateIs DEF Quiet, Shaped, Keys, Keeps
<1>2. t = [s EXCEPT !.dom[k] = d, !.ok = d # {}]
  BY <1>1 DEF RunFilters, Narrow
<1>3. m[k] \in FilterBy(filters, s, k[1], k[2])
  BY <1>1 DEF Compatible, Keeps, Quiet
<1>4. m[k] \in d
  BY <1>3, FilterOfIs DEF Keeps, Holding
<1>5. t.dom = Updated(s.dom, k, d) /\ t.ok
  BY <1>1, <1>2, <1>4 DEF Updated
<1>6. \A j \in Ks(sys) : m[j] \in t.dom[j]
  BY <1>1, <1>4, <1>5 DEF Updated, Keeps, Holding
<1>. QED
  BY <1>5, <1>6 DEF Keeps, Holding

LEMMA InitFilterKeeps ==
    ASSUME sys \in Systems, objs = sys.objs, EnumValues # {}, NEW m, Compatible(sys, filters, m), Values(sys, m)
    PROVE  Keeps(sys, m, InitFilter)
<1>. DEFINE z == Initial
            seq == OrderedInstances(EnumInstances)
            B == {v \in SpaceStates(sys) : Quiet(sys, v) /\ Keeps(sys, m, v)}
<1>0. EnumInstances = Ks(sys)
  BY DEF EnumInstances, Ks
<1>1. seq \in Seq(Ks(sys))
  BY <1>0, OrderedTyped
<1>2. Quiet(sys, z) /\ z.ok = TRUE /\ \A k \in Ks(sys) : z.dom[k] = Full(k[1])
  BY InitialQuiet
<1>. HIDE DEF z
<1>3. z \in B
  BY <1>2 DEF Quiet, Shaped, Keeps, Holding, Values
<1>4. InitFilter = Loop("run_filters", z, z, seq)
  BY RunFiltersLoop DEF InitFilter, Initial, z
<1>5. ASSUME NEW i \in DOMAIN seq, NEW v \in B PROVE Body("run_filters", z, v, seq[i]) \in B
  <2>. SUFFICES ASSUME NEW u, u = RunFilters(v, seq[i]) PROVE u \in B
    BY DEF Body
  <2>1. seq[i] \in Ks(sys)
    <3>. HIDE DEF seq
    <3>. QED
      BY <1>1
  <2>2. Quiet(sys, u) /\ Keeps(sys, m, u)
    BY <2>1, RunFiltersQuiet, RunFiltersKeep
  <2>. QED
    BY <2>2 DEF Quiet, Shaped
<1>. HIDE DEF seq, B
<1>6. StaysIn("run_filters", z, seq, B)
  BY <1>5 DEF StaysIn
<1>7. Len(seq) \in Nat /\ DOMAIN seq = 1 .. Len(seq)
  BY <1>1
<1>8. InitFilter \in B
  BY <1>3, <1>4, <1>6, <1>7, LoopStays
<1>. QED
  BY <1>8 DEF B

LEMMA WideBacked ==
    ASSUME NEW y, NEW m, NEW s, Keeps(y, m, s), CountedWide(y, s)
    PROVE  \E w : Backed(y, m, w, s)
<1>1. PICK w : /\ Quiet(y, w) /\ Tally(y.objs, CountBase(y), Shares(y, w), s.dom[Cnt])
               /\ \A k \in Ks(y) : s.dom[k] \subseteq w.dom[k]
  BY DEF CountedWide
<1>2. \A k \in Ks(y) : OldDomain(w, k) = w.dom[k] /\ w.dom[k] \subseteq Full(k[1])
  BY <1>1, QuietOld DEF Quiet, Shaped
<1>3. Remains(y, m, w)
  BY <1>1, <1>2 DEF Remains, Keeps, Holding
<1>. QED
  BY <1>1, <1>2, <1>3 DEF Backed

LEMMA InitCounterKeeps ==
    ASSUME sys \in Systems, Additive(sys), NEW fl, NEW m, Candidate(sys, fl, m), NEW s, Quiet(sys, s), Keeps(sys, m, s),
           NEW t, t = InitCounter(s)
    PROVE  Keeps(sys, m, t)
<1>1. CASE ~HasCounter
  BY <1>1 DEF InitCounter
<1>2. CASE HasCounter
  <2>. SUFFICES ASSUME NEW r, r = ComputeCounter(s), NEW w, w = [s EXCEPT !.dom[Cnt] = r], NEW u, u = RestrictCounter(w)
                PROVE  Keeps(sys, m, t)
    OBVIOUS
  <2>0. /\ "cnt" \in sys.choices /\ Adds(sys) /\ Cnt \in Keys(sys) /\ Ks(sys) \subseteq Keys(sys)
        /\ \A k \in Ks(sys) : k # Cnt
    BY <1>2, InstanceShape DEF HasCounter, Additive, Adds, Keys
  <2>1. /\ s.dom \in [Keys(sys) -> Doms] /\ s.diff = NoDiff /\ s.objs = sys.objs /\ sys.objs \in Nat /\ s.ok
        /\ s = [dom |-> s.dom, diff |-> s.diff, objs |-> s.objs, ok |-> s.ok]
        /\ \A j \in Ks(sys) : s.dom[j] \subseteq Full(j[1]) /\ s.dom[j] # {}
    BY StateIs, SystemsAssumption DEF Quiet, Shaped, Keeps
  <2>2. Tally(sys.objs, CountBase(sys), Shares(sys, s), r)
    BY <2>0, <2>1, ComputeIs
  <2>3. r \in Ranges /\ r \in Doms
    BY <2>1, <2>2, TallyType, RangesAreDoms
  <2>4. Quiet(sys, w) /\ w.dom[Cnt] = r /\ w.ok /\ \A k \in Ks(sys) : w.dom[k] = s.dom[k]
    <3>. SUFFICES ASSUME NEW dom, dom = [s.dom EXCEPT ![Cnt] = r],
                         w = [dom |-> dom, diff |-> NoDiff, objs |-> sys.objs, ok |-> TRUE]
                  PROVE  Quiet(sys, w) /\ w.dom[Cnt] = r /\ w.ok /\ \A k \in Ks(sys) : w.dom[k] = s.dom[k]
      BY <2>1
    <3>1. dom \in [Keys(sys) -> Doms] /\ dom[Cnt] = r /\ \A k \in Ks(sys) : dom[k] = s.dom[k]
      BY <2>0, <2>1, <2>3
    <3>2. \A k \in Ks(sys) : dom[k] \subseteq Full(k[1]) /\ (TRUE => dom[k] # {})
      BY <2>1, <3>1
    <3>3. Quiet(sys, w) /\ w.dom = dom
      BY <3>1, <3>2, QuietState
    <3>. QED
      BY <3>1, <3>3
  <2>5. Keeps(sys, m, w) /\ Shaped(sys, w) /\ Shaped(sys, s)
    BY <2>4 DEF Keeps, Holding, Quiet
  <2>6. Backed(sys, m, s, w)
    <3>1. Remains(sys, m, s)
      BY <2>5, RemainsIn DEF Keeps
    <3>2. \A k \in Ks(sys) : OldDomain(s, k) = s.dom[k]
      BY QuietOld
    <3>. QED
      BY <2>2, <2>4, <3>1, <3>2 DEF Backed
  <2>7. PICK x : CountOf(sys, m, x) /\ x <= sys.cnt.limit
    BY <2>0 DEF Candidate
  <2>8. Keeps(sys, m, u)
    BY <2>0, <2>5, <2>6, <2>7, RestrictCounterKeeps
  <2>9. t.dom = u.dom /\ t.ok = u.ok
    <3>1. t = Undo(u)
      BY <1>2, <2>1 DEF InitCounter
    <3>2. Narrowed(sys, w, u)
      BY <2>0, <2>5, RestrictCounterNarrows
    <3>3. u = [dom |-> u.dom, diff |-> u.diff, objs |-> u.objs, ok |-> u.ok]
      BY <3>2, StateIs DEF Narrowed, Shaped
    <3>. QED
      BY <3>1, <3>3 DEF Undo
  <2>. QED
    BY <2>8, <2>9 DEF Keeps, Holding
<1>. QED
  BY <1>1, <1>2

\* The actions that restrict a choice leave the value of m.
KeptActs(y, m) == {a \in AnyActs(y) : a.k \in Ks(y) => m[a.k] \in a.values}

Lengthened(y, m, acts, res) == res = acts \/ \E a \in KeptActs(y, m) : res = Append(acts, a)

LEMMA DelayedKeeps ==
    ASSUME NEW y \in Systems, NEW m, NEW init, Shaped(y, init), Holding(y, m, init), NEW acts, NEW k \in Ks(y),
           NEW values, m[k] \in values, NEW res, res = Delayed(init, acts, k[1], k[2], values)
    PROVE  Lengthened(y, m, acts, res)
<1>. SUFFICES ASSUME NEW a, a = ChoiceAct(k, values \cap init.dom[k]) PROVE Lengthened(y, m, acts, res)
  OBVIOUS
<1>1. k = <<k[1], k[2]>>
  BY InstanceShape
<1>2. init.dom[k] \subseteq EnumValues \cup Range(NumUniverse) /\ m[k] \in init.dom[k] /\ k \in Keys(y)
  BY FullTypes DEF Shaped, Holding, Keys
<1>3. a.k = k /\ a.values = values \cap init.dom[k] /\ a = [k |-> a.k, values |-> a.values]
  BY DEF ChoiceAct
<1>4. a.values \in Doms
  BY <1>2, <1>3 DEF Doms
<1>5. a \in AnyActs(y)
  BY <1>2, <1>3, <1>4 DEF AnyActs
<1>6. a \in KeptActs(y, m)
  BY <1>2, <1>3, <1>5 DEF KeptActs
<1>7. res = acts \/ res = Append(acts, a)
  BY <1>1 DEF Delayed
<1>. QED
  BY <1>6, <1>7 DEF Lengthened

LEMMA FilterActionsKeep ==
    ASSUME sys \in Systems, NEW m, Compatible(sys, filters, m), NEW init, Shaped(sys, init), Keeps(sys, m, init),
           NEW ks \in Seq(Ks(sys))
    PROVE  FilterActions(init, ks) \in Seq(KeptActs(sys, m))
<1>. DEFINE B == Seq(KeptActs(sys, m))
<1>0. init.ok /\ Holding(sys, m, init)
  BY DEF Keeps
<1>1. ASSUME NEW i \in DOMAIN ks, NEW v \in B PROVE Body("filter_delayed", init, v, ks[i]) \in B
  <2>. SUFFICES ASSUME NEW k, k = ks[i], NEW values, values = FilterOf(init, k[1], k[2]),
                       NEW res, res = Delayed(init, v, k[1], k[2], values)
                PROVE  res \in B
    BY DEF Body
  <2>1. k \in Ks(sys)
    OBVIOUS
  <2>2. m[k] \in values
    BY <1>0, <2>1, FilterOfIs DEF Compatible
  <2>3. Lengthened(sys, m, v, res)
    BY <1>0, <2>1, <2>2, DelayedKeeps
  <2>. QED
    BY <2>3 DEF Lengthened
<1>2. Len(ks) \in Nat /\ DOMAIN ks = 1 .. Len(ks) /\ <<>> \in B
  OBVIOUS
<1>. HIDE DEF B
<1>3. StaysIn("filter_delayed", init, ks, B)
  BY <1>1 DEF StaysIn
<1>4. FilterActions(init, ks) \in B
  BY <1>2, <1>3, FilterDelayedLoop, LoopStays
<1>. QED
  BY <1>4 DEF B

LEMMA CounterActionsKeep ==
    ASSUME sys \in Systems, Adds(sys), objs = sys.objs, NEW m, NEW w, NEW init, Shaped(sys, init), Keeps(sys, m, init),
           Backed(sys, m, w, init), NEW x, CountOf(sys, m, x), x <= sys.cnt.limit,
           GetDiff(init.dom[Cnt], ComputeCounter(init)) \in Ranges
    PROVE  CounterActions(init) \in Seq(KeptActs(sys, m))
<1>. DEFINE a == ChoiceAct(Cnt, GetDiff(init.dom[Cnt], ComputeCounter(init)))
            pre == IF ComputeCounter(init) = init.dom[Cnt] THEN <<>> ELSE <<a>>
            B == Seq(KeptActs(sys, m))
            ns == [o \in 1 .. objs |-> o]
<1>0. objs \in Nat /\ DOMAIN ns = 1 .. objs /\ "cnt" \in sys.choices /\ Holding(sys, m, init)
  BY SystemsAssumption DEF Adds, Keeps
<1>1. pre \in B
  <2>1. a \in AnyActs(sys) /\ a.k = Cnt
    BY <1>0, RangesAreDoms DEF ChoiceAct, AnyActs, Keys
  <2>. HIDE DEF a
  <2>2. a \in KeptActs(sys, m)
    BY <2>1, InstanceShape DEF KeptActs
  <2>. QED
    BY <2>2
<1>2. ASSUME NEW i \in DOMAIN ns, NEW v \in B PROVE Body("counter_delayed", init, v, ns[i]) \in B
  <2>. SUFFICES ASSUME NEW o, o = ns[i], NEW u, u = Body("counter_delayed", init, v, o),
                       NEW new, new = ClampedCounter(init), NEW F, F = FlagBound(init, o, new),
                       NEW A, A = AmountBound(init, o, new)
                PROVE  u \in B
    OBVIOUS
  <2>1. o \in 1 .. sys.objs
    BY <1>0
  <2>2. FlagKey(o) \in Ks(sys) /\ (sys.cnt.chosen => NumKey(o) \in Ks(sys))
    BY <1>0, <2>1, SystemsAssumption, ObjectInstances DEF FlagKey, NumKey
  <2>k. FlagKey(o)[1] = "flag" /\ FlagKey(o)[2] = <<o>> /\ NumKey(o)[1] = "num" /\ NumKey(o)[2] = <<o>>
    BY DEF FlagKey, NumKey
  <2>. HIDE DEF B, a, pre, ns
  <2>3. Between(new, x)
    BY ClampHolds
  <2>4. \/ u = v
        \/ /\ Is(init.dom[FlagKey(o)], sys.cnt.incr) = "M"
           /\ u = Delayed(init, v, FlagKey(o)[1], FlagKey(o)[2], F)
        \/ /\ sys.cnt.chosen /\ Is(init.dom[FlagKey(o)], sys.cnt.incr) = "T"
           /\ u = Delayed(init, v, NumKey(o)[1], NumKey(o)[2], A)
    BY DEF Body, CounterStep, FlagKey, NumKey
  <2>5. ASSUME Is(init.dom[FlagKey(o)], sys.cnt.incr) = "M", u = Delayed(init, v, FlagKey(o)[1], FlagKey(o)[2], F)
        PROVE  Lengthened(sys, m, v, u)
    <3>1. m[FlagKey(o)] \in F
      BY <1>0, <2>1, <2>3, <2>5, FlagBoundHolds
    <3>. QED
      BY <1>0, <2>2, <2>5, <3>1, DelayedKeeps
  <2>6. ASSUME sys.cnt.chosen, Is(init.dom[FlagKey(o)], sys.cnt.incr) = "T",
               u = Delayed(init, v, NumKey(o)[1], NumKey(o)[2], A)
        PROVE  Lengthened(sys, m, v, u)
    <3>1. m[NumKey(o)] \in A
      BY <1>0, <2>1, <2>3, <2>6, AmountBoundHolds
    <3>. QED
      BY <1>0, <2>2, <2>6, <3>1, DelayedKeeps
  <2>7. Lengthened(sys, m, v, u)
    BY <2>4, <2>5, <2>6 DEF Lengthened
  <2>. QED
    BY <2>7 DEF Lengthened, B
<1>3. CounterActions(init) = Loop("counter_delayed", init, pre, ns)
  BY CounterDelayedLoop
<1>. HIDE DEF B, pre, ns, a
<1>4. StaysIn("counter_delayed", init, ns, B)
  BY <1>2 DEF StaysIn
<1>5. CounterActions(init) \in B
  BY <1>0, <1>1, <1>3, <1>4, LoopStays
<1>. QED
  BY <1>5 DEF B

LEMMA ActKeeps ==
    ASSUME sys \in Systems, NEW m, NEW s, Shaped(sys, s), Keeps(sys, m, s), NEW a \in Acts(sys), a \in KeptActs(sys, m),
           NEW t, t = ApplyAction(s, a)
    PROVE  Keeps(sys, m, t)
<1>0. a.k \in Ks(sys) /\ a.k # Cnt
  BY InstanceShape DEF Acts
<1>1. m[a.k] \in a.values
  BY <1>0 DEF KeptActs
<1>2. t = RestrictChoice(s, a.k[1], a.k[2], a.values)
  BY <1>0 DEF ApplyAction, Keeps
<1>. QED
  BY <1>0, <1>1, <1>2, RestrictKeeps

LEMMA ActsKeep ==
    ASSUME sys \in Systems, NEW m, NEW s, Shaped(sys, s), Keeps(sys, m, s), NEW acts \in Seq(Acts(sys)),
           acts \in Seq(KeptActs(sys, m)), NEW t, t = FoldLeft(ApplyAction, s, acts)
    PROVE  Keeps(sys, m, t)
<1>. DEFINE B == {v \in SpaceStates(sys) : Shaped(sys, v) /\ Keeps(sys, m, v)}
<1>1. ASSUME NEW i \in DOMAIN acts, NEW v \in B PROVE Body("apply_action", s, v, acts[i]) \in B
  <2>. SUFFICES ASSUME NEW a, a = acts[i], NEW u, u = ApplyAction(v, a) PROVE u \in B
    BY DEF Body
  <2>1. a \in Acts(sys) /\ a \in KeptActs(sys, m)
    OBVIOUS
  <2>2. Narrowed(sys, v, u)
    BY <2>1, ActNarrows
  <2>3. Keeps(sys, m, u)
    BY <2>1, ActKeeps
  <2>. QED
    BY <2>2, <2>3 DEF Narrowed, Shaped
<1>2. s \in B /\ Len(acts) \in Nat /\ DOMAIN acts = 1 .. Len(acts)
  BY DEF Shaped
<1>. HIDE DEF B
<1>3. StaysIn("apply_action", s, acts, B)
  BY <1>1 DEF StaysIn
<1>4. t = Loop("apply_action", s, s, acts)
  BY ApplyActionLoop
<1>5. t \in B
  BY <1>2, <1>3, <1>4, LoopStays
<1>. QED
  BY <1>5 DEF B

\* The counter the actions bring up to date still admits the count of m.
LEMMA CountedActsKeep ==
    ASSUME sys \in Systems, Adds(sys), NEW m, NEW s, Quiet(sys, s), Keeps(sys, m, s), NEW r \in Ranges, r = s.dom[Cnt],
           NEW e \in Ranges, Tally(sys.objs, CountBase(sys), Shares(sys, s), e), Half(sys) => r.max = e.max,
           NEW d \in Ranges, d.min = e.min - r.min, ~Half(sys) => d.max = r.max - e.max,
           NEW p, NEW acts, Positioned(sys, p, ChoiceAct(Cnt, d), acts), p = 0 => e = r, acts \in Seq(KeptActs(sys, m)),
           NEW x, CountOf(sys, m, x), NEW t, t = FoldLeft(ApplyAction, s, acts)
    PROVE  Keeps(sys, m, t)
<1>. DEFINE n == Len(acts)
            B == {v \in SpaceStates(sys) : Shaped(sys, v) /\ v.dom[Cnt] \in Ranges}
<1>0. /\ n \in Nat /\ DOMAIN acts = 1 .. n /\ p \in 0 .. n
      /\ \A i \in 1 .. n : acts[i] \in KeptActs(sys, m)
      /\ \A i \in 1 .. n : IF i = p THEN acts[i] = ChoiceAct(Cnt, d) ELSE acts[i] \in Acts(sys)
  BY DEF Positioned
<1>e. e.min \in Int /\ e.max \in Int /\ x \in Nat /\ e.min <= x /\ (~Half(sys) => x <= e.max)
  <2>1. Shaped(sys, s) /\ Holding(sys, m, s) /\ "cnt" \in sys.choices
    BY DEF Quiet, Keeps, Adds
  <2>2. Remains(sys, m, s)
    BY <2>1, RemainsIn
  <2>3. e.min <= x /\ (~Half(sys) => x <= e.max)
    BY <2>1, <2>2, CountHolds
  <2>. QED
    BY <2>3 DEF Ranges, CountOf
<1>1. ASSUME NEW v \in B, NEW i \in 1 .. n, NEW u, u = ApplyAction(v, acts[i])
      PROVE  /\ u \in B
             /\ i # p => u.dom[Cnt] = v.dom[Cnt] /\ (Keeps(sys, m, v) => Keeps(sys, m, u))
             /\ i = p /\ v.dom[Cnt] = r /\ Keeps(sys, m, v) => u.dom[Cnt] = e /\ Keeps(sys, m, u)
  <2>0. Shaped(sys, v) /\ v.dom[Cnt] \in Ranges /\ "cnt" \in sys.choices
    BY DEF Adds
  <2>a. PICK a \in KeptActs(sys, m) : u = ApplyAction(v, a) /\ (IF i = p THEN a = ChoiceAct(Cnt, d) ELSE a \in Acts(sys))
    BY <1>0, <1>1
  <2>1. CASE i # p
    <3>0. a \in Acts(sys) /\ u = ApplyAction(v, a)
      BY <2>1, <2>a
    <3>1. Narrowed(sys, v, u)
      BY <2>0, <3>0, ActNarrows
    <3>2. Shaped(sys, u) /\ u.dom[Cnt] = v.dom[Cnt]
      BY <2>0, <3>1 DEF Narrowed
    <3>3. Keeps(sys, m, v) => Keeps(sys, m, u)
      BY <2>0, <2>a, <3>0, ActKeeps
    <3>. QED
      BY <2>0, <2>1, <3>2, <3>3 DEF Shaped
  <2>2. CASE i = p /\ ~v.ok
    <3>1. u = v
      BY <2>2, <2>a, Zenon DEF ApplyAction
    <3>. QED
      BY <2>2, <3>1 DEF Keeps
  <2>3. CASE i = p /\ v.ok
    <3>1. u = ApplyAction(v, ChoiceAct(Cnt, d))
      BY <2>3, <2>a
    <3>2. /\ Recounted(sys, v, u) /\ u.dom[Cnt] \in Ranges
          /\ u.dom[Cnt].min = v.dom[Cnt].min + d.min
          /\ u.dom[Cnt].max = IF Half(sys) THEN v.dom[Cnt].max ELSE v.dom[Cnt].max - d.max
      BY <2>0, <2>3, <3>1, CountActIs
    <3>3. Shaped(sys, u)
      BY <3>2 DEF Recounted
    <3>4. ASSUME v.dom[Cnt] = r PROVE u.dom[Cnt] = e
      <4>1. u.dom[Cnt].min = e.min /\ u.dom[Cnt].max = e.max
        BY <3>2, <3>4 DEF Ranges
      <4>. QED
        BY <3>2, <4>1, SameRange
    <3>5. ASSUME v.dom[Cnt] = r, Keeps(sys, m, v) PROVE Keeps(sys, m, u)
      <4>1. u.dom[Cnt] = e
        BY <3>4, <3>5
      <4>2. u.ok
        BY <1>e, <2>3, <3>2, <4>1 DEF Recounted
      <4>. QED
        BY <3>2, <3>5, <4>2 DEF Recounted, Keeps, Holding
    <3>. QED
      BY <2>3, <3>2, <3>3, <3>4, <3>5 DEF Shaped
  <2>. QED
    BY <2>1, <2>2, <2>3
<1>2. s \in B
  BY DEF Quiet, Shaped
<1>3. t = Loop("apply_action", s, s, acts)
  BY ApplyActionLoop
<1>4. StaysIn("apply_action", s, acts, B)
  <2>. SUFFICES ASSUME NEW i \in DOMAIN acts, NEW v \in B, NEW u, u = ApplyAction(v, acts[i]) PROVE u \in B
    BY DEF StaysIn, Body
  <2>. HIDE DEF B, n
  <2>. QED
    BY <1>0, <1>1
<1>. HIDE DEF B, n
<1>5. PICK h \in [0 .. n -> B] : Trace("apply_action", s, s, acts, n, h) /\ h[n] = t
  BY <1>0, <1>2, <1>3, <1>4, LoopTrace
<1>6. h[0] = s /\ \A i \in 1 .. n : h[i] = ApplyAction(h[i - 1], acts[i])
  BY <1>5 DEF Trace, Body
<1>. DEFINE P == {i \in 0 .. n : Keeps(sys, m, h[i]) /\ h[i].dom[Cnt] = IF i < p THEN r ELSE e}
<1>7. 0 \in P
  BY <1>0, <1>6
<1>8. ASSUME NEW i \in 1 .. n, i - 1 \in P PROVE i \in P
  <2>. SUFFICES ASSUME NEW v \in B, v = h[i - 1], NEW u \in B, u = h[i]
                PROVE  Keeps(sys, m, u) /\ u.dom[Cnt] = IF i < p THEN r ELSE e
    BY <1>0, <1>5
  <2>1. /\ i # p => u.dom[Cnt] = v.dom[Cnt] /\ (Keeps(sys, m, v) => Keeps(sys, m, u))
        /\ i = p /\ v.dom[Cnt] = r /\ Keeps(sys, m, v) => u.dom[Cnt] = e /\ Keeps(sys, m, u)
    BY <1>1, <1>6
  <2>2. Keeps(sys, m, v) /\ v.dom[Cnt] = IF i - 1 < p THEN r ELSE e
    BY <1>8
  <2>. QED
    BY <1>0, <2>1, <2>2
<1>9. n \in P
  <2>1. \A i \in 1 .. n : i - 1 \in P => i \in P
    BY <1>8
  <2>. HIDE DEF P
  <2>2. \A i \in 0 .. n : i \in P
    BY <1>0, <1>7, <2>1, UpTo
  <2>. QED
    BY <1>0, <2>2
<1>. QED
  BY <1>5, <1>9

LEMMA InitDomainKeeps ==
    ASSUME sys \in Systems, Additive(sys), sys.trigger = {}, objs = sys.objs, EnumValues # {},
           NEW m, Candidate(sys, filters, m), Values(sys, m), NEW t, t = InitDomain
    PROVE  Keeps(sys, m, t)
<1>. SUFFICES ASSUME NEW f, f = InitFilter, NEW s, s = InitCounter(f) PROVE Keeps(sys, m, t)
  OBVIOUS
<1>0. Compatible(sys, filters, m)
  BY DEF Candidate
<1>1. Quiet(sys, f) /\ Keeps(sys, m, f)
  BY <1>0, InitFilterQuiet, InitFilterKeeps
<1>2. Quiet(sys, s) /\ ("cnt" \in sys.choices /\ s.ok => CountedWide(sys, s))
  BY <1>1, InitCounterQuiet
<1>3. Keeps(sys, m, s) /\ s.ok /\ Shaped(sys, s)
  <2>1. Keeps(sys, m, s)
    BY <1>1, InitCounterKeeps
  <2>. QED
    BY <1>2, <2>1 DEF Keeps, Quiet
<1>4. HasCounter => \E w : Backed(sys, m, w, s)
  BY <1>2, <1>3, WideBacked DEF HasCounter
<1>5. HasCounter => Adds(sys) /\ \E x : CountOf(sys, m, x) /\ x <= sys.cnt.limit
  BY DEF Candidate, HasCounter, Adds, Additive
<1>6. ~CounterFails(s)
  <2>1. CASE ~HasCounter
    BY <2>1 DEF CounterFails
  <2>2. CASE HasCounter
    <3>. SUFFICES ASSUME NEW new, new = ClampedCounter(s) PROVE ~(new.min > new.max)
      BY DEF CounterFails
    <3>1. PICK w : Backed(sys, m, w, s)
      BY <1>4, <2>2
    <3>2. PICK x : CountOf(sys, m, x) /\ x <= sys.cnt.limit
      BY <1>5, <2>2
    <3>3. Between(new, x)
      BY <1>5, <2>2, <3>1, <3>2, ClampHolds
    <3>4. x \in Nat
      BY <3>2 DEF CountOf
    <3>. QED
      BY <3>3, <3>4 DEF Between, Ranges
  <2>. QED
    BY <2>1, <2>2
<1>. SUFFICES ASSUME NEW acts, acts = InitActions(s), NEW fa, fa = FilterActions(s, OrderedInstances(EnumInstances))
              PROVE  Keeps(sys, m, t)
  OBVIOUS
<1>7. t = FoldLeft(ApplyAction, s, acts)
  BY <1>2, <1>3, <1>6, InitActs DEF InitDomain
<1>8. fa \in Seq(Acts(sys)) /\ fa \in Seq(KeptActs(sys, m))
  <2>1. OrderedInstances(EnumInstances) \in Seq(Ks(sys))
    BY OrderedTyped DEF EnumInstances, Ks
  <2>. QED
    BY <1>0, <1>3, <2>1, FilterActionsTyped, FilterActionsKeep
<1>9. CASE ~HasCounter
  <2>1. acts = fa
    BY <1>8, <1>9 DEF InitActions
  <2>. QED
    BY <1>3, <1>7, <1>8, <2>1, ActsKeep
<1>10. CASE HasCounter
  <2>. SUFFICES ASSUME NEW r, r = s.dom[Cnt], NEW e, e = ComputeCounter(s), NEW d, d = GetDiff(r, e)
                PROVE  Keeps(sys, m, t)
    OBVIOUS
  <2>1. PICK w : Backed(sys, m, w, s)
    BY <1>4, <1>10
  <2>2. PICK x : CountOf(sys, m, x) /\ x <= sys.cnt.limit
    BY <1>5, <1>10
  <2>3. "cnt" \in sys.choices /\ Adds(sys) /\ sys.objs \in Nat /\ s.objs = sys.objs
    BY <1>3, <1>5, <1>10, StateIs, SystemsAssumption DEF HasCounter, Shaped
  <2>4. Tally(sys.objs, CountBase(sys), Shares(sys, w), r)
    BY <2>1 DEF Backed
  <2>5. Tally(sys.objs, CountBase(sys), Shares(sys, s), e)
    BY <2>3, ComputeIs
  <2>6. r \in Ranges /\ e \in Ranges
    BY <2>3, <2>4, <2>5, TallyType
  <2>7. Half(sys) => r.max = e.max
    BY <2>3, <2>4, <2>5, HalfTally
  <2>8. d \in Ranges /\ d.min = e.min - r.min /\ (~Half(sys) => d.max = r.max - e.max)
    BY <2>3, <2>6, AddDef DEF Adds, GetDiff, Diff, Ranges
  <2>9. PICK p : Positioned(sys, p, ChoiceAct(Cnt, d), CounterActions(s)) /\ (p = 0 <=> e = r)
    BY <1>3, <2>3, <2>8, CounterActionsTyped
  <2>10. acts = fa \o CounterActions(s)
    BY <1>10 DEF InitActions
  <2>11. PICK q : Positioned(sys, q, ChoiceAct(Cnt, d), acts) /\ (q = 0 <=> p = 0)
    BY <1>8, <2>9, <2>10, PositionedAfter
  <2>12. q = 0 => e = r
    BY <2>9, <2>11
  <2>13. CounterActions(s) \in Seq(KeptActs(sys, m))
    BY <1>3, <2>1, <2>2, <2>3, <2>8, CounterActionsKeep
  <2>14. acts \in Seq(KeptActs(sys, m))
    BY <1>8, <2>10, <2>13
  <2>. QED
    BY <1>2, <1>3, <1>7, <2>2, <2>3, <2>5, <2>6, <2>7, <2>8, <2>11, <2>12, <2>14, CountedActsKeep
<1>. QED
  BY <1>9, <1>10

-----------------------------------------------------------------------------
(* The solutions over a run.                                                 *)

FiltersKeep == phase = "compiled" => FiltersTyped /\ InputsTyped /\ FiltersSound

KeptInv ==
    /\ CountInv
    /\ Counting => /\ Running => \A m \in sols : Candidate(sys, filters, m) /\ Holding(sys, m, Current)
                   /\ phase = "failed" => sols = {}

LEMMA CommittedKeeps ==
    ASSUME NEW y, NEW m, NEW t, Keeps(y, m, t), Commit(t)
    PROVE  phase' # "failed" /\ Holding(y, m, Current')
<1>1. phase' # "failed"
  BY DEF Commit, Keeps
<1>2. Current'.dom = t.dom
  BY DEF Current, Commit
<1>. QED
  BY <1>1, <1>2 DEF Keeps, Holding

LEMMA CommittedAll ==
    ASSUME NEW t, Commit(t), NEW y, y = sys, sys' = sys, NEW fl, fl = filters, filters' = filters,
           NEW M, sols' = M, \A m \in M : Candidate(y, fl, m) /\ Keeps(y, m, t), CountInv'
    PROVE  KeptInv'
<1>1. \A m \in M : phase' # "failed" /\ Holding(y, m, Current')
  BY CommittedKeeps
<1>2. \A m \in sols' : Candidate(sys', filters', m) /\ Holding(sys', m, Current')
  BY <1>1
<1>3. phase' = "failed" => sols' = {}
  BY <1>1
<1>. QED
  BY <1>2, <1>3 DEF KeptInv

LEMMA KeptInvInit == Init => KeptInv
BY CountInvInit DEF Init, KeptInv, Running

LEMMA KeptInvNext ==
    ASSUME KeptInv, FiltersKeep, [Next]_vars
    PROVE  KeptInv'
<1>0. sys \in Systems /\ CountInv /\ CountInv'
  <2>1. phase = "compiled" => FiltersTyped
    BY DEF FiltersKeep
  <2>2. CountInv
    BY DEF KeptInv
  <2>. QED
    BY <2>1, <2>2, CountInvNext DEF CountInv
<1>s. Counting' /\ sys' = sys => Counting
  BY DEF Counting
<1>1. CASE UNCHANGED vars
  BY <1>0, <1>1 DEF vars, KeptInv, Counting, Running, Current
<1>2. CASE DedupStep \/ GenStep \/ MergeStep \/ TableStep
  BY <1>0, <1>2 DEF KeptInv, Counting, Running, DedupStep, GenStep, MergeStep, TableStep, RuntimeVars
<1>3. CASE NewSpace
  <2>. SUFFICES ASSUME Counting PROVE KeptInv'
    BY <1>0, <1>3, <1>s DEF NewSpace, KeptInv
  <2>. SUFFICES ASSUME NEW t, t = InitDomain, NEW M, M = {m \in AllAssignments : IsSolution(m)} PROVE KeptInv'
    OBVIOUS
  <2>1. /\ sys' = sys /\ filters' = filters /\ Commit(t) /\ phase = "compiled" /\ sols' = M
        /\ sys.trigger = {} /\ Additive(sys) /\ objs = sys.objs
    BY <1>0, <1>3 DEF NewSpace, Counting, CountInv
  <2>2. InputsTyped /\ FiltersSound
    BY <2>1 DEF FiltersKeep
  <2>3. ASSUME NEW m \in M PROVE Candidate(sys, filters, m) /\ Keeps(sys, m, t)
    <3>1. m \in AllAssignments /\ ConstraintsHold(m) /\ (HasCounter => CounterIn(m) <= sys.cnt.limit)
      BY DEF IsSolution
    <3>2. Values(sys, m)
      BY <1>0, <2>1, <3>1, AllAssignmentsAre DEF Values
    <3>3. Compatible(sys, filters, m)
      BY <1>0, <2>1, <2>2, <3>1, CompatibleIs
    <3>4. HasCounter => CountOf(sys, m, CounterIn(m))
      BY <1>0, <2>1, <3>2, CounterInIs DEF HasCounter, Additive, Adds
    <3>5. Candidate(sys, filters, m)
      BY <3>1, <3>3, <3>4 DEF Candidate, HasCounter
    <3>. QED
      BY <1>0, <2>1, <3>2, <3>5, FilterGenAssumption, InitDomainKeeps
  <2>. QED
    BY <1>0, <2>1, <2>3, CommittedAll
<1>4. ASSUME NEW k1 \in EnumInstances, NEW k2 \in EnumInstances, NEW v1, NEW v2, Decide(k1, v1, k2, v2) PROVE KeptInv'
  <2>. SUFFICES ASSUME Counting PROVE KeptInv'
    BY <1>0, <1>4, <1>s DEF Decide, KeptInv
  <2>. SUFFICES ASSUME NEW c, c = Current, NEW s, s = RestrictChoice(c, k1[1], k1[2], {v1}),
                       NEW t, t = RestrictChoice(s, k2[1], k2[2], {v2}), NEW M, M = {m \in sols : m[k1] = v1 /\ m[k2] = v2}
                PROVE  KeptInv'
    OBVIOUS
  <2>1. sys' = sys /\ filters' = filters /\ Running /\ Commit(t) /\ sols' = M
    BY <1>4 DEF Decide, Running
  <2>2. Shaped(sys, c) /\ c.ok /\ k1 \in Ks(sys) /\ k2 \in Ks(sys)
    BY <1>0, <2>1, CurrentIs
  <2>3. ASSUME NEW m \in M PROVE Candidate(sys, filters, m) /\ Keeps(sys, m, t)
    <3>1. Candidate(sys, filters, m) /\ Keeps(sys, m, c) /\ m[k1] \in {v1} /\ m[k2] \in {v2}
      BY <2>1, <2>2 DEF KeptInv, Keeps
    <3>2. Narrowed(sys, c, s) /\ Keeps(sys, m, s)
      BY <1>0, <2>2, <3>1, RestrictNarrows, RestrictKeeps
    <3>3. Shaped(sys, s)
      BY <3>2 DEF Narrowed
    <3>. QED
      BY <1>0, <2>2, <3>1, <3>2, <3>3, RestrictKeeps
  <2>. QED
    BY <1>0, <2>1, <2>3, CommittedAll
<1>5. ASSUME NEW k, Pop(k) PROVE KeptInv'
  <2>. SUFFICES ASSUME Counting PROVE KeptInv'
    BY <1>0, <1>5, <1>s DEF Pop, KeptInv
  <2>. SUFFICES ASSUME NEW c, c = Current, NEW t, t = OnChange(Popped(c, k), k, diff[k].old, diff[k].new) PROVE KeptInv'
    OBVIOUS
  <2>1. sys' = sys /\ filters' = filters /\ Running /\ k \in DOMAIN diff /\ Commit(t) /\ sols' = sols
    BY <1>5 DEF Pop, Running, Popped
  <2>2. Counted(sys, c) /\ c.ok /\ FiltersTyped /\ c.diff = diff /\ sys.trigger = {} /\ Additive(sys)
    BY <1>0, <2>1, CurrentIs DEF Counting
  <2>3. ASSUME NEW m \in sols PROVE Candidate(sys, filters, m) /\ Keeps(sys, m, t)
    <3>1. Candidate(sys, filters, m) /\ Keeps(sys, m, c)
      BY <2>1, <2>2 DEF KeptInv, Keeps
    <3>. QED
      BY <1>0, <2>1, <2>2, <3>1, OnChangeKeeps
  <2>. QED
    BY <1>0, <2>1, <2>3, CommittedAll
<1>6. CASE Advance
  BY <1>0, <1>6 DEF Advance, KeptInv, Counting, Running, Current
<1>. QED
  BY <1>1, <1>2, <1>3, <1>4, <1>5, <1>6 DEF Next

LEMMA KeptInvKept ==
    ASSUME KeptInv, Additive(sys)
    PROVE  SolutionsKept
<1>. SUFFICES ASSUME sys.trigger = {}
              PROVE  /\ Running => \A m \in sols : \A k \in EnumInstances : m[k] \in store[k]
                     /\ phase = "failed" => sols = {}
  BY DEF SolutionsKept
<1>1. Counting /\ CountInv
  BY DEF Counting, KeptInv
<1>2. Running => Current.dom = store /\ EnumInstances = Ks(sys)
  BY <1>1, CurrentIs
<1>. QED
  BY <1>1, <1>2 DEF KeptInv, Holding

\* Propagation keeps the solutions: in a space without lowering whose counter adds and
\* whose filters keep the values of the solutions, no handler removes a value that a
\* solution compatible with the decisions needs, and one that fails leaves no solution,
\* for any number of objects, of values and of filters and any order of the changes.
THEOREM PropagationKeepsSolutions ==
    Spec /\ []FiltersKeep => []((HasCounter => sys.cnt.kind = "Add") => SolutionsKept)
<1>1. KeptInv => ((HasCounter => sys.cnt.kind = "Add") => SolutionsKept)
  BY KeptInvKept DEF Additive, HasCounter
<1>2. KeptInv /\ FiltersKeep /\ [Next]_vars => KeptInv'
  BY KeptInvNext
<1>. QED
  BY <1>1, <1>2, KeptInvInit, PTL DEF Spec

-----------------------------------------------------------------------------
(* What occurs in a sequence, and the calls that a change wakes.             *)

Occurs(x, q) == \E i \in 1 .. Len(q) : q[i] = x

LEMMA OccursIn ==
    ASSUME NEW X, NEW p \in Seq(X), NEW q \in Seq(X), NEW x, Occurs(x, p) \/ Occurs(x, q)
    PROVE  Occurs(x, p \o q)
<1>1. Len(p \o q) = Len(p) + Len(q) /\ Len(p) \in Nat /\ Len(q) \in Nat
  OBVIOUS
<1>2. CASE Occurs(x, p)
  <2>1. PICK i \in 1 .. Len(p) : p[i] = x
    BY <1>2 DEF Occurs
  <2>2. i \in 1 .. Len(p \o q) /\ (p \o q)[i] = x
    BY <1>1, <2>1
  <2>. QED
    BY <2>2 DEF Occurs
<1>3. CASE Occurs(x, q)
  <2>1. PICK i \in 1 .. Len(q) : q[i] = x
    BY <1>3 DEF Occurs
  <2>2. Len(p) + i \in 1 .. Len(p \o q) /\ (p \o q)[Len(p) + i] = x
    BY <1>1, <2>1
  <2>. QED
    BY <2>2 DEF Occurs
<1>. QED
  BY <1>2, <1>3

LEMMA OccursFlattened ==
    ASSUME NEW X, NEW seqs \in Seq(Seq(X)), NEW j \in 1 .. Len(seqs), NEW x, Occurs(x, seqs[j])
    PROVE  Occurs(x, FlattenSeq(seqs))
<1>. SUFFICES ASSUME NEW n, n = Len(seqs) PROVE Occurs(x, FlattenSeq(seqs))
  OBVIOUS
<1>0. n \in Nat /\ n # 0 /\ (\A i \in 1 .. n : seqs[i] \in Seq(X)) /\ j \in 1 .. n
  OBVIOUS
<1>1. PICK f : /\ Flattens(seqs, f) /\ FlattenSeq(seqs) = f[n] /\ \A i \in 1 .. n : f[i] \in Seq(X)
  BY <1>0, FlattenedBy
<1>2. \A i \in 1 .. n : f[i] = IF i = 1 THEN seqs[i] ELSE f[i - 1] \o seqs[i]
  BY <1>1 DEF Flattens
<1>. DEFINE P == {i \in 0 .. n : i >= j => Occurs(x, f[i])}
<1>3. ASSUME NEW i \in 1 .. n, i - 1 \in P PROVE i \in P
  <2>. SUFFICES ASSUME i >= j PROVE Occurs(x, f[i])
    BY <1>3
  <2>1. CASE i = 1
    <3>1. j = 1 /\ f[i] = seqs[j]
      BY <1>0, <1>2, <2>1
    <3>. QED
      BY <3>1
  <2>2. CASE i # 1
    <3>0. i - 1 \in 1 .. n
      BY <1>0, <2>2
    <3>1. f[i - 1] \in Seq(X) /\ seqs[i] \in Seq(X) /\ f[i] = f[i - 1] \o seqs[i]
      BY <1>0, <1>1, <1>2, <2>2, <3>0, Zenon
    <3>2. Occurs(x, f[i - 1]) \/ Occurs(x, seqs[i])
      <4>1. CASE i = j
        BY <4>1
      <4>2. CASE i # j
        <5>1. i - 1 >= j
          BY <1>0, <4>2
        <5>. QED
          BY <1>3, <5>1
      <4>. QED
        BY <4>1, <4>2
    <3>. QED
      BY <3>1, <3>2, OccursIn
  <2>. QED
    BY <2>1, <2>2
<1>4. \A i \in 0 .. n : i \in P
  <2>1. 0 \in P
    BY <1>0
  <2>. HIDE DEF P
  <2>. QED
    BY <1>0, <1>3, <2>1, UpTo
<1>5. Occurs(x, f[n])
  BY <1>0, <1>4
<1>. QED
  BY <1>1, <1>5

LEMMA OccursInSet ==
    ASSUME NEW S, IsFiniteSet(S), NEW x \in S
    PROVE  Occurs(x, SetToSeq(S))
<1>. SUFFICES ASSUME NEW n, n = Cardinality(S), NEW q, q = SetToSeq(S) PROVE Occurs(x, q)
  OBVIOUS
<1>1. n \in Nat /\ ExistsBijection(1 .. n, S)
  BY FS_CardinalityType
<1>2. \E f \in [1 .. n -> S] : IsInjective(f)
  BY <1>1 DEF ExistsBijection, Bijection, Injection
<1>3. q \in [1 .. n -> S] /\ IsInjective(q)
  BY <1>2 DEF SetToSeq
<1>4. q \in Injection(1 .. n, S)
  BY <1>3 DEF Injection
<1>5. Cardinality(1 .. n) = n
  BY <1>1, FS_Interval
<1>6. q \in Surjection(1 .. n, S)
  BY <1>4, <1>5, FS_Injection
<1>7. \E i \in 1 .. n : q[i] = x
  BY <1>6 DEF Surjection
<1>8. Len(q) = n
  BY <1>1, <1>3
<1>. QED
  BY <1>7, <1>8 DEF Occurs

\* What a call of filter f with binding b reads and restricts.
Reads(f, j, b) == Key(f.inputs[j].choice, InstArgs(f.inputs[j], b))
Aims(f, b) == <<f.choice, ArgsOf(f.choice, b)>>
LowerHalf(f, b) == f.choice \in Symmetric => b[Arg(1)] < b[Arg(2)]

LEMMA OrientationOccurs ==
    ASSUME sys \in Systems, NEW k \in Ks(sys), NEW f, NEW inst, InputTyped(f, inst), NEW b \in Bindings(f, sys.objs),
           NEW a, a = InstArgs(inst, b), Key(inst.choice, a) = k
    PROVE  /\ inst.choice = k[1]
           /\ \E o \in DOMAIN Orientations(k[1], k[2]) : Orientations(k[1], k[2])[o] = a
<1>0. inst.choice = k[1] /\ k = <<k[1], k[2]>>
  BY InstanceShape DEF Key
<1>. SUFFICES ASSUME NEW c, c = k[1], NEW args, args = k[2], k = <<c, args>>, Key(c, a) = k
              PROVE  \E o \in DOMAIN Orientations(c, args) : Orientations(c, args)[o] = a
  BY <1>0
<1>1. CASE c \notin Symmetric
  <2>1. a = args
    BY <1>1 DEF Key
  <2>2. 1 \in DOMAIN <<args>> /\ <<args>>[1] = args
    OBVIOUS
  <2>. QED
    BY <1>1, <2>1, <2>2 DEF Orientations
<1>2. CASE c \in Symmetric
  <2>. SUFFICES ASSUME NEW swapped, swapped = <<args[2], args[1]>>
                PROVE  \E o \in DOMAIN Orientations(c, args) : Orientations(c, args)[o] = a
    OBVIOUS
  <2>1. Orientations(c, args) = <<swapped, args>>
    BY <1>2 DEF Orientations
  <2>2. 1 \in DOMAIN <<swapped, args>> /\ 2 \in DOMAIN <<swapped, args>> /\ <<swapped, args>>[1] = swapped /\ <<swapped, args>>[2] = args
    OBVIOUS
  <2>3. Arity[c] = 2
    BY <1>2, FilterGenAssumption
  <2>4. DOMAIN inst.vars = 1 .. 2
    BY <1>0, <2>3 DEF InputTyped
  <2>5. PICK p, q : a = <<p, q>>
    <3>1. a = [i \in 1 .. 2 |-> b[inst.vars[i]]]
      BY <2>4 DEF InstArgs
    <3>2. a = <<b[inst.vars[1]], b[inst.vars[2]]>>
      BY <3>1
    <3>. QED
      BY <3>2
  <2>6. a = args \/ args = <<q, p>>
    BY <1>2, <2>5 DEF Key
  <2>7. a = args \/ a = swapped
    BY <2>5, <2>6
  <2>. QED
    BY <2>1, <2>2, <2>7
<1>. QED
  BY <1>0, <1>1, <1>2

\* A changed choice wakes every call that reads it.
LEMMA CallOccurs ==
    ASSUME sys \in Systems, FiltersTyped, InputsTyped, NEW s, s.objs = sys.objs, NEW k \in Ks(sys),
           NEW j \in DOMAIN filters, NEW f, f = filters[j], NEW i \in DOMAIN f.inputs, NEW b \in Bindings(f, sys.objs),
           Reads(f, i, b) = k, LowerHalf(f, b), NEW a, a = InstArgs(f.inputs[i], b)
    PROVE  Occurs(<<f, i, a, ArgsOf(f.choice, b)>>, FilterCallsOn(s, k[1], k[2]))
<1>. SUFFICES ASSUME NEW inst, inst = f.inputs[i], NEW c, c = k[1], NEW args, args = k[2], NEW X, X = Calls(sys, args),
                     NEW x, x = <<f, i, a, ArgsOf(f.choice, b)>>
              PROVE  Occurs(x, FilterCallsOn(s, c, args))
  OBVIOUS
<1>. SUFFICES ASSUME NEW or, or = Orientations(c, args), NEW oc, oc = OrientedCalls(s, c, args, f, i),
                     NEW ic, ic = InputCalls(s, c, args, f), NEW fc, fc = FilterCalls(s, c, args)
              PROVE  Occurs(x, FilterCallsOn(s, c, args))
  OBVIOUS
<1>0. /\ i \in Nat /\ InputTyped(f, inst)
      /\ DOMAIN f.inputs = 1 .. Len(f.inputs) /\ Len(f.inputs) \in Nat
      /\ DOMAIN filters = 1 .. Len(filters) /\ Len(filters) \in Nat
  BY DEF FiltersTyped, InputsTyped
<1>1. inst.choice = c /\ \E o \in DOMAIN or : or[o] = a
  BY <1>0, OrientationOccurs DEF Reads
<1>2. PICK o \in DOMAIN or : or[o] = a
  BY <1>1
<1>3. or \in Seq({args, <<args[2], args[1]>>})
  BY OrientationsTyped
<1>4. a \in {args, <<args[2], args[1]>>} /\ DOMAIN or = 1 .. Len(or) /\ Len(or) \in Nat
  BY <1>2, <1>3
<1>5. x \in CallSet(s, f, i, a)
  BY DEF CallSet, CallTargets, LowerHalf
<1>6. IsFiniteSet(CallSet(s, f, i, a))
  BY <1>0, <1>4, CallsFinite
<1>7. Occurs(x, CallSeq(s, f, i, a))
  BY <1>5, <1>6, OccursInSet DEF CallSeq
<1>8. oc \in Seq(Seq(X)) /\ ic \in Seq(Seq(X)) /\ fc \in Seq(Seq(X))
  BY <1>0, OrientedCallsTyped, InputCallsTyped, AllCallsTyped
<1>9. Occurs(x, FlattenSeq(oc))
  <2>1. oc[o] = CallSeq(s, f, i, a) /\ DOMAIN oc = DOMAIN or
    BY <1>2 DEF OrientedCalls
  <2>2. o \in 1 .. Len(oc)
    BY <1>8, <2>1
  <2>. QED
    BY <1>7, <1>8, <2>1, <2>2, OccursFlattened
<1>10. Occurs(x, FlattenSeq(ic))
  <2>1. ic[i] = FlattenSeq(oc) /\ DOMAIN ic = DOMAIN f.inputs
    BY <1>1 DEF InputCalls, CallsOfInput, OrientedCalls
  <2>2. i \in 1 .. Len(ic)
    BY <1>8, <2>1
  <2>. QED
    BY <1>8, <1>9, <2>1, <2>2, OccursFlattened
<1>11. Occurs(x, FlattenSeq(fc))
  <2>1. fc[j] = FlattenSeq(ic) /\ DOMAIN fc = DOMAIN filters
    BY DEF FilterCalls, CallsOfFilter, InputCalls
  <2>2. j \in 1 .. Len(fc)
    BY <1>8, <2>1
  <2>. QED
    BY <1>8, <1>10, <2>1, <2>2, OccursFlattened
<1>. QED
  BY <1>11, FilterCallsUnfold DEF FilterCalls

-----------------------------------------------------------------------------
(* Calls that have nothing left to do.                                       *)

\* The domain has changed since it was last propagated.
Pending(s, k) == s.dom[k] # OldDomain(s, k)

\* Something a call reads is pending, or what it restricts is within its answer.
Calm(s, f, b) ==
    \/ \E j \in DOMAIN f.inputs : Pending(s, Reads(f, j, b))
    \/ s.dom[Aims(f, b)] \subseteq CallFilter(s, f, b)

\* t has gone on from s: domains were restricted and nothing was propagated.
Closer(y, s, t) == \A k \in Ks(y) : t.dom[k] \subseteq s.dom[k] /\ OldDomain(t, k) = OldDomain(s, k)

\* The calls the generated code makes: a symmetric choice is filtered on its lower triangle.
IsCall(f, b) ==
    /\ \E j \in DOMAIN filters : f = filters[j]
    /\ b \in Bindings(f, sys.objs) /\ LowerHalf(f, b)

LEMMA CallIs ==
    ASSUME sys \in Systems, FiltersTyped, InputsTyped, NEW f, NEW b, IsCall(f, b)
    PROVE  /\ Aims(f, b) \in Ks(sys) /\ \A j \in DOMAIN f.inputs : Reads(f, j, b) \in Ks(sys)
           /\ b \in Bindings(f, sys.objs)
<1>1. /\ f.choice \in sys.choices \cap {"flag", "num", "rel"} /\ b \in Bindings(f, sys.objs)
      /\ f.choice \in Symmetric => b[Arg(1)] < b[Arg(2)]
      /\ \A j \in DOMAIN f.inputs : InputTyped(f, f.inputs[j])
  BY DEF IsCall, FiltersTyped, InputsTyped, LowerHalf
<1>2. Aims(f, b) \in Ks(sys)
  BY <1>1, TargetKey DEF Aims
<1>3. ASSUME NEW j \in DOMAIN f.inputs PROVE Reads(f, j, b) \in Ks(sys)
  <2>. SUFFICES ASSUME NEW inst, inst = f.inputs[j] PROVE Key(inst.choice, InstArgs(inst, b)) \in Ks(sys)
    BY DEF Reads
  <2>. QED
    BY <1>1, InputKey
<1>. QED
  BY <1>1, <1>2, <1>3

LEMMA SameInputs ==
    ASSUME NEW f, NEW b, NEW s, NEW t, \A j \in DOMAIN f.inputs : t.dom[Reads(f, j, b)] = s.dom[Reads(f, j, b)]
    PROVE  CallFilter(t, f, b) = CallFilter(s, f, b)
<1>1. [i \in DOMAIN f.inputs |-> Get(t, f.inputs[i].choice, InstArgs(f.inputs[i], b))]
        = [i \in DOMAIN f.inputs |-> Get(s, f.inputs[i].choice, InstArgs(f.inputs[i], b))]
  BY DEF Get, Reads
<1>. QED
  BY <1>1 DEF CallFilter

LEMMA OldContains ==
    ASSUME NEW y, NEW s, Shaped(y, s), NEW k \in Ks(y)
    PROVE  s.dom[k] \subseteq OldDomain(s, k)
BY DEF Shaped, OldDomain

\* What a call reads has changed since s if it is not what was propagated.
LEMMA InputsSame ==
    ASSUME sys \in Systems, FiltersTyped, InputsTyped, NEW f, NEW b, IsCall(f, b), NEW s, Shaped(sys, s), NEW t, Closer(sys, s, t),
           \A j \in DOMAIN f.inputs : ~Pending(t, Reads(f, j, b))
    PROVE  /\ CallFilter(t, f, b) = CallFilter(s, f, b)
           /\ \A j \in DOMAIN f.inputs : ~Pending(s, Reads(f, j, b))
<1>1. ASSUME NEW j \in DOMAIN f.inputs PROVE t.dom[Reads(f, j, b)] = s.dom[Reads(f, j, b)] /\ ~Pending(s, Reads(f, j, b))
  <2>. SUFFICES ASSUME NEW k, k = Reads(f, j, b) PROVE t.dom[k] = s.dom[k] /\ ~Pending(s, k)
    OBVIOUS
  <2>1. k \in Ks(sys)
    BY CallIs
  <2>2. t.dom[k] = OldDomain(t, k)
    BY DEF Pending
  <2>3. t.dom[k] \subseteq s.dom[k] /\ OldDomain(t, k) = OldDomain(s, k)
    BY <2>1 DEF Closer
  <2>4. s.dom[k] \subseteq OldDomain(s, k)
    BY <2>1, OldContains
  <2>. QED
    BY <2>2, <2>3, <2>4 DEF Pending
<1>2. CallFilter(t, f, b) = CallFilter(s, f, b)
  BY <1>1, SameInputs
<1>. QED
  BY <1>1, <1>2

\* A calm call stays so: what it reads is as before or has become pending.
LEMMA CalmCloser ==
    ASSUME sys \in Systems, FiltersTyped, InputsTyped, NEW f, NEW b, IsCall(f, b), NEW s, Shaped(sys, s), NEW t, Closer(sys, s, t),
           Calm(s, f, b)
    PROVE  Calm(t, f, b)
<1>. SUFFICES ASSUME \A j \in DOMAIN f.inputs : ~Pending(t, Reads(f, j, b))
              PROVE  t.dom[Aims(f, b)] \subseteq CallFilter(t, f, b)
  BY DEF Calm
<1>1. /\ CallFilter(t, f, b) = CallFilter(s, f, b)
      /\ \A j \in DOMAIN f.inputs : ~Pending(s, Reads(f, j, b))
  BY InputsSame
<1>2. s.dom[Aims(f, b)] \subseteq CallFilter(s, f, b)
  BY <1>1 DEF Calm
<1>3. Aims(f, b) \in Ks(sys)
  BY CallIs
<1>. QED
  BY <1>1, <1>2, <1>3 DEF Closer

LEMMA NarrowedCloser ==
    ASSUME NEW y, NEW s, NEW t, Narrowed(y, s, t) \/ Recounted(y, s, t)
    PROVE  Closer(y, s, t) /\ Shaped(y, t) /\ (t.ok => s.ok)
BY DEF Narrowed, Recounted, Closer

\* A domain that was cut to what a call answered in an earlier state, of which nothing was
\* propagated since.
LEMMA CalmAfter ==
    ASSUME sys \in Systems, FiltersTyped, InputsTyped, NEW f, NEW b, IsCall(f, b), NEW s, Shaped(sys, s), NEW t, Closer(sys, s, t),
           t.dom[Aims(f, b)] \subseteq CallFilter(s, f, b)
    PROVE  Calm(t, f, b)
<1>. SUFFICES ASSUME \A j \in DOMAIN f.inputs : ~Pending(t, Reads(f, j, b))
              PROVE  t.dom[Aims(f, b)] \subseteq CallFilter(t, f, b)
  BY DEF Calm
<1>1. CallFilter(t, f, b) = CallFilter(s, f, b)
  BY InputsSame
<1>. QED
  BY <1>1

\* After its turn a call is calm.
LEMMA CallCalms ==
    ASSUME sys \in Systems, FiltersTyped, InputsTyped, NEW f, NEW b, IsCall(f, b), NEW s, Shaped(sys, s),
           NEW i, NEW call, call = <<f, i, InstArgs(f.inputs[i], b), ArgsOf(f.choice, b)>>,
           NEW t, t = RunFilterCall(s, call), t.ok
    PROVE  Calm(t, f, b)
<1>. SUFFICES ASSUME NEW k, k = Aims(f, b) PROVE Calm(t, f, b)
  OBVIOUS
<1>1. k \in Ks(sys) /\ k[1] = f.choice /\ k[2] = ArgsOf(f.choice, b) /\ b \in Bindings(f, sys.objs)
  BY CallIs DEF Aims
<1>2. s.ok
  BY DEF RunFilterCall
<1>3. s.objs = sys.objs
  BY StateIs DEF Shaped
<1>4. PICK values : t = RestrictChoice(s, k[1], k[2], values) /\ values \subseteq CallFilter(s, f, b)
  <2>. DEFINE bs == {e \in Bindings(f, s.objs) : InstArgs(f.inputs[i], e) = InstArgs(f.inputs[i], b) /\ ArgsOf(f.choice, e) = k[2]}
              vs == {v \in Full(f.choice) : \A e \in bs : v \in CallFilter(s, f, e)}
  <2>1. t = RestrictChoice(s, k[1], k[2], vs)
    BY <1>1, <1>2 DEF RunFilterCall
  <2>2. b \in bs
    BY <1>1, <1>3
  <2>3. vs \subseteq CallFilter(s, f, b)
    BY <2>2
  <2>. QED
    BY <2>1, <2>3
<1>. SUFFICES ASSUME NEW d, d = Meet(s, k, values) PROVE Calm(t, f, b)
  OBVIOUS
<1>5. t.dom = Updated(s.dom, k, d)
  BY <1>1, <1>2, <1>4, RestrictIs
<1>6. k \in DOMAIN s.dom
  <2>1. s.dom \in [Keys(sys) -> Doms]
    BY StateIs DEF Shaped
  <2>2. k \in Keys(sys)
    BY <1>1 DEF Keys
  <2>. QED
    BY <2>1, <2>2
<1>7. t.dom[k] \subseteq CallFilter(s, f, b)
  BY <1>4, <1>5, <1>6 DEF Updated, Meet
<1>8. Narrowed(sys, s, t)
  BY <1>1, <1>4, RestrictNarrows
<1>9. Closer(sys, s, t)
  BY <1>8, NarrowedCloser
<1>. QED
  BY <1>7, <1>9, CalmAfter

\* All calls are calm, except those that read k.
AllCalm(s) == \A f, b : IsCall(f, b) => Calm(s, f, b)
CalmBut(s, k) == \A f, b : IsCall(f, b) => Calm(s, f, b) \/ \E j \in DOMAIN f.inputs : Reads(f, j, b) = k

\* What is calm at some step of a loop that only goes on is calm at its end.
LEMMA CalmToTheEnd ==
    ASSUME sys \in Systems, FiltersTyped, InputsTyped, NEW f, NEW b, IsCall(f, b), NEW n \in Nat, NEW h,
           \A i \in 0 .. n : Shaped(sys, h[i]), \A i \in 1 .. n : Closer(sys, h[i - 1], h[i]) /\ (h[i].ok => h[i - 1].ok),
           NEW p \in 0 .. n, h[p].ok => Calm(h[p], f, b)
    PROVE  h[n].ok => Calm(h[n], f, b)
<1>. DEFINE P == {i \in 0 .. n : i >= p /\ h[i].ok => Calm(h[i], f, b)}
<1>1. ASSUME NEW i \in 1 .. n, i - 1 \in P PROVE i \in P
  <2>. SUFFICES ASSUME i >= p, h[i].ok PROVE Calm(h[i], f, b)
    OBVIOUS
  <2>1. CASE i = p
    BY <2>1
  <2>2. CASE i # p
    <3>1. i - 1 >= p /\ i - 1 \in 0 .. n
      BY <2>2
    <3>2. h[i - 1].ok /\ Closer(sys, h[i - 1], h[i]) /\ Shaped(sys, h[i - 1])
      BY <3>1
    <3>3. Calm(h[i - 1], f, b)
      BY <1>1, <3>1, <3>2
    <3>. QED
      BY <3>2, <3>3, CalmCloser
  <2>. QED
    BY <2>1, <2>2
<1>2. \A i \in 0 .. n : i \in P
  <2>1. 0 \in P
    OBVIOUS
  <2>. HIDE DEF P
  <2>. QED
    BY <1>1, <2>1, UpTo
<1>3. n \in P
  <2>. HIDE DEF P
  <2>. QED
    BY <1>2
<1>. QED
  BY <1>3

\* The calls on_change makes calm those that read the choice.
LEMMA ReadersCalm ==
    ASSUME sys \in Systems, FiltersTyped, InputsTyped, NEW s, Shaped(sys, s), NEW k \in Ks(sys), CalmBut(s, k),
           NEW t, t = FilterReaders(s, k), t.ok
    PROVE  AllCalm(t)
<1>0. s.ok
  BY DEF FilterReaders
<1>k. k[1] # "cnt"
  BY InstanceShape
<1>. SUFFICES ASSUME NEW args, args = k[2], NEW seq, seq = FilterCallsOn(s, k[1], args), NEW f, NEW b, IsCall(f, b)
              PROVE  Calm(t, f, b)
  BY DEF AllCalm
<1>. DEFINE B == {v \in SpaceStates(sys) : Shaped(sys, v)}
<1>1. s.objs = sys.objs /\ s \in B
  BY StateIs DEF Shaped
<1>2. seq \in Seq(Calls(sys, args))
  BY <1>1, FilterCallsTyped
<1>3. Len(seq) \in Nat /\ DOMAIN seq = 1 .. Len(seq) /\ \A i \in DOMAIN seq : seq[i] \in Calls(sys, args)
  BY <1>2
<1>4. ASSUME NEW i \in DOMAIN seq, NEW v \in B PROVE Body("run_filter_call", s, v, seq[i]) \in B
  <2>. SUFFICES ASSUME NEW u, u = RunFilterCall(v, seq[i]) PROVE u \in B
    BY DEF Body
  <2>1. Narrowed(sys, v, u)
    BY <1>3, FilterCallNarrows
  <2>. QED
    BY <2>1 DEF Narrowed, Shaped
<1>5. t = Loop("run_filter_call", s, s, seq)
  BY <1>0, <1>k, FilterCallLoop DEF FilterReaders
<1>6. \A v \in B : Shaped(sys, v)
  OBVIOUS
<1>. HIDE DEF B
<1>7. StaysIn("run_filter_call", s, seq, B)
  BY <1>4 DEF StaysIn
<1>. SUFFICES ASSUME NEW n \in Nat, n = Len(seq) PROVE Calm(t, f, b)
  BY <1>3
<1>8. PICK h \in [0 .. n -> B] : Trace("run_filter_call", s, s, seq, n, h) /\ h[n] = t
  BY <1>1, <1>3, <1>5, <1>7, LoopTrace
<1>9. h[0] = s /\ \A i \in 1 .. n : h[i] = RunFilterCall(h[i - 1], seq[i])
  BY <1>8 DEF Trace, Body
<1>10. \A i \in 0 .. n : Shaped(sys, h[i])
  BY <1>6
<1>11. ASSUME NEW i \in 1 .. n PROVE Closer(sys, h[i - 1], h[i]) /\ (h[i].ok => h[i - 1].ok)
  <2>. SUFFICES ASSUME NEW u, u = h[i - 1], NEW v, v = h[i] PROVE Closer(sys, u, v) /\ (v.ok => u.ok)
    OBVIOUS
  <2>1. Shaped(sys, u) /\ v = RunFilterCall(u, seq[i]) /\ seq[i] \in Calls(sys, args)
    BY <1>3, <1>9, <1>10
  <2>2. Narrowed(sys, u, v)
    BY <2>1, FilterCallNarrows
  <2>. QED
    BY <2>2, NarrowedCloser
<1>12. PICK p \in 0 .. n : h[p].ok => Calm(h[p], f, b)
  <2>1. CASE Calm(s, f, b)
    BY <1>9, <2>1
  <2>2. CASE \E j \in DOMAIN f.inputs : Reads(f, j, b) = k
    <3>1. PICK i \in DOMAIN f.inputs : Reads(f, i, b) = k
      BY <2>2
    <3>. SUFFICES ASSUME NEW call, call = <<f, i, InstArgs(f.inputs[i], b), ArgsOf(f.choice, b)>>
                  PROVE  \E p \in 0 .. n : h[p].ok => Calm(h[p], f, b)
      OBVIOUS
    <3>2. Occurs(call, seq)
      BY <1>1, <3>1, CallOccurs DEF IsCall
    <3>3. PICK p \in 1 .. n : seq[p] = call
      BY <3>2 DEF Occurs
    <3>4. p - 1 \in 0 .. n /\ p \in 0 .. n
      OBVIOUS
    <3>. SUFFICES ASSUME NEW u, u = h[p - 1], NEW v, v = h[p], v.ok PROVE Calm(v, f, b)
      BY <3>4
    <3>5. Shaped(sys, u) /\ v = RunFilterCall(u, call)
      BY <1>9, <1>10, <3>3, <3>4
    <3>. QED
      BY <3>5, CallCalms
  <2>. QED
    BY <2>1, <2>2 DEF CalmBut
<1>13. h[n].ok => Calm(h[n], f, b)
  BY <1>10, <1>11, <1>12, CalmToTheEnd
<1>. QED
  BY <1>8, <1>13

\* Popping a choice leaves calm the calls that do not read it.
LEMMA PoppedCalm ==
    ASSUME sys \in Systems, FiltersTyped, InputsTyped, NEW s, Shaped(sys, s), AllCalm(s), NEW k \in DOMAIN s.diff,
           NEW u, u = Popped(s, k)
    PROVE  CalmBut(u, k)
<1>. SUFFICES ASSUME NEW f, NEW b, IsCall(f, b), \A j \in DOMAIN f.inputs : Reads(f, j, b) # k PROVE Calm(u, f, b)
  BY DEF CalmBut
<1>1. u.dom = s.dom /\ \A j \in Ks(sys) : OldDomain(u, j) = IF j = k THEN s.dom[j] ELSE OldDomain(s, j)
  BY PoppedIs
<1>2. Calm(s, f, b)
  BY DEF AllCalm
<1>3. CallFilter(u, f, b) = CallFilter(s, f, b)
  BY <1>1, SameInputs
<1>4. \A j \in DOMAIN f.inputs : Pending(u, Reads(f, j, b)) <=> Pending(s, Reads(f, j, b))
  BY <1>1, CallIs DEF Pending
<1>. QED
  BY <1>1, <1>2, <1>3, <1>4 DEF Calm

\* incr_counter, update_counter and restrict_counter propagate nothing.
LEMMA CountChangeCloser ==
    ASSUME sys \in Systems, Additive(sys), NEW s, Counted(sys, s), s.ok, NEW k \in DOMAIN s.diff,
           NEW u, u = Popped(s, k), NEW t, t = CountChange(u, k, s.diff[k].old, s.diff[k].new)
    PROVE  \/ "cnt" \in sys.choices /\ Recounted(sys, u, t)
           \/ Narrowed(sys, u, t)
<1>0. /\ Shaped(sys, s) /\ Shaped(sys, u) /\ (HasCounter <=> "cnt" \in sys.choices)
      /\ HasCounter => Exact(sys, s) /\ Adds(sys)
  <2>1. Shaped(sys, s) /\ (HasCounter <=> "cnt" \in sys.choices) /\ (HasCounter => Exact(sys, s) /\ Adds(sys))
    BY DEF Counted, HasCounter, Additive, Adds
  <2>. QED
    BY <2>1, PoppedIs
<1>1. k \in Keys(sys)
  <2>1. PICK D \in SUBSET Keys(sys) : s.diff \in [D -> [old : Doms, new : Doms]]
    BY <1>0 DEF Shaped, SpaceStates, Diffs
  <2>. QED
    BY <2>1
<1>2. CASE k = Cnt
  <2>1. k[1] = "cnt" /\ "cnt" \in sys.choices
    BY <1>1, <1>2, InstanceShape DEF Cnt, Keys
  <2>2. t = RestrictCounter(u)
    BY <2>1, CountChangeIs
  <2>. QED
    BY <1>0, <2>1, <2>2, RestrictCounterNarrows
<1>3. CASE k # Cnt
  <2>0. k \in Ks(sys)
    BY <1>1, <1>3 DEF Keys
  <2>1. k = <<k[1], k[2]>> /\ k[1] \in {"flag", "num", "rel"}
    BY <2>0, InstanceShape
  <2>2. CASE k[1] = "flag" /\ HasCounter
    <3>1. PICK o \in 1 .. sys.objs : k = FlagKey(o) /\ k[2] = <<o>>
      BY <2>0, <2>2, InstanceShape DEF FlagKey
    <3>2. t = IncrCounter(u, o, s.diff[k].old, s.diff[k].new)
      BY <2>2, <3>1, CountChangeIs
    <3>. QED
      BY <1>0, <2>2, <3>1, <3>2, IncrExact
  <2>3. CASE k[1] = "num" /\ HasCounter /\ sys.cnt.chosen
    <3>1. PICK o \in 1 .. sys.objs : k = NumKey(o) /\ k[2] = <<o>>
      BY <2>0, <2>3, InstanceShape DEF NumKey
    <3>2. t = UpdateCounter(u, o, s.diff[k].old, s.diff[k].new)
      BY <2>3, <3>1, CountChangeIs
    <3>. QED
      BY <1>0, <2>3, <3>1, <3>2, UpdateExact
  <2>4. CASE ~(k[1] = "flag" /\ HasCounter) /\ ~(k[1] = "num" /\ HasCounter /\ sys.cnt.chosen)
    <3>1. t = u
      BY <2>1, <2>4, CountChangeIs
    <3>. QED
      BY <1>0, <3>1, NarrowedSelf
  <2>. QED
    BY <2>2, <2>3, <2>4
<1>. QED
  BY <1>2, <1>3

-----------------------------------------------------------------------------
(* The limit of the counter.                                                 *)

\* The counter is pending or its minimum is within the limit.
Limited(y, s) == "cnt" \in y.choices => s.dom[Cnt].min <= y.cnt.limit \/ Cnt \in DOMAIN s.diff

LEMMA LimitedOn ==
    ASSUME NEW y, NEW s, Limited(y, s), NEW t, Narrowed(y, s, t) \/ Recounted(y, s, t)
    PROVE  Limited(y, t)
BY DEF Limited, Narrowed, Recounted

\* A counter that restrict_counter does not refuse has its minimum within the limit.
LEMMA ClampAdmits ==
    ASSUME sys \in Systems, Adds(sys), NEW s, s.dom[Cnt] \in Ranges, NEW new, new = ClampedCounter(s), ~(new.min > new.max)
    PROVE  s.dom[Cnt].min <= sys.cnt.limit
<1>. SUFFICES ASSUME NEW r, r = s.dom[Cnt], NEW lo, lo = r.min, NEW hi, hi = r.max, NEW lim, lim = sys.cnt.limit,
                     NEW mn, mn = Max({lo, 0}), NEW mx, mx = Min({hi, lim})
              PROVE  lo <= lim
  OBVIOUS
<1>1. lo \in Int /\ hi \in Int /\ lim \in Int
  BY SystemsAssumption DEF Ranges, Adds
<1>2. new.min = mn /\ new.max = IF IsHalf THEN lim ELSE mx
  BY DEF ClampedCounter, CounterFilter, Diff
<1>3. mn \in {lo, 0} /\ lo <= mn
  <2>1. \E x \in {lo, 0} : \A z \in {lo, 0} : z <= x
    BY <1>1
  <2>. QED
    BY <1>1, <2>1 DEF Max
<1>4. mx \in {hi, lim} /\ mx <= lim
  <2>1. \E x \in {hi, lim} : \A z \in {hi, lim} : x <= z
    BY <1>1
  <2>. QED
    BY <1>1, <2>1 DEF Min
<1>5. mn <= new.max
  <2>1. mn \in Int /\ mx \in Int
    BY <1>1, <1>3, <1>4
  <2>2. new.max \in Int
    BY <1>1, <1>2, <2>1
  <2>. QED
    BY <1>2, <2>1, <2>2
<1>. QED
  BY <1>1, <1>2, <1>3, <1>4, <1>5

LEMMA CountChangeLimited ==
    ASSUME sys \in Systems, Additive(sys), NEW s, Counted(sys, s), s.ok, Limited(sys, s), NEW k \in DOMAIN s.diff,
           NEW u, u = Popped(s, k), NEW t, t = CountChange(u, k, s.diff[k].old, s.diff[k].new), t.ok
    PROVE  Limited(sys, t)
<1>. SUFFICES ASSUME "cnt" \in sys.choices PROVE Limited(sys, t)
  BY DEF Limited
<1>0. /\ Shaped(sys, s) /\ Exact(sys, s) /\ Adds(sys) /\ s.dom[Cnt] \in Ranges
  <2>1. Shaped(sys, s) /\ Exact(sys, s) /\ Adds(sys)
    BY DEF Counted, Additive, Adds
  <2>2. Tally(sys.objs, CountBase(sys), Shares(sys, s), s.dom[Cnt]) /\ sys.objs \in Nat
    BY <2>1, SystemsAssumption DEF Exact, Tallied
  <2>. QED
    BY <2>1, <2>2, TallyType
<1>1. Shaped(sys, u) /\ u.dom = s.dom
  BY <1>0, PoppedIs
<1>2. Narrowed(sys, u, t) \/ Recounted(sys, u, t)
  BY CountChangeCloser
<1>3. CASE k # Cnt
  <2>1. DOMAIN u.diff = DOMAIN s.diff \ {k}
    BY <1>0, StateIs DEF Popped, Shaped
  <2>2. Limited(sys, u)
    BY <1>1, <1>3, <2>1 DEF Limited
  <2>. QED
    BY <1>2, <2>2, LimitedOn
<1>4. CASE k = Cnt
  <2>1. t = RestrictCounter(u)
    BY <1>4, CountChangeIs DEF Cnt
  <2>2. ~(ClampedCounter(u).min > ClampedCounter(u).max)
    <3>. SUFFICES ASSUME ClampedCounter(u).min > ClampedCounter(u).max PROVE FALSE
      OBVIOUS
    <3>1. t = IF ~u.ok THEN u ELSE [u EXCEPT !.ok = FALSE]
      BY <2>1 DEF RestrictCounter
    <3>2. ~t.ok
      BY <1>1, <3>1, Failed
    <3>. QED
      BY <3>2
  <2>3. u.dom[Cnt].min <= sys.cnt.limit
    BY <1>0, <1>1, <2>2, ClampAdmits
  <2>4. Narrowed(sys, u, t)
    BY <1>1, <2>1, RestrictCounterNarrows
  <2>. QED
    BY <2>3, <2>4 DEF Limited, Narrowed
<1>. QED
  BY <1>3, <1>4

\* X::on_change wakes what reads the popped choice, and disturbs no other call.
LEMMA OnChangeSettles ==
    ASSUME sys \in Systems, Additive(sys), sys.trigger = {}, FiltersTyped, InputsTyped,
           NEW s, Counted(sys, s), s.ok, AllCalm(s), Limited(sys, s), NEW k \in DOMAIN s.diff,
           NEW t, t = OnChange(Popped(s, k), k, s.diff[k].old, s.diff[k].new), t.ok
    PROVE  AllCalm(t) /\ Limited(sys, t)
<1>. SUFFICES ASSUME NEW u, u = Popped(s, k), NEW v, v = CountChange(u, k, s.diff[k].old, s.diff[k].new),
                     NEW w, w = FilterReaders(v, k)
              PROVE  AllCalm(t) /\ Limited(sys, t)
  OBVIOUS
<1>0. Shaped(sys, s) /\ Shaped(sys, u)
  BY PoppedIs DEF Counted
<1>1. t = w
  <2>1. t = FireTrigger(w, k, s.diff[k].old, s.diff[k].new)
    BY DEF OnChange
  <2>2. ~TriggerFires(s.diff[k].old, s.diff[k].new)
    BY IsDef DEF TriggerFires
  <2>. QED
    BY <2>1, <2>2 DEF FireTrigger
<1>2. Narrowed(sys, u, v) \/ Recounted(sys, u, v)
  BY CountChangeCloser
<1>3. Closer(sys, u, v) /\ Shaped(sys, v)
  BY <1>2, NarrowedCloser
<1>4. Narrowed(sys, v, w)
  BY <1>3, FilterReadersNarrows
<1>5. v.ok
  BY <1>1, <1>4 DEF Narrowed
<1>6. Limited(sys, t)
  <2>1. Limited(sys, v)
    BY <1>5, CountChangeLimited
  <2>. QED
    BY <1>1, <1>4, <2>1, LimitedOn
<1>7. CalmBut(u, k)
  BY <1>0, PoppedCalm
<1>8. CalmBut(v, k)
  <2>. SUFFICES ASSUME NEW f, NEW b, IsCall(f, b), \A j \in DOMAIN f.inputs : Reads(f, j, b) # k PROVE Calm(v, f, b)
    BY DEF CalmBut
  <2>1. Calm(u, f, b)
    BY <1>7 DEF CalmBut
  <2>. QED
    BY <1>0, <1>3, <2>1, CalmCloser
<1>9. CASE k \in Ks(sys)
  <2>1. AllCalm(w)
    BY <1>1, <1>3, <1>8, <1>9, ReadersCalm
  <2>. QED
    BY <1>1, <1>6, <2>1
<1>10. CASE k \notin Ks(sys)
  <2>1. AllCalm(v)
    BY <1>8, <1>10, CallIs DEF CalmBut, AllCalm
  <2>2. Closer(sys, v, w)
    BY <1>4, NarrowedCloser
  <2>3. AllCalm(w)
    BY <1>3, <2>1, <2>2, CalmCloser DEF AllCalm
  <2>. QED
    BY <1>1, <1>6, <2>3
<1>. QED
  BY <1>9, <1>10

-----------------------------------------------------------------------------
(* The second round of init_domain.                                          *)

\* Every choice has its turn in a round of filters.
LEMMA OrderedOccurs ==
    ASSUME NEW y \in Systems, NEW x \in Ks(y)
    PROVE  Occurs(x, OrderedInstances(Ks(y)))
<1>. SUFFICES ASSUME NEW S, S = Ks(y), x \in S PROVE Occurs(x, OrderedInstances(S))
  OBVIOUS
<1>. DEFINE part(i) == {k \in S : k[1] = ChoiceOrder[i]}
            sq == [i \in DOMAIN ChoiceOrder |-> SetToSeq(part(i))]
<1>0. \A i : IsFiniteSet(part(i)) /\ part(i) \subseteq S
  BY FiniteKs, FS_Subset
<1>p. PICK p \in 1 .. 4 : x \in part(p)
  <2>1. x[1] \in {"flag", "num", "rel"}
    BY InstanceShape
  <2>2. ChoiceOrder[1] = "flag" /\ ChoiceOrder[2] = "num" /\ ChoiceOrder[3] = "rel"
    BY DEF ChoiceOrder
  <2>3. x \in part(1) \/ x \in part(2) \/ x \in part(3)
    BY <2>1, <2>2
  <2>. QED
    BY <2>3
<1>2. DOMAIN ChoiceOrder = 1 .. 4
  BY DEF ChoiceOrder
<1>3. OrderedInstances(S) = FlattenSeq(sq)
  BY DEF OrderedInstances
<1>. HIDE DEF part
<1>1. \A i : SetToSeq(part(i)) \in Seq(S)
  <2>. SUFFICES ASSUME NEW i PROVE SetToSeq(part(i)) \in Seq(S)
    OBVIOUS
  <2>2. SetToSeq(part(i)) \in Seq(part(i))
    BY <1>0, SetToSeqOf
  <2>. QED
    BY <1>0, <2>2, SeqMonotonic
<1>4. sq \in Seq(Seq(S)) /\ Len(sq) = 4
  <2>1. sq = [i \in 1 .. 4 |-> sq[i]] /\ \A i \in 1 .. 4 : sq[i] \in Seq(S)
    BY <1>1, <1>2
  <2>. HIDE DEF sq
  <2>. QED
    BY <2>1
<1>5. Occurs(x, sq[p])
  <2>1. sq[p] = SetToSeq(part(p))
    BY <1>2
  <2>2. Occurs(x, SetToSeq(part(p)))
    BY <1>0, <1>p, OccursInSet
  <2>. QED
    BY <2>1, <2>2
<1>. HIDE DEF sq
<1>. QED
  BY <1>3, <1>4, <1>5, OccursFlattened

\* restrict_delayed records what the filters ask of a choice, unless it is already so.
LEMMA FilterActionOccurs ==
    ASSUME sys \in Systems, NEW init, Shaped(sys, init), NEW ks \in Seq(Ks(sys)), NEW k \in Ks(sys), Occurs(k, ks),
           NEW values, values = FilterOf(init, k[1], k[2]), NEW a, a = ChoiceAct(k, values \cap init.dom[k]),
           values \cap init.dom[k] # init.dom[k]
    PROVE  Occurs(a, FilterActions(init, ks))
<1>0. Len(ks) \in Nat
  OBVIOUS
<1>. SUFFICES ASSUME NEW n \in Nat, n = Len(ks), NEW res, res = FilterActions(init, ks)
              PROVE  Occurs(a, res)
  BY <1>0
<1>. DEFINE B == Seq(Acts(sys))
<1>1. ASSUME NEW i \in DOMAIN ks, NEW v \in B, NEW u, u = Body("filter_delayed", init, v, ks[i])
      PROVE  Extended(sys, v, u) /\ (ks[i] = k => u = Append(v, a))
  <2>. SUFFICES ASSUME NEW j, j = ks[i], NEW w, w = FilterOf(init, j[1], j[2]), u = Delayed(init, v, j[1], j[2], w)
                PROVE  Extended(sys, v, u) /\ (j = k => u = Append(v, a))
    BY <1>1 DEF Body
  <2>1. j \in Ks(sys) /\ j = <<j[1], j[2]>>
    BY InstanceShape
  <2>2. Extended(sys, v, u)
    BY <2>1, DelayedTyped
  <2>3. ASSUME j = k PROVE u = Append(v, a)
    <3>1. w = values
      BY <2>3
    <3>2. u = Delayed(init, v, k[1], k[2], values) /\ k = <<k[1], k[2]>>
      BY <2>1, <2>3, <3>1
    <3>. QED
      BY <3>2 DEF Delayed, ChoiceAct
  <2>. QED
    BY <2>2, <2>3
<1>2. DOMAIN ks = 1 .. n /\ <<>> \in B
  OBVIOUS
<1>3. StaysIn("filter_delayed", init, ks, B)
  <2>. SUFFICES ASSUME NEW i \in DOMAIN ks, NEW v \in B, NEW u, u = Body("filter_delayed", init, v, ks[i]) PROVE u \in B
    BY DEF StaysIn
  <2>1. Extended(sys, v, u)
    BY <1>1
  <2>. QED
    BY <2>1 DEF Extended
<1>. HIDE DEF B
<1>4. PICK h \in [0 .. n -> B] : Trace("filter_delayed", init, <<>>, ks, n, h) /\ h[n] = res
  BY <1>2, <1>3, FilterDelayedLoop, LoopTrace
<1>5. \A i \in 1 .. n : h[i] = Body("filter_delayed", init, h[i - 1], ks[i])
  BY <1>4 DEF Trace
<1>6. PICK p \in 1 .. n : ks[p] = k
  BY DEF Occurs
<1>. DEFINE P == {i \in 0 .. n : i >= p => Occurs(a, h[i])}
<1>7. ASSUME NEW i \in 1 .. n, i - 1 \in P PROVE i \in P
  <2>. SUFFICES ASSUME i >= p PROVE Occurs(a, h[i])
    OBVIOUS
  <2>. SUFFICES ASSUME NEW v, v = h[i - 1], NEW u, u = h[i] PROVE Occurs(a, u)
    OBVIOUS
  <2>0. v \in B /\ i \in DOMAIN ks /\ u = Body("filter_delayed", init, v, ks[i])
    BY <1>2, <1>5
  <2>1. Extended(sys, v, u) /\ (ks[i] = k => u = Append(v, a))
    BY <1>1, <2>0
  <2>2. CASE i = p
    <3>1. u = Append(v, a) /\ v \in Seq(Acts(sys))
      BY <1>6, <2>0, <2>1, <2>2 DEF B
    <3>2. Len(u) = Len(v) + 1 /\ Len(v) \in Nat /\ u[Len(v) + 1] = a
      BY <3>1
    <3>3. Len(v) + 1 \in 1 .. Len(u)
      BY <3>2
    <3>. QED
      BY <3>2, <3>3 DEF Occurs
  <2>3. CASE i # p
    <3>1. i - 1 >= p
      BY <2>3
    <3>2. Occurs(a, v)
      BY <1>7, <3>1
    <3>3. CASE u = v
      BY <3>2, <3>3
    <3>4. CASE \E c \in Acts(sys) : u = Append(v, c)
      <4>1. PICK c \in Acts(sys) : u = Append(v, c)
        BY <3>4
      <4>2. PICK q \in 1 .. Len(v) : v[q] = a
        BY <3>2 DEF Occurs
      <4>3. v \in Seq(Acts(sys))
        BY <2>0 DEF B
      <4>4. q \in 1 .. Len(u) /\ u[q] = a
        BY <4>1, <4>2, <4>3
      <4>. QED
        BY <4>4 DEF Occurs
    <3>. QED
      BY <2>1, <3>3, <3>4 DEF Extended
  <2>. QED
    BY <2>2, <2>3
<1>8. \A i \in 0 .. n : i \in P
  <2>1. 0 \in P
    OBVIOUS
  <2>. HIDE DEF P
  <2>. QED
    BY <1>7, <2>1, UpTo
<1>9. Occurs(a, h[n])
  <2>1. n \in 0 .. n /\ n >= p
    OBVIOUS
  <2>. QED
    BY <1>8, <2>1
<1>. QED
  BY <1>4, <1>9

\* The actions of init_domain: on a choice, or on the counter.
AnyAct(y, a) == a \in Acts(y) \/ ("cnt" \in y.choices /\ \E d \in Ranges : a = ChoiceAct(Cnt, d))
Tracked(y, v) == Shaped(y, v) /\ ("cnt" \in y.choices => v.dom[Cnt] \in Ranges)

LEMMA ActMoves ==
    ASSUME sys \in Systems, Additive(sys), NEW s, Tracked(sys, s), NEW a, AnyAct(sys, a), NEW t, t = ApplyAction(s, a)
    PROVE  Tracked(sys, t) /\ (Narrowed(sys, s, t) \/ Recounted(sys, s, t))
<1>0. Shaped(sys, s) /\ ("cnt" \in sys.choices => s.dom[Cnt] \in Ranges)
  BY DEF Tracked
<1>1. CASE ~s.ok
  <2>1. t = s
    BY <1>1, Zenon DEF ApplyAction
  <2>2. Narrowed(sys, s, t)
    BY <1>0, <2>1, NarrowedSelf
  <2>. QED
    BY <2>1, <2>2
<1>2. CASE a \in Acts(sys)
  <2>1. Narrowed(sys, s, t)
    BY <1>0, <1>2, ActNarrows
  <2>2. Tracked(sys, t)
    BY <1>0, <2>1 DEF Tracked, Narrowed
  <2>. QED
    BY <2>1, <2>2
<1>3. CASE s.ok /\ "cnt" \in sys.choices /\ \E d \in Ranges : a = ChoiceAct(Cnt, d)
  <2>1. PICK d \in Ranges : a = ChoiceAct(Cnt, d)
    BY <1>3
  <2>2. Adds(sys)
    BY <1>3 DEF Additive, Adds
  <2>3. t = ApplyAction(s, ChoiceAct(Cnt, d))
    BY <2>1
  <2>4. Recounted(sys, s, t) /\ t.dom[Cnt] \in Ranges
    BY <1>0, <1>3, <2>2, <2>3, CountActIs
  <2>5. Tracked(sys, t)
    BY <2>4 DEF Tracked, Recounted
  <2>. QED
    BY <2>4, <2>5
<1>. QED
  BY <1>1, <1>2, <1>3 DEF AnyAct

\* X::filter answers no more than any call on the choice.
LEMMA FilterOfCall ==
    ASSUME NEW s, s.objs = sys.objs, NEW f, NEW b, IsCall(f, b), NEW k, k = Aims(f, b)
    PROVE  FilterOf(s, k[1], k[2]) \subseteq CallFilter(s, f, b)
<1>1. PICK j \in DOMAIN filters : f = filters[j]
  BY DEF IsCall
<1>2. b \in Bindings(filters[j], s.objs) /\ k[1] = filters[j].choice /\ k[2] = ArgsOf(k[1], b)
  BY <1>1 DEF IsCall, Aims
<1>3. CallFilter(s, filters[j], b) \in {CallFilter(s, filters[j], e) : e \in {d \in Bindings(filters[j], s.objs) : ArgsOf(k[1], d) = k[2]}}
  BY <1>2
<1>. QED
  BY <1>1, <1>2, <1>3 DEF FilterOf

\* What the second round of filters asks of a choice.
Asked(s, k) == ChoiceAct(k, FilterOf(s, k[1], k[2]) \cap s.dom[k])

\* Once what the second round asks of a choice is applied, the calls on it are calm.
LEMMA AskedCalms ==
    ASSUME sys \in Systems, FiltersTyped, InputsTyped, NEW f, NEW b, IsCall(f, b), NEW k, k = Aims(f, b),
           NEW s, Shaped(sys, s), NEW u, Shaped(sys, u), NEW t, t = ApplyAction(u, Asked(s, k)), t.ok, Closer(sys, s, t)
    PROVE  Calm(t, f, b)
<1>. SUFFICES ASSUME NEW values, values = FilterOf(s, k[1], k[2]) \cap s.dom[k] PROVE Calm(t, f, b)
  OBVIOUS
<1>1. k \in Ks(sys) /\ k # Cnt
  BY CallIs, InstanceShape
<1>2. s.objs = sys.objs
  BY StateIs DEF Shaped
<1>3. values \subseteq CallFilter(s, f, b)
  BY <1>2, FilterOfCall
<1>4. u.ok
  BY Zenon DEF ApplyAction
<1>5. t = RestrictChoice(u, k[1], k[2], values)
  <2>1. Asked(s, k).k = k /\ Asked(s, k).values = values
    BY DEF Asked, ChoiceAct
  <2>. QED
    BY <1>1, <1>4, <2>1, Zenon DEF ApplyAction
<1>. SUFFICES ASSUME NEW d, d = Meet(u, k, values) PROVE Calm(t, f, b)
  OBVIOUS
<1>6. t.dom = Updated(u.dom, k, d)
  BY <1>1, <1>4, <1>5, RestrictIs
<1>7. k \in DOMAIN u.dom
  <2>1. u.dom \in [Keys(sys) -> Doms]
    BY StateIs DEF Shaped
  <2>2. k \in Keys(sys)
    BY <1>1 DEF Keys
  <2>. QED
    BY <2>1, <2>2
<1>8. t.dom[k] \subseteq CallFilter(s, f, b)
  BY <1>3, <1>6, <1>7 DEF Updated, Meet
<1>. QED
  BY <1>8, CalmAfter

LEMMA CloserTwice ==
    ASSUME NEW y, NEW s, NEW t, NEW u, Closer(y, s, t), Closer(y, t, u)
    PROVE  Closer(y, s, u)
BY DEF Closer

\* Each choice is within what the filters ask of it, or the action is there.
SecondRound(y, s, acts) ==
    \A k \in Ks(y) : s.dom[k] \subseteq FilterOf(s, k[1], k[2]) \/ Occurs(Asked(s, k), acts)

\* After the actions of init_domain every call is calm, in whatever order they come.
LEMMA ActsSettle ==
    ASSUME sys \in Systems, Additive(sys), FiltersTyped, InputsTyped, NEW s, Tracked(sys, s), Limited(sys, s),
           NEW n \in Nat, NEW acts, DOMAIN acts = 1 .. n, Len(acts) = n, \A i \in 1 .. n : AnyAct(sys, acts[i]),
           SecondRound(sys, s, acts), NEW t, t = FoldLeft(ApplyAction, s, acts), t.ok
    PROVE  AllCalm(t) /\ Limited(sys, t)
<1>. DEFINE B == {v \in SpaceStates(sys) : Tracked(sys, v) /\ Closer(sys, s, v) /\ Limited(sys, v)}
<1>0. Shaped(sys, s) /\ s.objs = sys.objs
  BY StateIs DEF Tracked, Shaped
<1>1. ASSUME NEW v \in B, NEW i \in 1 .. n, NEW u, u = ApplyAction(v, acts[i])
      PROVE  u \in B /\ Closer(sys, v, u) /\ (u.ok => v.ok)
  <2>0. Tracked(sys, v) /\ Closer(sys, s, v) /\ Limited(sys, v)
    OBVIOUS
  <2>1. PICK a : a = acts[i] /\ u = ApplyAction(v, a) /\ AnyAct(sys, a)
    BY <1>1
  <2>2. Tracked(sys, u) /\ (Narrowed(sys, v, u) \/ Recounted(sys, v, u))
    BY <2>0, <2>1, ActMoves
  <2>3. Closer(sys, v, u) /\ (u.ok => v.ok)
    BY <2>2, NarrowedCloser
  <2>4. Limited(sys, u)
    BY <2>0, <2>2, LimitedOn
  <2>5. Closer(sys, s, u)
    BY <2>0, <2>3, CloserTwice
  <2>6. u \in SpaceStates(sys)
    BY <2>2 DEF Tracked, Shaped
  <2>. QED
    BY <2>2, <2>3, <2>4, <2>5, <2>6
<1>2. s \in B
  <2>1. Closer(sys, s, s)
    BY DEF Closer
  <2>. QED
    BY <1>0, <2>1 DEF Shaped
<1>3. t = Loop("apply_action", s, s, acts)
  BY ApplyActionLoop
<1>4. \A v \in B : Shaped(sys, v) /\ Closer(sys, s, v) /\ Limited(sys, v)
  BY DEF Tracked
<1>. HIDE DEF B
<1>5. StaysIn("apply_action", s, acts, B)
  <2>. SUFFICES ASSUME NEW i \in DOMAIN acts, NEW v \in B, NEW u, u = ApplyAction(v, acts[i]) PROVE u \in B
    BY DEF StaysIn, Body
  <2>. QED
    BY <1>1
<1>6. PICK h \in [0 .. n -> B] : Trace("apply_action", s, s, acts, n, h) /\ h[n] = t
  BY <1>2, <1>3, <1>5, LoopTrace
<1>7. h[0] = s /\ \A i \in 1 .. n : h[i] = ApplyAction(h[i - 1], acts[i])
  BY <1>6 DEF Trace, Body
<1>8. \A i \in 0 .. n : h[i] \in B /\ Shaped(sys, h[i])
  BY <1>4
<1>9. ASSUME NEW i \in 1 .. n PROVE Closer(sys, h[i - 1], h[i]) /\ (h[i].ok => h[i - 1].ok)
  <2>. SUFFICES ASSUME NEW u, u = h[i - 1], NEW v, v = h[i] PROVE Closer(sys, u, v) /\ (v.ok => u.ok)
    OBVIOUS
  <2>1. u \in B /\ v = ApplyAction(u, acts[i])
    BY <1>7, <1>8
  <2>. QED
    BY <1>1, <2>1
<1>10. Limited(sys, t)
  <2>1. t \in B
    BY <1>6, <1>8
  <2>. QED
    BY <1>4, <2>1
<1>11. ASSUME NEW f, NEW b, IsCall(f, b) PROVE Calm(t, f, b)
  <2>. SUFFICES ASSUME NEW k, k = Aims(f, b) PROVE Calm(t, f, b)
    OBVIOUS
  <2>0. k \in Ks(sys)
    BY <1>11, CallIs
  <2>1. PICK p \in 0 .. n : h[p].ok => Calm(h[p], f, b)
    <3>1. CASE s.dom[k] \subseteq FilterOf(s, k[1], k[2])
      <4>1. s.dom[k] \subseteq CallFilter(s, f, b)
        BY <1>0, <1>11, <3>1, FilterOfCall
      <4>2. Calm(s, f, b)
        BY <4>1 DEF Calm
      <4>. QED
        BY <1>7, <4>2
    <3>2. CASE Occurs(Asked(s, k), acts)
      <4>1. PICK p \in 1 .. n : acts[p] = Asked(s, k)
        BY <3>2 DEF Occurs
      <4>2. p - 1 \in 0 .. n /\ p \in 0 .. n
        OBVIOUS
      <4>. SUFFICES ASSUME NEW u, u = h[p - 1], NEW v, v = h[p], v.ok PROVE Calm(v, f, b)
        BY <4>2
      <4>3. Shaped(sys, u) /\ v = ApplyAction(u, Asked(s, k)) /\ v \in B
        BY <1>7, <1>8, <4>1, <4>2
      <4>4. Closer(sys, s, v)
        BY <1>4, <4>3
      <4>. QED
        BY <1>0, <1>11, <4>3, <4>4, AskedCalms
    <3>. QED
      BY <2>0, <3>1, <3>2 DEF SecondRound
  <2>2. h[n].ok => Calm(h[n], f, b)
    BY <1>8, <1>9, <1>11, <2>1, CalmToTheEnd
  <2>. QED
    BY <1>6, <2>2
<1>. QED
  BY <1>10, <1>11 DEF AllCalm

LEMMA SecondRoundIs ==
    ASSUME sys \in Systems, NEW s, Shaped(sys, s), NEW fa, fa = FilterActions(s, OrderedInstances(Ks(sys))),
           NEW rest \in Seq(AnyActs(sys)), NEW acts, acts = fa \o rest
    PROVE  SecondRound(sys, s, acts)
<1>. SUFFICES ASSUME NEW k \in Ks(sys), NEW values, values = FilterOf(s, k[1], k[2]), ~(s.dom[k] \subseteq values)
              PROVE  Occurs(Asked(s, k), acts)
  BY DEF SecondRound
<1>1. OrderedInstances(Ks(sys)) \in Seq(Ks(sys)) /\ Occurs(k, OrderedInstances(Ks(sys)))
  BY OrderedTyped, OrderedOccurs
<1>. SUFFICES ASSUME NEW ks \in Seq(Ks(sys)), ks = OrderedInstances(Ks(sys)), Occurs(k, ks), NEW a, a = Asked(s, k)
              PROVE  Occurs(a, acts)
  BY <1>1
<1>2. values \cap s.dom[k] # s.dom[k] /\ a = ChoiceAct(k, values \cap s.dom[k])
  BY DEF Asked
<1>3. Occurs(a, fa)
  BY <1>2, FilterActionOccurs
<1>4. fa \in Seq(Acts(sys))
  BY FilterActionsTyped
<1>5. fa \in Seq(AnyActs(sys))
  BY <1>4, ActsAreActs, SeqMonotonic
<1>. QED
  BY <1>3, <1>5, OccursIn

\* init_domain: the first round records no change, and the second makes up for it.
LEMMA InitDomainSettles ==
    ASSUME sys \in Systems, Additive(sys), sys.trigger = {}, objs = sys.objs, EnumValues # {}, FiltersTyped, InputsTyped,
           NEW t, t = InitDomain, t.ok
    PROVE  AllCalm(t) /\ Limited(sys, t)
<1>. SUFFICES ASSUME NEW f, f = InitFilter, NEW s, s = InitCounter(f) PROVE AllCalm(t) /\ Limited(sys, t)
  OBVIOUS
<1>1. Quiet(sys, f)
  BY InitFilterQuiet
<1>2. Quiet(sys, s) /\ ("cnt" \in sys.choices /\ s.ok => CountedWide(sys, s))
  BY <1>1, InitCounterQuiet
<1>3. t = InitPropagate(s)
  BY DEF InitDomain
<1>4. s.ok
  <2>. SUFFICES ASSUME ~s.ok PROVE FALSE
    OBVIOUS
  <2>1. t = s
    BY <1>3 DEF InitPropagate
  <2>. QED
    BY <2>1
<1>5. ~CounterFails(s)
  <2>. SUFFICES ASSUME CounterFails(s) PROVE FALSE
    OBVIOUS
  <2>1. t = [s EXCEPT !.ok = FALSE]
    BY <1>3, <1>4 DEF InitPropagate
  <2>2. ~t.ok
    BY <1>2, <2>1, Failed DEF Quiet
  <2>. QED
    BY <2>2
<1>. SUFFICES ASSUME NEW acts, acts = InitActions(s) PROVE AllCalm(t) /\ Limited(sys, t)
  OBVIOUS
<1>6. t = FoldLeft(ApplyAction, s, acts)
  BY <1>2, <1>3, <1>4, <1>5, InitActs
<1>7. EnumInstances = Ks(sys)
  BY DEF EnumInstances, Ks
<1>. SUFFICES ASSUME NEW fa, fa = FilterActions(s, OrderedInstances(Ks(sys))) PROVE AllCalm(t) /\ Limited(sys, t)
  OBVIOUS
<1>8. Shaped(sys, s) /\ fa \in Seq(Acts(sys))
  <2>1. OrderedInstances(Ks(sys)) \in Seq(Ks(sys)) /\ Shaped(sys, s)
    BY <1>2, OrderedTyped DEF Quiet
  <2>. QED
    BY <2>1, FilterActionsTyped
<1>9. CASE ~HasCounter
  <2>. SUFFICES ASSUME NEW rest, rest = <<>> PROVE AllCalm(t) /\ Limited(sys, t)
    OBVIOUS
  <2>1. acts = fa \o rest
    BY <1>7, <1>9 DEF InitActions
  <2>2. acts = fa /\ rest \in Seq(AnyActs(sys)) /\ Len(fa) \in Nat /\ DOMAIN fa = 1 .. Len(fa)
    BY <1>8, <2>1
  <2>3. SecondRound(sys, s, acts)
    BY <1>8, <2>1, <2>2, SecondRoundIs
  <2>4. \A i \in 1 .. Len(acts) : AnyAct(sys, acts[i])
    BY <1>8, <2>2 DEF AnyAct
  <2>5. Tracked(sys, s) /\ Limited(sys, s)
    BY <1>8, <1>9 DEF Tracked, Limited, HasCounter
  <2>. QED
    BY <1>6, <2>2, <2>3, <2>4, <2>5, ActsSettle
<1>10. CASE HasCounter
  <2>. SUFFICES ASSUME NEW r, r = s.dom[Cnt], NEW e, e = ComputeCounter(s), NEW d, d = GetDiff(r, e),
                       NEW rest, rest = CounterActions(s)
                PROVE  AllCalm(t) /\ Limited(sys, t)
    OBVIOUS
  <2>1. "cnt" \in sys.choices /\ Adds(sys) /\ sys.objs \in Nat /\ s.objs = sys.objs
    BY <1>2, <1>10, StateIs, SystemsAssumption DEF HasCounter, Additive, Adds, Quiet, Shaped
  <2>2. PICK w : Tally(sys.objs, CountBase(sys), Shares(sys, w), r)
    BY <1>2, <1>4, <2>1 DEF CountedWide
  <2>3. Tally(sys.objs, CountBase(sys), Shares(sys, s), e)
    BY <2>1, ComputeIs
  <2>4. r \in Ranges /\ e \in Ranges
    BY <2>1, <2>2, <2>3, TallyType
  <2>5. d \in Ranges
    BY <2>1, <2>4, AddDef DEF Adds, GetDiff, Diff, Ranges
  <2>6. PICK p : Positioned(sys, p, ChoiceAct(Cnt, d), rest)
    BY <1>8, <2>1, <2>5, CounterActionsTyped
  <2>7. acts = fa \o rest
    BY <1>7, <1>10 DEF InitActions
  <2>8. PICK q : Positioned(sys, q, ChoiceAct(Cnt, d), acts)
    BY <1>8, <2>6, <2>7, PositionedAfter
  <2>9. Len(acts) \in Nat /\ DOMAIN acts = 1 .. Len(acts) /\ \A i \in 1 .. Len(acts) : AnyAct(sys, acts[i])
    BY <2>1, <2>5, <2>8 DEF Positioned, AnyAct
  <2>10. rest \in Seq(AnyActs(sys))
    BY <2>6 DEF Positioned
  <2>11. SecondRound(sys, s, acts)
    BY <1>8, <2>7, <2>10, SecondRoundIs
  <2>12. Tracked(sys, s) /\ Limited(sys, s)
    <3>1. ~(ClampedCounter(s).min > ClampedCounter(s).max)
      BY <1>5, <1>10 DEF CounterFails
    <3>2. s.dom[Cnt].min <= sys.cnt.limit
      BY <2>1, <2>4, <3>1, ClampAdmits
    <3>. QED
      BY <1>8, <2>4, <3>2 DEF Tracked, Limited
  <2>. QED
    BY <1>6, <2>9, <2>11, <2>12, ActsSettle
<1>. QED
  BY <1>9, <1>10

-----------------------------------------------------------------------------
(* A space whose diff is empty.                                              *)

\* The calls that filter a choice are those the generated code makes on it.
LEMMA CallsOfChoice ==
    ASSUME sys \in Systems, NEW k \in Ks(sys), NEW i \in DOMAIN filters, NEW f, f = filters[i], f.choice = k[1],
           NEW b \in Bindings(f, sys.objs), ArgsOf(k[1], b) = k[2]
    PROVE  IsCall(f, b) /\ Aims(f, b) = k
<1>1. k = <<k[1], k[2]>>
  BY InstanceShape
<1>2. Aims(f, b) = k
  BY <1>1 DEF Aims
<1>3. ASSUME f.choice \in Symmetric PROVE b[Arg(1)] < b[Arg(2)]
  <2>1. Arity[k[1]] = 2
    BY <1>3, FilterGenAssumption
  <2>2. k[1] = "rel"
    BY <2>1, InstanceShape, SystemsAssumption
  <2>3. PICK o, p \in 1 .. sys.objs : k[2] = <<o, p>> /\ o < p
    BY <2>2, InstanceShape
  <2>4. k[2] = [j \in 1 .. 2 |-> b[Arg(j)]]
    BY <2>1 DEF ArgsOf
  <2>5. k[2][1] = b[Arg(1)] /\ k[2][2] = b[Arg(2)]
    BY <2>4
  <2>. QED
    BY <2>3, <2>5
<1>. QED
  BY <1>2, <1>3 DEF IsCall, LowerHalf

\* With an empty diff the domains are within what every filter answers.
LEMMA CalmFiltered ==
    ASSUME sys \in Systems, FiltersTyped, InputsTyped, NEW s, Shaped(sys, s), AllCalm(s), DOMAIN s.diff = {},
           NEW k \in Ks(sys)
    PROVE  s.dom[k] \subseteq FilterBy(filters, s, k[1], k[2])
<1>0. s.objs = sys.objs /\ s.dom[k] \subseteq Full(k[1])
  BY StateIs DEF Shaped
<1>. SUFFICES ASSUME NEW i \in DOMAIN filters, NEW f, f = filters[i], f.choice = k[1],
                     NEW b \in Bindings(f, sys.objs), ArgsOf(k[1], b) = k[2]
              PROVE  s.dom[k] \subseteq CallFilter(s, f, b)
  BY <1>0 DEF FilterBy
<1>1. IsCall(f, b) /\ Aims(f, b) = k
  BY CallsOfChoice
<1>2. Calm(s, f, b)
  BY <1>1 DEF AllCalm
<1>3. \A j : ~Pending(s, j)
  BY DEF Pending, OldDomain
<1>. QED
  BY <1>1, <1>2, <1>3 DEF Calm

\* The only assignment of a space with every choice decided.
Decided(y, s, m) == \A k \in Ks(y) : s.dom[k] = {m[k]}
Point(y, m) == [k \in Ks(y) |-> {m[k]}]

\* The filters leave a decided space as it is.
Accepts(y, fl, m) ==
    \A k \in Ks(y) : m[k] \in FilterBy(fl, [dom |-> Point(y, m), diff |-> NoDiff, objs |-> y.objs, ok |-> TRUE], k[1], k[2])

LEMMA DecidedAccepts ==
    ASSUME sys \in Systems, FiltersTyped, InputsTyped, NEW s, Shaped(sys, s), AllCalm(s), DOMAIN s.diff = {},
           NEW m, Decided(sys, s, m)
    PROVE  Accepts(sys, filters, m)
<1>. SUFFICES ASSUME NEW k \in Ks(sys), NEW z, z = [dom |-> Point(sys, m), diff |-> NoDiff, objs |-> sys.objs, ok |-> TRUE]
              PROVE  m[k] \in FilterBy(filters, z, k[1], k[2])
  BY DEF Accepts
<1>1. s.objs = sys.objs /\ z.objs = sys.objs
  BY StateIs DEF Shaped
<1>2. \A j \in Ks(sys) : z.dom[j] = s.dom[j]
  BY DEF Decided, Point
<1>3. FilterBy(filters, z, k[1], k[2]) = FilterBy(filters, s, k[1], k[2])
  BY <1>1, <1>2, SameFilters
<1>4. s.dom[k] \subseteq FilterBy(filters, s, k[1], k[2])
  BY CalmFiltered
<1>. QED
  BY <1>3, <1>4 DEF Decided

LEMMA AssignmentOf ==
    ASSUME sys \in Systems, objs = sys.objs, NEW m \in [Ks(sys) -> Vals], Values(sys, m)
    PROVE  m \in AllAssignments
<1>. DEFINE dom == [j \in Ks(sys) |-> Full(j[1])]
<1>0. EnumInstances = Ks(sys)
  BY DEF EnumInstances, Ks
<1>1. AllAssignments = Assignments(dom, Ks(sys))
  BY <1>0 DEF AllAssignments
<1>2. \A j \in Ks(sys) : dom[j] \subseteq Vals /\ m[j] \in dom[j]
  BY FullTypes DEF Vals, Values
<1>. HIDE DEF dom
<1>4. Assignments(dom, Ks(sys)) = Total(Vals, dom, Ks(sys))
  BY <1>2, FiniteKs, AssignmentsAre
<1>. QED
  BY <1>1, <1>2, <1>4 DEF Total

\* ConstraintsHold, for a given description.
SatisfiesCond(con, m, b, c) ==
    LET val(i) == ValueIn(m, con.inputs[i].choice, InstArgs(con.inputs[i], b))
    IN  CASE c.kind = "enum" -> (val(c.in) \in c.vals) # c.neg
          [] c.kind = "code" -> c.val # c.neg
          [] c.kind = "cmpcode" -> Holds(c.op, val(c.lhs), c.rhs)
          [] c.kind = "cmp" ->
               IF con.inputs[c.lhs].choice \in Numeric
               THEN Holds(c.op, val(c.lhs), val(c.rhs))
               ELSE (val(c.lhs) = val(c.rhs)) = (c.op = "Eq")
Satisfies(y, m) ==
    \A i \in DOMAIN y.cons :
      \A b \in {g \in [{Forall(j) : j \in 1 .. y.cons[i].nvars} -> 1 .. y.objs] :
                  \A p, q \in DOMAIN g : g[p] = g[q] => p = q} :
        \E k \in DOMAIN y.cons[i].conds : SatisfiesCond(y.cons[i], m, b, y.cons[i].conds[k])

LEMMA SatisfiesIs ==
    ASSUME objs = sys.objs, NEW m
    PROVE  ConstraintsHold(m) <=> Satisfies(sys, m)
BY Zenon DEF ConstraintsHold, ConstraintHolds, Satisfies, SatisfiesCond

\* What the filters accept satisfies the constraints.
AcceptedHold(y, fl) == \A m \in [Ks(y) -> Vals] : Values(y, m) /\ Accepts(y, fl, m) => Satisfies(y, m)

LEMMA CompleteAccepts ==
    ASSUME sys \in Systems, objs = sys.objs, FiltersComplete
    PROVE  AcceptedHold(sys, filters)
<1>. SUFFICES ASSUME NEW m \in [Ks(sys) -> Vals], Values(sys, m), Accepts(sys, filters, m) PROVE ConstraintsHold(m)
  BY SatisfiesIs DEF AcceptedHold
<1>0. EnumInstances = Ks(sys)
  BY DEF EnumInstances, Ks
<1>1. m \in AllAssignments
  BY AssignmentOf
<1>. SUFFICES ASSUME NEW d, d = Point(sys, m), NEW z, z = StateOf(d) PROVE ConstraintsHold(m)
  OBVIOUS
<1>2. z = [dom |-> d, diff |-> NoDiff, objs |-> sys.objs, ok |-> TRUE]
  BY DEF StateOf
<1>3. \A k \in Ks(sys) : m[k] \in FilterBy(filters, z, k[1], k[2])
  BY <1>2 DEF Accepts
<1>4. \A k \in Ks(sys) : d[k] \subseteq FilterOf(z, k[1], k[2])
  BY <1>3, FilterOfIs DEF Point
<1>5. d = [k \in EnumInstances |-> {m[k]}]
  BY <1>0 DEF Point
<1>. QED
  BY <1>0, <1>1, <1>4, <1>5 DEF FiltersComplete

LEMMA AmountPoint ==
    ASSUME NEW y \in Systems, "cnt" \in y.choices, y.cnt.chosen, NEW x \in Range(NumUniverse), NEW A, A = AmountOf(y, {x})
    PROVE  A.min = x
<1>. SUFFICES ASSUME NEW nums, nums = {x}, NEW d, d = NumSetOf(nums),
                     NEW bits, bits = {k \in DOMAIN NumUniverse : NumUniverse[k] \in nums}
              PROVE  A.min = x
  OBVIOUS
<1>1. A.min = MinValue(d)
  BY DEF AmountOf, Diff
<1>2. d = NumericSet(NumUniverse, bits) /\ d.kind = "set" /\ d.bits = bits /\ d.uni = NumUniverse
  BY DEF NumSetOf, NumericSet
<1>3. Universe(NumUniverse) /\ DOMAIN NumUniverse = 1 .. Len(NumUniverse)
  BY UniverseAssumption DEF Universe, Ordered
<1>4. PICK p \in DOMAIN NumUniverse : NumUniverse[p] = x
  BY DEF Range
<1>5. bits \in SUBSET (1 .. Len(NumUniverse)) /\ p \in bits
  BY <1>3, <1>4
<1>6. Bounded(d)
  BY <1>2, <1>3, <1>5, SetBounded
<1>7. Gamma(d) = {d.uni[k] : k \in d.bits \cap DOMAIN d.uni}
  BY <1>2, SetDef, Zenon
<1>8. \A z \in Gamma(d) : z = x
  BY <1>2, <1>7
<1>. QED
  BY <1>1, <1>6, <1>8 DEF Bounded

\* An object whose flag and amount are decided counts for what it is.
LEMMA DecidedShare ==
    ASSUME NEW y \in Systems, "cnt" \in y.choices, NEW m, Values(y, m), NEW s, DOMAIN s.diff = {}, Decided(y, s, m),
           NEW o \in 1 .. y.objs
    PROVE  Contrib(y, m, o) <= Shares(y, s)[o].min
<1>. SUFFICES ASSUME NEW a, a = Shares(y, s)[o], NEW x, x = Contrib(y, m, o), NEW A, A = AmountOf(y, NumsOf(y, s, o)),
                     NEW v, v = m[FlagKey(o)], NEW I, I = y.cnt.incr
              PROVE  x <= a.min
  OBVIOUS
<1>1. FlagKey(o) \in Ks(y) /\ (y.cnt.chosen => NumKey(o) \in Ks(y)) /\ y.cnt.amount \in Nat
  BY SystemsAssumption, ObjectInstances DEF FlagKey, NumKey
<1>2. \A k \in Ks(y) : OldDomain(s, k) = {m[k]}
  BY DEF Decided, OldDomain
<1>3. a.min = IF Is({v}, I) = "T" THEN A.min ELSE 0
  BY <1>1, <1>2 DEF Shares, Share, Diff
<1>4. x \in Nat
  BY ContribType
<1>5. CASE v \notin I
  <2>1. Is({v}, I) # "T" /\ x = 0
    BY <1>5, IsDef DEF Contrib
  <2>. QED
    BY <1>3, <2>1
<1>6. CASE v \in I
  <2>1. Is({v}, I) = "T"
    BY <1>6, IsDef
  <2>2. A.min = x
    <3>1. CASE y.cnt.chosen
      <4>1. x = m[NumKey(o)] /\ NumsOf(y, s, o) = {m[NumKey(o)]}
        BY <1>1, <1>2, <1>6, <3>1 DEF Contrib, NumsOf
      <4>2. x \in Range(NumUniverse)
        <5>1. m[NumKey(o)] \in Full(NumKey(o)[1]) /\ NumKey(o)[1] = "num"
          BY <1>1, <3>1 DEF Values, NumKey
        <5>. QED
          BY <4>1, <5>1, FullTypes
      <4>3. A = AmountOf(y, {x})
        BY <4>1
      <4>. QED
        BY <3>1, <4>2, <4>3, AmountPoint
    <3>2. CASE ~y.cnt.chosen
      BY <1>6, <3>2 DEF Contrib, AmountOf, Diff
    <3>. QED
      BY <3>1, <3>2
  <2>. QED
    BY <1>3, <1>4, <2>1, <2>2
<1>. QED
  BY <1>5, <1>6

\* The minimum of the counter of a decided space is the count of its assignment.
LEMMA DecidedTally ==
    ASSUME NEW y \in Systems, "cnt" \in y.choices, NEW m, Values(y, m), NEW s, DOMAIN s.diff = {}, Decided(y, s, m),
           NEW x, CountOf(y, m, x), NEW r, Tally(y.objs, CountBase(y), Shares(y, s), r)
    PROVE  x <= r.min
<1>. SUFFICES ASSUME NEW n, n = y.objs, NEW c, c = Contribs(y, m), NEW d, d = Shares(y, s),
                     NEW base, base = PointBase(y), NEW start, start = CountBase(y), NEW q, q = Diff(x, x)
              PROVE  x <= r.min
  OBVIOUS
<1>1. n \in Nat /\ d \in [1 .. n -> Ranges] /\ Tally(n, base, c, q) /\ Tally(n, start, d, r)
  BY SystemsAssumption, SharesType DEF CountOf
<1>2. \A o \in 1 .. n : Contrib(y, m, o) \in Nat /\ c[o] = Diff(Contrib(y, m, o), Contrib(y, m, o))
  BY ContribType DEF Contribs
<1>3. c \in [1 .. n -> Ranges] /\ \A o \in 1 .. n : c[o].min = Contrib(y, m, o)
  <2>1. \A z \in Nat : Diff(z, z) \in Ranges /\ Diff(z, z).min = z
    BY DEF Diff, Ranges
  <2>2. c = [o \in 1 .. n |-> c[o]]
    BY DEF Contribs
  <2>3. \A o \in 1 .. n : c[o] \in Ranges /\ c[o].min = Contrib(y, m, o)
    BY <1>2, <2>1
  <2>. QED
    BY <2>2, <2>3
<1>4. Lowers(n, c, d)
  BY <1>3, DecidedShare DEF Lowers
<1>5. base.min <= start.min
  BY SystemsAssumption DEF PointBase, CountBase, Diff
<1>6. q.min <= r.min
  BY <1>1, <1>3, <1>4, <1>5, TallyBelow
<1>. QED
  BY <1>6 DEF Diff

LEMMA DecidedCount ==
    ASSUME sys \in Systems, Adds(sys), objs = sys.objs, NEW s, Counted(sys, s), s.ok, DOMAIN s.diff = {}, Limited(sys, s),
           NEW m, Values(sys, m), Decided(sys, s, m)
    PROVE  CounterIn(m) <= sys.cnt.limit
<1>. SUFFICES ASSUME NEW x, x = CounterIn(m), NEW r, r = s.dom[Cnt] PROVE x <= sys.cnt.limit
  OBVIOUS
<1>1. sys.objs \in Nat /\ "cnt" \in sys.choices /\ sys.cnt.limit \in Nat
  BY SystemsAssumption DEF Adds
<1>2. CountOf(sys, m, x) /\ x \in Nat
  BY CounterInIs DEF CountOf
<1>3. Tally(sys.objs, CountBase(sys), Shares(sys, s), r)
  BY <1>1 DEF Counted, Exact, Tallied
<1>4. x <= r.min
  BY <1>1, <1>2, <1>3, DecidedTally
<1>5. r \in Ranges
  BY <1>1, <1>3, TallyType
<1>6. r.min <= sys.cnt.limit
  BY <1>1 DEF Limited
<1>. QED
  BY <1>1, <1>2, <1>4, <1>5, <1>6 DEF Ranges

LEMMA FullFinite ==
    ASSUME NEW c
    PROVE  IsFiniteSet(Full(c))
<1>1. IsFiniteSet(EnumValues)
  <2>. SUFFICES ASSUME NEW n, n = Len(EnumSeq) PROVE IsFiniteSet(EnumValues)
    OBVIOUS
  <2>1. n \in Nat /\ DOMAIN EnumSeq = 1 .. n
    BY FilterGenAssumption
  <2>2. IsFiniteSet(1 .. n) /\ \A v \in EnumValues : \E i \in 1 .. n : v = EnumSeq[i]
    <3>1. IsFiniteSet(1 .. n)
      BY <2>1, FS_Interval
    <3>. QED
      BY <2>1, <3>1 DEF EnumValues, Range
  <2>. QED
    BY <2>2, FiniteImage
<1>2. IsFiniteSet(Range(NumUniverse))
  <2>. SUFFICES ASSUME NEW n, n = Len(NumUniverse), NEW T, T = Range(NumUniverse) PROVE IsFiniteSet(T)
    OBVIOUS
  <2>1. n \in Nat /\ DOMAIN NumUniverse = 1 .. n
    BY UniverseAssumption
  <2>2. IsFiniteSet(1 .. n) /\ \A v \in T : \E i \in 1 .. n : v = NumUniverse[i]
    <3>1. IsFiniteSet(1 .. n)
      BY <2>1, FS_Interval
    <3>. QED
      BY <2>1, <3>1 DEF Range
  <2>. QED
    BY <2>2, FiniteImage
<1>. QED
  BY <1>1, <1>2 DEF Full

\* The filters decide: they accept a decided space just when it satisfies the constraints.
FiltersDecide == phase = "compiled" => FiltersTyped /\ InputsTyped /\ FiltersComplete

FixInv ==
    /\ CountInv
    /\ Counting => /\ Running => InputsTyped /\ AcceptedHold(sys, filters) /\ AllCalm(Current) /\ Limited(sys, Current)
                   /\ phase = "idle" => DOMAIN diff = {}

LEMMA CommittedCalm ==
    ASSUME NEW t, Counted(sys, t), Commit(t), sys' = sys, filters' = filters, CountInv',
           InputsTyped, AcceptedHold(sys, filters), t.ok => AllCalm(t) /\ Limited(sys, t)
    PROVE  FixInv'
<1>1. t = [dom |-> t.dom, diff |-> t.diff, objs |-> t.objs, ok |-> t.ok] /\ t.ok \in BOOLEAN
  BY StateIs DEF Counted, Shaped
<1>2. phase' = "idle" => DOMAIN diff' = {}
  BY DEF Commit
<1>3. InputsTyped'
  BY DEF InputsTyped, InputTyped
<1>4. AcceptedHold(sys', filters')
  OBVIOUS
<1>5. ASSUME Running' PROVE AllCalm(Current)' /\ Limited(sys', Current')
  <2>1. t.ok = TRUE
    BY <1>1, <1>5 DEF Running, Commit
  <2>2. Current' = [dom |-> t.dom, diff |-> t.diff, objs |-> t.objs, ok |-> TRUE]
    BY DEF Current, Commit
  <2>3. Current' = t
    BY <1>1, <2>1, <2>2
  <2>4. AllCalm(t) /\ Limited(sys, t)
    BY <2>1
  <2>5. \A f, b : IsCall(f, b)' => IsCall(f, b)
    BY DEF IsCall
  <2>6. \A f, b : IsCall(f, b)' => Calm(Current', f, b)
    BY <2>3, <2>4, <2>5 DEF AllCalm
  <2>7. AllCalm(Current)'
    BY <2>6 DEF AllCalm
  <2>. QED
    BY <2>3, <2>4, <2>7
<1>. QED
  BY <1>2, <1>3, <1>4, <1>5 DEF FixInv

LEMMA FixInvInit == Init => FixInv
BY CountInvInit DEF Init, FixInv, Running

\* Every step keeps the calls calm.
LEMMA FixInvNext ==
    ASSUME FixInv, FiltersDecide, [Next]_vars
    PROVE  FixInv'
<1>0. sys \in Systems /\ CountInv /\ CountInv'
  <2>1. phase = "compiled" => FiltersTyped
    BY DEF FiltersDecide
  <2>2. CountInv
    BY DEF FixInv
  <2>. QED
    BY <2>1, <2>2, CountInvNext DEF CountInv
<1>s. Counting' /\ sys' = sys => Counting
  BY DEF Counting
<1>1. CASE UNCHANGED vars \/ Advance
  <2>1. sys' = sys /\ filters' = filters /\ phase' = phase /\ diff' = diff /\ Current' = Current
    BY <1>1 DEF vars, Advance, Current
  <2>2. InputsTyped => InputsTyped'
    BY <2>1 DEF InputsTyped, InputTyped
  <2>3. AllCalm(Current) => AllCalm(Current)'
    BY <2>1 DEF AllCalm, IsCall
  <2>. QED
    BY <1>0, <1>s, <2>1, <2>2, <2>3 DEF FixInv, Running
<1>2. CASE DedupStep \/ GenStep \/ MergeStep \/ TableStep
  BY <1>0, <1>2 DEF FixInv, Counting, Running, DedupStep, GenStep, MergeStep, TableStep, RuntimeVars
<1>3. CASE NewSpace
  <2>. SUFFICES ASSUME Counting PROVE FixInv'
    BY <1>0, <1>3, <1>s DEF NewSpace, FixInv
  <2>. SUFFICES ASSUME NEW t, t = InitDomain PROVE FixInv'
    OBVIOUS
  <2>1. /\ sys' = sys /\ filters' = filters /\ Commit(t) /\ phase = "compiled"
        /\ sys.trigger = {} /\ Additive(sys) /\ objs = sys.objs /\ EnumValues # {}
    BY <1>0, <1>3, FilterGenAssumption DEF NewSpace, Counting, CountInv
  <2>2. FiltersTyped /\ InputsTyped /\ FiltersComplete
    BY <2>1 DEF FiltersDecide
  <2>3. AcceptedHold(sys, filters)
    BY <1>0, <2>1, <2>2, CompleteAccepts
  <2>4. Counted(sys, t)
    BY <1>0, <2>1, InitDomainCounted
  <2>5. t.ok => AllCalm(t) /\ Limited(sys, t)
    BY <1>0, <2>1, <2>2, InitDomainSettles
  <2>. QED
    BY <1>0, <2>1, <2>2, <2>3, <2>4, <2>5, CommittedCalm
<1>4. ASSUME NEW k1 \in EnumInstances, NEW k2 \in EnumInstances, NEW v1, NEW v2, Decide(k1, v1, k2, v2) PROVE FixInv'
  <2>. SUFFICES ASSUME Counting PROVE FixInv'
    BY <1>0, <1>4, <1>s DEF Decide, FixInv
  <2>. SUFFICES ASSUME NEW c, c = Current, NEW s, s = RestrictChoice(c, k1[1], k1[2], {v1}),
                       NEW t, t = RestrictChoice(s, k2[1], k2[2], {v2})
                PROVE  FixInv'
    OBVIOUS
  <2>1. sys' = sys /\ filters' = filters /\ Running /\ Commit(t)
    BY <1>4 DEF Decide, Running
  <2>2. Counted(sys, c) /\ Shaped(sys, c) /\ FiltersTyped /\ k1 \in Ks(sys) /\ k2 \in Ks(sys)
    BY <1>0, <2>1, CurrentIs
  <2>3. InputsTyped /\ AcceptedHold(sys, filters) /\ AllCalm(c) /\ Limited(sys, c)
    BY <2>1 DEF FixInv
  <2>4. Narrowed(sys, c, s) /\ Shaped(sys, s)
    <3>1. Narrowed(sys, c, s)
      BY <1>0, <2>2, RestrictNarrows
    <3>. QED
      BY <3>1 DEF Narrowed
  <2>5. Narrowed(sys, s, t)
    BY <1>0, <2>2, <2>4, RestrictNarrows
  <2>6. Narrowed(sys, c, t)
    BY <2>4, <2>5, NarrowedTwice
  <2>7. Counted(sys, t) /\ Limited(sys, t) /\ Closer(sys, c, t)
    BY <1>0, <2>2, <2>3, <2>6, CountedNarrowed, LimitedOn, NarrowedCloser
  <2>8. AllCalm(t)
    BY <1>0, <2>2, <2>3, <2>7, CalmCloser DEF AllCalm
  <2>. QED
    BY <1>0, <2>1, <2>3, <2>7, <2>8, CommittedCalm
<1>5. ASSUME NEW k, Pop(k) PROVE FixInv'
  <2>. SUFFICES ASSUME Counting PROVE FixInv'
    BY <1>0, <1>5, <1>s DEF Pop, FixInv
  <2>. SUFFICES ASSUME NEW c, c = Current, NEW t, t = OnChange(Popped(c, k), k, diff[k].old, diff[k].new) PROVE FixInv'
    OBVIOUS
  <2>1. sys' = sys /\ filters' = filters /\ Running /\ k \in DOMAIN diff /\ Commit(t)
    BY <1>5 DEF Pop, Running, Popped
  <2>2. Counted(sys, c) /\ c.ok /\ FiltersTyped /\ c.diff = diff /\ sys.trigger = {} /\ Additive(sys)
    BY <1>0, <2>1, CurrentIs DEF Counting
  <2>3. InputsTyped /\ AcceptedHold(sys, filters) /\ AllCalm(c) /\ Limited(sys, c)
    BY <2>1 DEF FixInv
  <2>4. k \in DOMAIN c.diff /\ t = OnChange(Popped(c, k), k, c.diff[k].old, c.diff[k].new)
    BY <2>1, <2>2
  <2>5. Counted(sys, t)
    BY <1>0, <2>2, <2>4, OnChangeExact
  <2>6. t.ok => AllCalm(t) /\ Limited(sys, t)
    BY <1>0, <2>2, <2>3, <2>4, OnChangeSettles
  <2>. QED
    BY <1>0, <2>1, <2>3, <2>5, <2>6, CommittedCalm
<1>. QED
  BY <1>1, <1>2, <1>3, <1>4, <1>5 DEF Next

LEMMA FixInvFixpoint ==
    ASSUME FixInv, Counting
    PROVE  FixpointReached
<1>. SUFFICES ASSUME phase = "idle", NEW c, c = Current
              PROVE  /\ \A k \in EnumInstances : store[k] \subseteq FilterOf(c, k[1], k[2])
                     /\ (\A k \in EnumInstances : Cardinality(store[k]) = 1) =>
                          IsSolution([k \in EnumInstances |-> CHOOSE v \in store[k] : TRUE])
  BY DEF FixpointReached
<1>1. sys \in Systems /\ CountInv /\ Running /\ objs = sys.objs /\ Additive(sys)
  BY DEF FixInv, CountInv, Running, Counting
<1>2. Counted(sys, c) /\ Shaped(sys, c) /\ c.ok /\ c.dom = store /\ c.diff = diff /\ FiltersTyped /\ EnumInstances = Ks(sys)
  BY <1>1, CurrentIs
<1>3. InputsTyped /\ AcceptedHold(sys, filters) /\ AllCalm(c) /\ Limited(sys, c) /\ DOMAIN c.diff = {}
  BY <1>1, <1>2 DEF FixInv
<1>4. \A k \in Ks(sys) : store[k] \subseteq FilterOf(c, k[1], k[2])
  BY <1>1, <1>2, <1>3, CalmFiltered, FilterOfIs
<1>5. ASSUME \A k \in Ks(sys) : Cardinality(store[k]) = 1,
             NEW m, m = [k \in Ks(sys) |-> CHOOSE v \in store[k] : TRUE]
      PROVE  IsSolution(m)
  <2>1. ASSUME NEW k \in Ks(sys) PROVE c.dom[k] = {m[k]} /\ m[k] \in Full(k[1])
    <3>1. store[k] \subseteq Full(k[1])
      BY <1>2 DEF Shaped
    <3>2. IsFiniteSet(store[k])
      BY <3>1, FullFinite, FS_Subset
    <3>3. PICK x : store[k] = {x}
      BY <1>5, <3>2, FS_Singleton
    <3>4. m[k] = CHOOSE v \in store[k] : TRUE
      BY <1>5
    <3>5. m[k] = x
      BY <3>3, <3>4
    <3>. QED
      BY <1>2, <3>1, <3>3, <3>5
  <2>2. Decided(sys, c, m) /\ Values(sys, m)
    BY <2>1 DEF Decided, Values
  <2>3. m \in [Ks(sys) -> Vals]
    <3>1. \A k \in Ks(sys) : m[k] \in Vals
      BY <2>1, FullTypes DEF Vals
    <3>. QED
      BY <1>5, <3>1
  <2>4. Accepts(sys, filters, m)
    BY <1>1, <1>2, <1>3, <2>2, DecidedAccepts
  <2>5. ConstraintsHold(m)
    BY <1>1, <1>3, <2>2, <2>3, <2>4, SatisfiesIs DEF AcceptedHold
  <2>6. HasCounter => CounterIn(m) <= sys.cnt.limit
    BY <1>1, <1>2, <1>3, <2>2, DecidedCount DEF HasCounter, Additive, Adds
  <2>. QED
    BY <2>5, <2>6 DEF IsSolution
<1>. QED
  BY <1>2, <1>4, <1>5

\* Propagation reaches a fixpoint: in a space without lowering whose counter adds and
\* whose filters decide the constraints, when the diff is empty every choice is within
\* what all the filters ask of it, although the handler of a change only wakes the filters
\* that read the changed choice; a space with every choice decided satisfies every
\* constraint and the limit of the counter.
THEOREM PropagationReachesFixpoint ==
    Spec /\ []FiltersDecide =>
      [](sys.trigger = {} /\ (HasCounter => sys.cnt.kind = "Add") => FixpointReached)
<1>1. FixInv => (sys.trigger = {} /\ (HasCounter => sys.cnt.kind = "Add") => FixpointReached)
  BY FixInvFixpoint DEF Counting, Additive, HasCounter
<1>2. FixInv /\ FiltersDecide /\ [Next]_vars => FixInv'
  BY FixInvNext
<1>. QED
  BY <1>1, <1>2, FixInvInit, PTL DEF Spec
=============================================================================
