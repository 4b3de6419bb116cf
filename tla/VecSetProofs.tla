---------------------------- MODULE VecSetProofs ----------------------------
(***************************************************************************)
(* Proofs about VecSet, for every argument and every sequence of           *)
(* operations.  Taken(s, c) are the elements of s before the cursor c and  *)
(* Rest(s, c) the ones from it on.  All the loops walk two increasing      *)
(* vectors so that what was taken of one is below what is left of the      *)
(* other (Apart); the elements that an operation has produced are then     *)
(* those of the operation on Taken and Rest as sets.                       *)
(***************************************************************************)
EXTENDS VecSet, TLAPS

Taken(s, c) == {s[k] : k \in 1 .. c - 1}
Rest(s, c) == {s[k] : k \in c .. Len(s)}

Cursor(s) == 1 .. Len(s) + 1

(***************************************************************************)
(* A vector that a VecSet may hold.                                        *)
(***************************************************************************)
IsVec(s) == s \in Seq(Int) /\ Increasing(s)

-----------------------------------------------------------------------------
(***************************************************************************)
(* Lemmas about vectors and cursors.                                       *)
(***************************************************************************)

(***************************************************************************)
(* A cursor at the start has taken nothing.                                *)
(***************************************************************************)
LEMMA AtStart ==
    ASSUME NEW s, IsVec(s)
    PROVE  /\ 1 \in Cursor(s)
           /\ Taken(s, 1) = {}
           /\ Rest(s, 1) = Elements(s)
BY DEF IsVec, Cursor, Taken, Rest, Elements

(***************************************************************************)
(* A cursor at the end has taken everything.                               *)
(***************************************************************************)
LEMMA AtEnd ==
    ASSUME NEW s, IsVec(s), NEW c \in Cursor(s), ~(c <= Len(s))
    PROVE  Taken(s, c) = Elements(s) /\ Rest(s, c) = {}
<1>1. c = Len(s) + 1 /\ Len(s) \in Nat
  BY DEF IsVec, Cursor
<1>2. 1 .. c - 1 = DOMAIN s /\ c .. Len(s) = {}
  BY <1>1 DEF IsVec
<1> QED
  BY <1>2 DEF Taken, Rest, Elements

(***************************************************************************)
(* A vector is what was taken and the rest, and the rest is above.         *)
(***************************************************************************)
LEMMA Parts ==
    ASSUME NEW s, IsVec(s), NEW c \in Cursor(s)
    PROVE  /\ Elements(s) = Taken(s, c) \cup Rest(s, c)
           /\ Elements(s) \subseteq Int
           /\ \A x \in Taken(s, c), y \in Rest(s, c) : x < y
<1>1. /\ Len(s) \in Nat /\ DOMAIN s = 1 .. Len(s)
      /\ \A k \in 1 .. Len(s) : s[k] \in Int
      /\ c \in Int /\ 1 <= c /\ c <= Len(s) + 1
  BY DEF IsVec, Cursor
<1>2. \A k \in 1 .. Len(s) : k \in 1 .. c - 1 \/ k \in c .. Len(s)
  BY <1>1
<1>3. /\ \A k \in 1 .. c - 1 : k \in 1 .. Len(s)
      /\ \A k \in c .. Len(s) : k \in 1 .. Len(s)
  BY <1>1
<1>4. Elements(s) = Taken(s, c) \cup Rest(s, c)
  BY <1>1, <1>2, <1>3 DEF Taken, Rest, Elements
<1>5. \A a \in 1 .. c - 1, b \in c .. Len(s) : s[a] < s[b]
  <2> SUFFICES ASSUME NEW a \in 1 .. c - 1, NEW b \in c .. Len(s)
               PROVE  s[a] < s[b]
    OBVIOUS
  <2>1. a < b /\ a \in DOMAIN s /\ b \in DOMAIN s
    BY <1>1
  <2> QED
    BY <2>1 DEF IsVec, Increasing
<1> QED
  BY <1>1, <1>4, <1>5 DEF Taken, Rest, Elements

(***************************************************************************)
(* Moving the cursor takes one element, that is above those taken before   *)
(* and below those that are left.                                          *)
(***************************************************************************)
LEMMA Advance ==
    ASSUME NEW s, IsVec(s), NEW c \in Cursor(s), c <= Len(s)
    PROVE  /\ c + 1 \in Cursor(s)
           /\ s[c] \in Int
           /\ s[c] \in Elements(s)
           /\ Taken(s, c + 1) = Taken(s, c) \cup {s[c]}
           /\ Rest(s, c) = Rest(s, c + 1) \cup {s[c]}
           /\ \A x \in Taken(s, c) : x < s[c]
           /\ \A y \in Rest(s, c + 1) : s[c] < y
<1>1. /\ Len(s) \in Nat /\ DOMAIN s = 1 .. Len(s)
      /\ c \in Int /\ 1 <= c /\ c <= Len(s)
  BY DEF IsVec, Cursor
<1>2. /\ c + 1 \in Cursor(s)
      /\ c \in DOMAIN s
  BY <1>1 DEF Cursor
<1>3. s[c] \in Int /\ s[c] \in Elements(s)
  BY <1>2 DEF IsVec, Elements
<1>4. Taken(s, c + 1) = Taken(s, c) \cup {s[c]}
  <2>1. \A k : k \in 1 .. (c + 1) - 1 <=> k \in 1 .. c - 1 \/ k = c
    BY <1>1
  <2> QED
    BY <2>1 DEF Taken
<1>5. Rest(s, c) = Rest(s, c + 1) \cup {s[c]}
  <2>1. \A k : k \in c .. Len(s) <=> k \in c + 1 .. Len(s) \/ k = c
    BY <1>1
  <2> QED
    BY <2>1 DEF Rest
<1>6. \A x \in Taken(s, c) : x < s[c]
  BY <1>5, Parts
<1>7. \A y \in Rest(s, c + 1) : s[c] < y
  BY <1>2, <1>4, Parts
<1> QED
  BY <1>2, <1>3, <1>4, <1>5, <1>6, <1>7

(***************************************************************************)
(* Pushing an element above all the others keeps a vector a VecSet.        *)
(***************************************************************************)
LEMMA PushAbove ==
    ASSUME NEW s, IsVec(s), NEW x \in Int, \A y \in Elements(s) : y < x
    PROVE  IsVec(Append(s, x)) /\ Elements(Append(s, x)) = Elements(s) \cup {x}
<1>1. /\ Len(s) \in Nat /\ DOMAIN s = 1 .. Len(s)
      /\ Append(s, x) \in Seq(Int)
      /\ DOMAIN Append(s, x) = 1 .. Len(s) + 1
      /\ \A k \in 1 .. Len(s) : Append(s, x)[k] = s[k]
      /\ Append(s, x)[Len(s) + 1] = x
  BY DEF IsVec
<1>2. \A k : k \in 1 .. Len(s) + 1 <=> k \in 1 .. Len(s) \/ k = Len(s) + 1
  BY <1>1
<1>3. Elements(Append(s, x)) = Elements(s) \cup {x}
  BY <1>1, <1>2 DEF Elements
<1>4. ASSUME NEW a \in 1 .. Len(s) + 1, NEW b \in 1 .. Len(s) + 1, a < b
      PROVE  Append(s, x)[a] < Append(s, x)[b]
  <2>1. a \in 1 .. Len(s)
    BY <1>1, <1>4
  <2>2. CASE b \in 1 .. Len(s)
    BY <1>1, <1>4, <2>1, <2>2 DEF IsVec, Increasing
  <2>3. CASE b = Len(s) + 1
    BY <1>1, <2>1, <2>3 DEF Elements
  <2> QED
    BY <1>2, <2>2, <2>3
<1> QED
  BY <1>1, <1>3, <1>4 DEF IsVec, Increasing

-----------------------------------------------------------------------------
(***************************************************************************)
(* Lemmas about the in-place compaction of relative_difference.            *)
(***************************************************************************)

(***************************************************************************)
(* data is the buffer of the vector s of which the loop has read the       *)
(* elements before c and dropped d of them, those in K: its first          *)
(* c - 1 - d cells hold the others, in order, and the cells from c on are  *)
(* untouched.                                                              *)
(***************************************************************************)
Compacted(data, s, c, d, K) ==
    /\ data \in Seq(Int) /\ Len(data) = Len(s)
    /\ d \in Nat /\ d <= c - 1
    /\ \A k \in c .. Len(s) : data[k] = s[k]
    /\ \A a, b \in 1 .. c - 1 - d : a < b => data[a] < data[b]
    /\ Taken(data, c - d) = Taken(s, c) \ K

(***************************************************************************)
(* The loop starts with nothing dropped.                                   *)
(***************************************************************************)
LEMMA CompactStart ==
    ASSUME NEW s, IsVec(s), NEW K
    PROVE  Compacted(s, s, 1, 0, K)
BY DEF Compacted, IsVec, Taken

(***************************************************************************)
(* Move keeps the element at the cursor: whether it copies it down, or     *)
(* finds it in place because nothing was dropped yet.                      *)
(***************************************************************************)
LEMMA CompactMove ==
    ASSUME NEW s, IsVec(s), NEW c \in Cursor(s), c <= Len(s), NEW d, NEW K, NEW data,
           Compacted(data, s, c, d, K), s[c] \notin K
    PROVE  Compacted(Move(data, c, d), s, c + 1, d, K)
<1> DEFINE new == Move(data, c, d)
<1>1. /\ Len(s) \in Nat /\ c \in Int /\ 1 <= c /\ c <= Len(s)
      /\ d \in Nat /\ d <= c - 1
      /\ data \in Seq(Int) /\ Len(data) = Len(s) /\ DOMAIN data = 1 .. Len(s)
      /\ \A k \in 1 .. Len(s) : data[k] \in Int
      /\ data[c] = s[c]
  BY DEF Compacted, IsVec, Cursor
<1>2. c - d \in 1 .. Len(s) /\ c - d <= c
  BY <1>1
<1>3. /\ new \in Seq(Int) /\ Len(new) = Len(s)
      /\ new[c - d] = s[c]
      /\ \A k \in 1 .. Len(s) : k # c - d => new[k] = data[k]
  <2>1. CASE d > 0
    <3>1. new = [data EXCEPT ![c - d] = data[c]]
      BY <2>1 DEF Move
    <3> HIDE DEF new
    <3> QED
      BY <1>1, <1>2, <3>1
  <2>2. CASE ~(d > 0)
    <3>1. d = 0 /\ new = data
      BY <1>1, <2>2 DEF Move
    <3> HIDE DEF new
    <3> QED
      BY <1>1, <1>2, <3>1
  <2> QED
    BY <2>1, <2>2
<1> HIDE DEF new
<1>4. \A k \in c + 1 .. Len(s) : new[k] = s[k]
  <2> SUFFICES ASSUME NEW k \in c + 1 .. Len(s) PROVE new[k] = s[k]
    OBVIOUS
  <2>1. k # c - d /\ k \in 1 .. Len(s) /\ k \in c .. Len(s)
    BY <1>1
  <2> QED
    BY <1>3, <2>1 DEF Compacted
<1>5. \A k \in 1 .. c - 1 - d : k \in 1 .. Len(s) /\ new[k] = data[k]
  BY <1>1, <1>3
<1>6. Taken(new, (c + 1) - d) = Taken(s, c + 1) \ K
  <2>1. Taken(new, (c + 1) - d) = Taken(data, c - d) \cup {s[c]}
    <3>1. \A k : k \in 1 .. ((c + 1) - d) - 1 <=> k \in 1 .. (c - d) - 1 \/ k = c - d
      BY <1>1
    <3>2. \A k \in 1 .. (c - d) - 1 : new[k] = data[k]
      BY <1>1, <1>5
    <3> QED
      BY <1>3, <3>1, <3>2 DEF Taken
  <2> QED
    BY <2>1, Advance DEF Compacted
<1>7. \A k \in 1 .. c - 1 - d : data[k] < s[c]
  <2>1. \A k \in 1 .. c - 1 - d : data[k] \in Taken(data, c - d)
    <3>1. \A k \in 1 .. c - 1 - d : k \in 1 .. (c - d) - 1
      BY <1>1
    <3> QED
      BY <3>1 DEF Taken
  <2>2. Taken(data, c - d) \subseteq Taken(s, c)
    BY DEF Compacted
  <2>3. \A x \in Taken(s, c) : x < s[c]
    BY Advance
  <2> QED
    BY <2>1, <2>2, <2>3
<1>8. \A a, b \in 1 .. (c + 1) - 1 - d : a < b => new[a] < new[b]
  <2> SUFFICES ASSUME NEW a \in 1 .. (c + 1) - 1 - d, NEW b \in 1 .. (c + 1) - 1 - d, a < b
               PROVE  new[a] < new[b]
    OBVIOUS
  <2>1. a \in 1 .. c - 1 - d /\ (b \in 1 .. c - 1 - d \/ b = c - d)
    BY <1>1
  <2>2. CASE b \in 1 .. c - 1 - d
    BY <1>5, <2>1, <2>2 DEF Compacted
  <2>3. CASE b = c - d
    BY <1>3, <1>5, <1>7, <2>1, <2>3
  <2> QED
    BY <2>1, <2>2, <2>3
<1>9. d \in Nat /\ d <= (c + 1) - 1
  BY <1>1
<1> QED
  BY <1>3, <1>4, <1>6, <1>8, <1>9 DEF Compacted, new

(***************************************************************************)
(* Dropping the element at the cursor.                                     *)
(***************************************************************************)
LEMMA CompactDrop ==
    ASSUME NEW s, IsVec(s), NEW c \in Cursor(s), c <= Len(s), NEW d, NEW K, NEW data,
           Compacted(data, s, c, d, K), s[c] \in K
    PROVE  Compacted(data, s, c + 1, d + 1, K)
<1>1. /\ Len(s) \in Nat /\ c \in Int /\ 1 <= c /\ d \in Nat /\ d <= c - 1
  BY DEF Compacted, IsVec, Cursor
<1>2. /\ (c + 1) - (d + 1) = c - d
      /\ (c + 1) - 1 - (d + 1) = c - 1 - d
      /\ d + 1 \in Nat /\ d + 1 <= (c + 1) - 1
      /\ \A k \in c + 1 .. Len(s) : k \in c .. Len(s)
  BY <1>1
<1>3. Taken(s, c + 1) \ K = Taken(s, c) \ K
  BY Advance
<1> QED
  BY <1>2, <1>3 DEF Compacted

(***************************************************************************)
(* When the other vector is finished, moving the tail down leaves the      *)
(* VecSet of the elements that are not in K.                               *)
(***************************************************************************)
Survivors(data, s, d, K) ==
    /\ Len(s) - d \in Nat
    /\ IsVec(Prefix(data, Len(s) - d))
    /\ Len(Prefix(data, Len(s) - d)) = Len(s) - d
    /\ Elements(Prefix(data, Len(s) - d)) = Elements(s) \ K

LEMMA CompactEnd ==
    ASSUME NEW s, IsVec(s), NEW c \in Cursor(s), NEW d, NEW K, NEW data,
           Compacted(data, s, c, d, K), Rest(s, c) \cap K = {}
    PROVE  LET new == IF c <= Len(s) THEN MoveTail(data, c, d) ELSE data
           IN  Survivors(new, s, d, K)
<1> DEFINE new == IF c <= Len(s) THEN MoveTail(data, c, d) ELSE data
           n == Len(s) - d
<1>1. /\ Len(s) \in Nat /\ c \in Int /\ 1 <= c /\ c <= Len(s) + 1
      /\ d \in Nat /\ d <= c - 1
      /\ data \in Seq(Int) /\ Len(data) = Len(s) /\ DOMAIN data = 1 .. Len(s)
      /\ \A k \in 1 .. Len(s) : data[k] \in Int /\ s[k] \in Int
      /\ DOMAIN s = 1 .. Len(s)
  BY DEF Compacted, IsVec, Cursor
<1>2. n \in Nat /\ c - 1 - d <= n /\ n <= Len(s)
  BY <1>1
<1>3. /\ \A k \in 1 .. c - 1 - d : new[k] = data[k]
      /\ \A k \in c - d .. n : new[k] = s[k + d]
  <2>0. \A k \in c - d .. n : k + d \in c .. Len(s) /\ k \in 1 .. Len(s)
    BY <1>1
  <2>1. CASE c <= Len(s) /\ d > 0
    <3>1. new = [k \in 1 .. Len(data) |->
                    IF k \in c - d .. Len(data) - d THEN data[k + d] ELSE data[k]]
      BY <2>1 DEF MoveTail
    <3>2. ASSUME NEW k \in 1 .. c - 1 - d
          PROVE  new[k] = data[k]
      <4>1. k \in 1 .. Len(data) /\ k \notin c - d .. Len(data) - d
        BY <1>1
      <4> HIDE DEF new
      <4> QED
        BY <3>1, <4>1
    <3>3. ASSUME NEW k \in c - d .. n
          PROVE  new[k] = s[k + d]
      <4>1. k \in 1 .. Len(data) /\ k \in c - d .. Len(data) - d
        BY <1>1
      <4>2. data[k + d] = s[k + d]
        BY <2>0 DEF Compacted
      <4> HIDE DEF new
      <4> QED
        BY <3>1, <4>1, <4>2
    <3> QED
      BY <3>2, <3>3
  <2>2. CASE ~(c <= Len(s) /\ d > 0)
    <3>1. new = data /\ (d = 0 \/ c > Len(s))
      BY <1>1, <2>2 DEF MoveTail
    <3> HIDE DEF new
    <3>2. \A k \in c - d .. n : k + d = k
      BY <1>1, <3>1
    <3> QED
      BY <2>0, <3>1, <3>2 DEF Compacted
  <2> QED
    BY <2>1, <2>2
<1> HIDE DEF new
<1>4. \A k \in 1 .. n : \/ k \in 1 .. c - 1 - d
                        \/ k \in c - d .. n /\ k + d \in c .. Len(s) /\ k + d \in 1 .. Len(s)
  BY <1>1
<1>5. \A k \in 1 .. c - 1 - d : k \in 1 .. n /\ k \in 1 .. (c - d) - 1 /\ k \in 1 .. Len(s)
  BY <1>1
<1>6. /\ Prefix(new, n) \in Seq(Int)
      /\ Len(Prefix(new, n)) = n
      /\ DOMAIN Prefix(new, n) = 1 .. n
      /\ \A k \in 1 .. n : Prefix(new, n)[k] = new[k]
  <2>1. \A k \in 1 .. n : new[k] \in Int
    BY <1>1, <1>3, <1>4, <1>5
  <2> HIDE DEF n
  <2>2. Prefix(new, n) \in [1 .. n -> Int]
    BY <2>1 DEF Prefix
  <2> QED
    BY <1>2, <2>2 DEF Prefix
<1>7. Elements(Prefix(new, n)) = Elements(s) \ K
  <2>1. Elements(Prefix(new, n)) = {new[k] : k \in 1 .. n}
    BY <1>6 DEF Elements
  <2>2. {new[k] : k \in 1 .. n} = Taken(data, c - d) \cup Rest(s, c)
    <3>1. ASSUME NEW k \in 1 .. n
          PROVE  new[k] \in Taken(data, c - d) \cup Rest(s, c)
      <4>1. CASE k \in 1 .. c - 1 - d
        BY <1>3, <1>5, <4>1 DEF Taken
      <4>2. CASE k \in c - d .. n /\ k + d \in c .. Len(s)
        BY <1>3, <4>2 DEF Rest
      <4> QED
        BY <1>4, <4>1, <4>2
    <3>2. ASSUME NEW x \in Taken(data, c - d)
          PROVE  x \in {new[k] : k \in 1 .. n}
      <4>1. PICK k \in 1 .. (c - d) - 1 : x = data[k]
        BY DEF Taken
      <4>2. k \in 1 .. c - 1 - d
        BY <1>1
      <4> QED
        BY <1>3, <1>5, <4>1, <4>2
    <3>3. ASSUME NEW x \in Rest(s, c)
          PROVE  x \in {new[k] : k \in 1 .. n}
      <4>1. PICK k \in c .. Len(s) : x = s[k]
        BY DEF Rest
      <4>2. k - d \in c - d .. n /\ k - d \in 1 .. n /\ (k - d) + d = k
        BY <1>1
      <4> QED
        BY <1>3, <4>1, <4>2
    <3> QED
      BY <3>1, <3>2, <3>3
  <2>3. Elements(s) = Taken(s, c) \cup Rest(s, c)
    BY Parts
  <2> QED
    BY <2>1, <2>2, <2>3 DEF Compacted
<1>8. \A a, b \in 1 .. n : a < b => new[a] < new[b]
  <2> SUFFICES ASSUME NEW a \in 1 .. n, NEW b \in 1 .. n, a < b
               PROVE  new[a] < new[b]
    OBVIOUS
  <2>1. CASE b \in 1 .. c - 1 - d
    <3>1. a \in 1 .. c - 1 - d
      BY <1>1, <2>1
    <3> QED
      BY <1>3, <2>1, <3>1 DEF Compacted
  <2>2. CASE b \in c - d .. n /\ b + d \in 1 .. Len(s)
    <3>0. new[b] = s[b + d] /\ new[b] \in Rest(s, c)
      BY <1>1, <1>3, <1>4, <2>2 DEF Rest
    <3>1. CASE a \in 1 .. c - 1 - d
      <4>1. new[a] \in Taken(data, c - d)
        BY <1>3, <1>5, <3>1 DEF Taken
      <4>2. new[a] \in Taken(s, c)
        BY <4>1 DEF Compacted
      <4> QED
        BY <3>0, <4>2, Parts
    <3>2. CASE a \in c - d .. n /\ a + d \in 1 .. Len(s)
      <4>1. new[a] = s[a + d] /\ a + d < b + d
        BY <1>1, <1>3, <3>2
      <4> QED
        BY <1>1, <2>2, <3>0, <3>2, <4>1 DEF IsVec, Increasing
    <3> QED
      BY <1>4, <3>1, <3>2
  <2> QED
    BY <1>4, <2>1, <2>2
<1>9. IsVec(Prefix(new, n))
  <2> HIDE DEF n
  <2>1. \A a, b \in 1 .. n : a < b => Prefix(new, n)[a] < Prefix(new, n)[b]
    BY <1>6, <1>8
  <2> QED
    BY <1>6, <2>1 DEF IsVec, Increasing
<1>10. Survivors(new, s, d, K)
  BY <1>2, <1>6, <1>7, <1>9 DEF Survivors
<1> QED
  BY <1>10 DEF new

-----------------------------------------------------------------------------
(***************************************************************************)
(* Lemmas about two cursors that advance together.                         *)
(***************************************************************************)

(***************************************************************************)
(* What was taken of either vector is below what is left of the other.     *)
(* difference and intersect leave the cursor of the other vector on an     *)
(* element that they found, so that one of the orders is weak.             *)
(***************************************************************************)
WeaklyApart(l, i, r, j) ==
    /\ \A x \in Taken(l, i), y \in Rest(r, j) : x <= y
    /\ \A y \in Taken(r, j), x \in Rest(l, i) : y < x

Apart(l, i, r, j) ==
    /\ \A x \in Taken(l, i), y \in Rest(r, j) : x < y
    /\ \A y \in Taken(r, j), x \in Rest(l, i) : y < x

(***************************************************************************)
(* The cursor of the left vector advances over an element that is below,   *)
(* or not above, the rest of the right vector.                             *)
(***************************************************************************)
LEMMA StepLhs ==
    ASSUME NEW l, NEW r, IsVec(l), IsVec(r), NEW i \in Cursor(l), NEW j \in Cursor(r),
           i <= Len(l)
    PROVE  /\ WeaklyApart(l, i, r, j) /\ (j <= Len(r) => l[i] <= r[j])
                => WeaklyApart(l, i + 1, r, j)
           /\ Apart(l, i, r, j) /\ (j <= Len(r) => l[i] < r[j])
                => Apart(l, i + 1, r, j)
<1>1. /\ l[i] \in Int
      /\ Taken(l, i + 1) = Taken(l, i) \cup {l[i]}
      /\ Rest(l, i) = Rest(l, i + 1) \cup {l[i]}
  BY Advance
<1>2. Rest(r, j) \subseteq Int
  BY Parts
<1>3. CASE j <= Len(r)
  <2>1. /\ r[j] \in Int
        /\ \A y \in Rest(r, j) : r[j] = y \/ r[j] < y
    BY <1>3, Advance
  <2>2. l[i] <= r[j] => \A y \in Rest(r, j) : l[i] <= y
    BY <1>1, <1>2, <2>1
  <2>3. l[i] < r[j] => \A y \in Rest(r, j) : l[i] < y
    BY <1>1, <1>2, <2>1
  <2> QED
    BY <1>1, <1>3, <2>2, <2>3 DEF Apart, WeaklyApart
<1>4. CASE ~(j <= Len(r))
  <2>1. Rest(r, j) = {}
    BY <1>4, AtEnd
  <2> QED
    BY <1>1, <2>1 DEF Apart, WeaklyApart
<1> QED
  BY <1>3, <1>4

(***************************************************************************)
(* The cursor of the right vector advances over an element that is below   *)
(* the rest of the left vector.                                            *)
(***************************************************************************)
LEMMA StepRhs ==
    ASSUME NEW l, NEW r, IsVec(l), IsVec(r), NEW i \in Cursor(l), NEW j \in Cursor(r),
           j <= Len(r), i <= Len(l) => r[j] < l[i]
    PROVE  /\ WeaklyApart(l, i, r, j) => WeaklyApart(l, i, r, j + 1)
           /\ Apart(l, i, r, j) => Apart(l, i, r, j + 1)
<1>1. /\ r[j] \in Int
      /\ Taken(r, j + 1) = Taken(r, j) \cup {r[j]}
      /\ Rest(r, j) = Rest(r, j + 1) \cup {r[j]}
  BY Advance
<1>2. \A x \in Rest(l, i) : r[j] < x
  <2>0. Rest(l, i) \subseteq Int
    BY Parts
  <2>1. CASE i <= Len(l)
    <3>1. l[i] \in Int /\ \A x \in Rest(l, i) : l[i] = x \/ l[i] < x
      BY <2>1, Advance
    <3> QED
      BY <1>1, <2>0, <2>1, <3>1
  <2>2. CASE ~(i <= Len(l))
    BY <2>2, AtEnd
  <2> QED
    BY <2>1, <2>2
<1> QED
  BY <1>1, <1>2 DEF Apart, WeaklyApart

(***************************************************************************)
(* Both cursors advance over an element that is in both vectors.           *)
(***************************************************************************)
LEMMA StepBoth ==
    ASSUME NEW l, NEW r, IsVec(l), IsVec(r), NEW i \in Cursor(l), NEW j \in Cursor(r),
           i <= Len(l), j <= Len(r), l[i] = r[j], Apart(l, i, r, j)
    PROVE  Apart(l, i + 1, r, j + 1)
<1>1. /\ Taken(l, i + 1) = Taken(l, i) \cup {l[i]}
      /\ Rest(l, i) = Rest(l, i + 1) \cup {l[i]}
      /\ \A x \in Rest(l, i + 1) : l[i] < x
  BY Advance
<1>2. /\ Taken(r, j + 1) = Taken(r, j) \cup {r[j]}
      /\ Rest(r, j) = Rest(r, j + 1) \cup {r[j]}
      /\ \A y \in Rest(r, j + 1) : r[j] < y
  BY Advance
<1> QED
  BY <1>1, <1>2 DEF Apart

(***************************************************************************)
(* An element below the rest of the other vector is not in that vector.    *)
(***************************************************************************)
LEMMA NotInRhs ==
    ASSUME NEW l, NEW r, IsVec(l), IsVec(r), NEW i \in Cursor(l), NEW j \in Cursor(r),
           i <= Len(l), WeaklyApart(l, i, r, j) \/ Apart(l, i, r, j),
           j <= Len(r) => l[i] < r[j]
    PROVE  l[i] \notin Elements(r)
<1>1. l[i] \in Int /\ l[i] \in Rest(l, i)
  BY Advance
<1>2. Elements(r) = Taken(r, j) \cup Rest(r, j) /\ Elements(r) \subseteq Int
  BY Parts
<1>3. l[i] \notin Taken(r, j)
  BY <1>1, <1>2 DEF Apart, WeaklyApart
<1>4. l[i] \notin Rest(r, j)
  <2>1. CASE j <= Len(r)
    <3>1. r[j] \in Int /\ \A y \in Rest(r, j) : r[j] = y \/ r[j] < y
      BY <2>1, Advance
    <3> QED
      BY <1>1, <1>2, <2>1, <3>1
  <2>2. CASE ~(j <= Len(r))
    BY <2>2, AtEnd
  <2> QED
    BY <2>1, <2>2
<1> QED
  BY <1>2, <1>3, <1>4

(***************************************************************************)
(* ... and the same from the right vector.                                 *)
(***************************************************************************)
LEMMA NotInLhs ==
    ASSUME NEW l, NEW r, IsVec(l), IsVec(r), NEW i \in Cursor(l), NEW j \in Cursor(r),
           j <= Len(r), Apart(l, i, r, j), i <= Len(l) => r[j] < l[i]
    PROVE  r[j] \notin Elements(l)
<1>1. r[j] \in Int /\ r[j] \in Rest(r, j)
  BY Advance
<1>2. Elements(l) = Taken(l, i) \cup Rest(l, i) /\ Elements(l) \subseteq Int
  BY Parts
<1>3. r[j] \notin Taken(l, i)
  BY <1>1, <1>2 DEF Apart
<1>4. r[j] \notin Rest(l, i)
  <2>1. CASE i <= Len(l)
    <3>1. l[i] \in Int /\ \A y \in Rest(l, i) : l[i] = y \/ l[i] < y
      BY <2>1, Advance
    <3> QED
      BY <1>1, <1>2, <2>1, <3>1
  <2>2. CASE ~(i <= Len(l))
    BY <2>2, AtEnd
  <2> QED
    BY <2>1, <2>2
<1> QED
  BY <1>2, <1>3, <1>4

(***************************************************************************)
(* When a vector is finished, what is left of the other is not in it.      *)
(***************************************************************************)
LEMMA RestIsNew ==
    ASSUME NEW l, NEW r, IsVec(l), IsVec(r), NEW i \in Cursor(l), NEW j \in Cursor(r),
           Apart(l, i, r, j), ~(i <= Len(l)) \/ ~(j <= Len(r))
    PROVE  Rest(l, i) \cap Elements(r) = {} /\ Rest(r, j) \cap Elements(l) = {}
<1>1. /\ Elements(l) = Taken(l, i) \cup Rest(l, i) /\ Elements(l) \subseteq Int
      /\ Elements(r) = Taken(r, j) \cup Rest(r, j) /\ Elements(r) \subseteq Int
  BY Parts
<1>2. Rest(l, i) = {} \/ Rest(r, j) = {}
  BY AtEnd
<1>3. \A x \in Int : ~(x < x)
  OBVIOUS
<1>4. /\ \A x \in Rest(l, i) : x \notin Taken(r, j)
      /\ \A y \in Rest(r, j) : y \notin Taken(l, i)
  BY <1>1, <1>3 DEF Apart
<1> QED
  BY <1>1, <1>2, <1>4

-----------------------------------------------------------------------------
(***************************************************************************)
(* The inductive invariant.                                                *)
(***************************************************************************)

TypeInv ==
    /\ IsVec(lhs) /\ IsVec(rhs) /\ IsVec(out)
    /\ op \in Operation \cup {"filter", "insert"}
    /\ prev_ord \in {"Less", "Equal", "Greater", "None"}
    /\ pc = "run" => /\ lhs_cursor \in Cursor(lhs) /\ rhs_cursor \in Cursor(rhs)
                     /\ op # "insert"

(***************************************************************************)
(* Where the cursors of a running operation are.                           *)
(***************************************************************************)
CursorInv ==
    pc = "run" =>
      /\ op \in {"difference", "intersect"} =>
            WeaklyApart(lhs, lhs_cursor, rhs, rhs_cursor)
      /\ op \in {"intersection", "union", "partial_cmp", "relative_difference"} =>
            Apart(lhs, lhs_cursor, rhs, rhs_cursor)

(***************************************************************************)
(* What a running operation has produced: the result for the elements that *)
(* it has taken.                                                           *)
(***************************************************************************)
OrderSoFar(ord, L, R) ==
    /\ ord = "Equal" => L = R
    /\ ord = "Less" => L \subseteq R /\ L # R
    /\ ord = "Greater" => R \subseteq L /\ L # R
    /\ ord # "None"

BuiltInv ==
    LET L == Taken(lhs, lhs_cursor) R == Taken(rhs, rhs_cursor) IN
    pc = "run" =>
      /\ op = "difference" => Elements(out) = L \ Elements(rhs)
      /\ op \in {"intersection", "intersect"} => Elements(out) = L \cap Elements(rhs)
      /\ op = "union" => Elements(out) = L \cup R
      /\ op = "filter" => Elements(out) = L \cap keep
      /\ op = "partial_cmp" => OrderSoFar(prev_ord, L, R)

(***************************************************************************)
(* The buffers of relative_difference, and of no operation.                *)
(***************************************************************************)
BufferInv ==
    /\ op # "relative_difference" =>
          /\ lhs_data = lhs /\ lhs_len = Len(lhs)
          /\ rhs_data = rhs /\ rhs_len = Len(rhs)
          /\ dropped = {}
    /\ op = "relative_difference" =>
          dropped \subseteq Elements(lhs) \cap Elements(rhs)
    /\ op = "relative_difference" /\ pc # "done" => lhs_len = 0 /\ rhs_len = 0
    /\ op = "relative_difference" /\ pc = "run" =>
          /\ Compacted(lhs_data, lhs, lhs_cursor, lhs_del, Elements(rhs))
          /\ Compacted(rhs_data, rhs, rhs_cursor, rhs_del, Elements(lhs))
    /\ op = "relative_difference" /\ pc = "done" =>
          /\ lhs_len = Len(lhs) - lhs_del /\ rhs_len = Len(rhs) - rhs_del
          /\ Survivors(lhs_data, lhs, lhs_del, Elements(rhs))
          /\ Survivors(rhs_data, rhs, rhs_del, Elements(lhs))

VecInv == TypeInv /\ CursorInv /\ BuiltInv /\ BufferInv /\ ResultIsSetOp

(***************************************************************************)
(* After an operation the VecSet is one again.                             *)
(***************************************************************************)
LEMMA ResultIsVec ==
    ASSUME VecInv, pc = "done"
    PROVE  IsVec(Result)
<1>1. CASE op = "relative_difference"
  BY <1>1 DEF VecInv, BufferInv, Survivors, Result
<1>2. CASE op # "relative_difference"
  BY <1>2 DEF VecInv, TypeInv, Result
<1> QED
  BY <1>1, <1>2

(***************************************************************************)
(* The empty vector is the VecSet of the empty set.                        *)
(***************************************************************************)
LEMMA EmptyVec == IsVec(<< >>) /\ Elements(<< >>) = {}
BY DEF IsVec, Increasing, Elements

(***************************************************************************)
(* The empty VecSet.                                                       *)
(***************************************************************************)
LEMMA InitVec == Init => VecInv
<1> SUFFICES ASSUME Init PROVE VecInv
  OBVIOUS
<1>1. TypeInv
  BY EmptyVec DEF Init, TypeInv, Operation
<1>2. CursorInv /\ BuiltInv
  BY DEF Init, CursorInv, BuiltInv
<1>3. BufferInv
  BY DEF Init, BufferInv
<1>4. ResultIsSetOp
  BY EmptyVec DEF Init, ResultIsSetOp, Represents, IsVec
<1> QED
  BY <1>1, <1>2, <1>3, <1>4 DEF VecInv

(***************************************************************************)
(* Calling an operation.                                                   *)
(***************************************************************************)
LEMMA BeginStep ==
    ASSUME NEW l, NEW r, IsVec(l), IsVec(r)
    PROVE  /\ WeaklyApart(l, 1, r, 1) /\ Apart(l, 1, r, 1)
           /\ Compacted(l, l, 1, 0, Elements(r)) /\ Compacted(r, r, 1, 0, Elements(l))
<1>1. Taken(l, 1) = {} /\ Taken(r, 1) = {}
  BY AtStart
<1> QED
  BY <1>1, CompactStart DEF WeaklyApart, Apart

(***************************************************************************)
(* The next operation is called on the result of the last one.             *)
(***************************************************************************)
LEMMA CallStep == VecInv /\ (Call \/ CallFilter) => VecInv'
<1> SUFFICES ASSUME VecInv, Call \/ CallFilter PROVE VecInv'
  OBVIOUS
<1>1. /\ pc = "done" /\ pc' = "run" /\ lhs' = Result
      /\ lhs_cursor' = 1 /\ rhs_cursor' = 1
      /\ out' = << >> /\ prev_ord' = "Equal"
      /\ op' \in Operation \cup {"filter"}
      /\ op' = "relative_difference" => SetLenZero
      /\ op' # "relative_difference" => WholeBuffers(lhs', rhs')
  BY DEF Call, CallFilter, Begin, Operation
<1>2. IsVec(lhs') /\ IsVec(rhs')
  <2>1. IsVec(lhs')
    BY <1>1, ResultIsVec
  <2>2. IsVec(rhs')
    BY EmptyVec, VecSetAssumption DEF Call, CallFilter, IsVec
  <2> QED
    BY <2>1, <2>2
<1>3. /\ Taken(lhs', 1) = {} /\ Taken(rhs', 1) = {}
      /\ 1 \in Cursor(lhs') /\ 1 \in Cursor(rhs')
      /\ WeaklyApart(lhs', 1, rhs', 1) /\ Apart(lhs', 1, rhs', 1)
      /\ Compacted(lhs', lhs', 1, 0, Elements(rhs'))
      /\ Compacted(rhs', rhs', 1, 0, Elements(lhs'))
  BY <1>2, AtStart, BeginStep
<1>4. TypeInv'
  BY <1>1, <1>2, <1>3, EmptyVec DEF TypeInv, Operation
<1>5. CursorInv'
  BY <1>1, <1>3 DEF CursorInv
<1>6. BuiltInv'
  BY <1>1, <1>3, EmptyVec DEF BuiltInv, OrderSoFar
<1>7. BufferInv'
  BY <1>1, <1>3 DEF BufferInv, SetLenZero, WholeBuffers
<1>8. ResultIsSetOp'
  BY <1>1 DEF ResultIsSetOp
<1> QED
  BY <1>4, <1>5, <1>6, <1>7, <1>8 DEF VecInv

(***************************************************************************)
(* insert: the vector with x at the position where the smaller elements    *)
(* end.                                                                    *)
(***************************************************************************)
Inserted(s, x, p) ==
    [k \in 1 .. Len(s) + 1 |-> CASE k < p -> s[k]
                                 [] k = p -> x
                                 [] OTHER -> s[k - 1]]

(***************************************************************************)
(* ... is the VecSet with x added.                                         *)
(***************************************************************************)
LEMMA InsertedVec ==
    ASSUME NEW s, IsVec(s), NEW x \in Int, x \notin Elements(s),
           NEW p \in 1 .. Len(s) + 1, \A k \in 1 .. Len(s) : (k < p) <=> (s[k] < x)
    PROVE  IsVec(Inserted(s, x, p)) /\ Elements(Inserted(s, x, p)) = Elements(s) \cup {x}
<1> DEFINE t == Inserted(s, x, p)
<1>1. /\ Len(s) \in Nat /\ DOMAIN s = 1 .. Len(s) /\ p \in Int
      /\ \A k \in 1 .. Len(s) : s[k] \in Int
  BY DEF IsVec
<1>2. /\ \A k \in 1 .. Len(s) + 1 : k < p => k \in 1 .. Len(s)
      /\ \A k \in 1 .. Len(s) + 1 : k > p => k - 1 \in 1 .. Len(s)
  BY <1>1
<1>3. /\ DOMAIN t = 1 .. Len(s) + 1
      /\ \A k \in 1 .. Len(s) + 1 : /\ k < p => t[k] = s[k]
                                    /\ k = p => t[k] = x
                                    /\ k > p => t[k] = s[k - 1]
  BY <1>1 DEF Inserted
<1>4. t \in Seq(Int)
  <2>1. \A k \in 1 .. Len(s) + 1 : t[k] \in Int
    BY <1>1, <1>2, <1>3
  <2>2. t \in [1 .. Len(s) + 1 -> Int]
    BY <2>1 DEF Inserted
  <2> HIDE DEF t
  <2> QED
    BY <1>1, <2>2
<1> HIDE DEF t
<1>5. \A k \in 1 .. Len(s) : k < p \/ x < s[k]
  BY <1>1 DEF Elements
<1>6. \A a, b \in 1 .. Len(s) + 1 : a < b => t[a] < t[b]
  <2> SUFFICES ASSUME NEW a \in 1 .. Len(s) + 1, NEW b \in 1 .. Len(s) + 1, a < b
               PROVE  t[a] < t[b]
    OBVIOUS
  <2>1. CASE b < p
    <3>1. a < p /\ a \in 1 .. Len(s) /\ b \in 1 .. Len(s)
      BY <1>1, <1>2, <2>1
    <3> QED
      BY <1>1, <1>3, <2>1, <3>1 DEF IsVec, Increasing
  <2>2. CASE b = p
    <3>1. a < p /\ a \in 1 .. Len(s)
      BY <1>1, <1>2, <2>2
    <3> QED
      BY <1>3, <2>2, <3>1
  <2>3. CASE b > p
    <3>0. b - 1 \in 1 .. Len(s) /\ t[b] = s[b - 1] /\ ~(b - 1 < p)
      BY <1>1, <1>2, <1>3, <2>3
    <3>1. CASE a < p
      <4>1. a \in 1 .. Len(s) /\ a < b - 1 /\ t[a] = s[a]
        BY <1>1, <1>2, <1>3, <2>3, <3>1
      <4> QED
        BY <1>1, <3>0, <4>1 DEF IsVec, Increasing
    <3>2. CASE a = p
      BY <1>3, <1>5, <3>0, <3>2
    <3>3. CASE a > p
      <4>1. a - 1 \in 1 .. Len(s) /\ a - 1 < b - 1 /\ t[a] = s[a - 1]
        BY <1>1, <1>2, <1>3, <3>3
      <4> QED
        BY <1>1, <3>0, <4>1 DEF IsVec, Increasing
    <3> QED
      BY <1>1, <3>1, <3>2, <3>3
  <2> QED
    BY <1>1, <2>1, <2>2, <2>3
<1>7. Elements(t) = Elements(s) \cup {x}
  <2>1. Elements(t) = {t[k] : k \in 1 .. Len(s) + 1}
    BY <1>3 DEF Elements
  <2>2. ASSUME NEW k \in 1 .. Len(s) + 1
        PROVE  t[k] \in Elements(s) \cup {x}
    <3>1. k < p \/ k = p \/ k > p
      BY <1>1
    <3> QED
      BY <1>1, <1>2, <1>3, <3>1 DEF Elements
  <2>3. x \in {t[k] : k \in 1 .. Len(s) + 1}
    BY <1>3
  <2>4. ASSUME NEW k \in 1 .. Len(s)
        PROVE  s[k] \in {t[a] : a \in 1 .. Len(s) + 1}
    <3>1. CASE k < p
      <4>1. k \in 1 .. Len(s) + 1
        BY <1>1
      <4> QED
        BY <1>3, <3>1, <4>1
    <3>2. CASE ~(k < p)
      <4>1. k + 1 \in 1 .. Len(s) + 1 /\ k + 1 > p /\ (k + 1) - 1 = k
        BY <1>1, <3>2
      <4> QED
        BY <1>3, <4>1
    <3> QED
      BY <3>1, <3>2
  <2>5. Elements(s) = {s[k] : k \in 1 .. Len(s)}
    BY <1>1 DEF Elements
  <2> QED
    BY <2>1, <2>2, <2>3, <2>4, <2>5
<1> QED
  BY <1>3, <1>4, <1>6, <1>7 DEF IsVec, Increasing, t

(***************************************************************************)
(* insert keeps the invariant.                                             *)
(***************************************************************************)
LEMMA InsertStep == VecInv /\ Insert => VecInv'
<1> SUFFICES ASSUME VecInv, Insert PROVE VecInv'
  OBVIOUS
<1>1. /\ pc = "done" /\ pc' = "done" /\ op' = "insert"
      /\ lhs' = Result /\ rhs' = << >> /\ prev_ord' = prev_ord
      /\ WholeBuffers(lhs', rhs')
  BY DEF Insert
<1>2. IsVec(Result)
  BY <1>1, ResultIsVec
<1>3. PICK x \in Item :
          /\ x \notin Elements(Result)
          /\ \E p \in 1 .. Len(Result) + 1 :
                /\ \A k \in 1 .. Len(Result) : (k < p) <=> (Result[k] < x)
                /\ out' = Inserted(Result, x, p)
          /\ keep' = {x}
  BY DEF Insert, Inserted
<1>4. x \in Int
  BY VecSetAssumption
<1>5. IsVec(out') /\ Elements(out') = Elements(Result) \cup {x}
  BY <1>2, <1>3, <1>4, InsertedVec
<1>6. TypeInv'
  BY <1>1, <1>2, <1>5, EmptyVec DEF VecInv, TypeInv
<1>7. CursorInv' /\ BuiltInv'
  BY <1>1 DEF CursorInv, BuiltInv
<1>8. BufferInv'
  BY <1>1 DEF BufferInv, WholeBuffers
<1>9. ResultIsSetOp'
  BY <1>1, <1>3, <1>5 DEF ResultIsSetOp, Represents, IsVec
<1> QED
  BY <1>6, <1>7, <1>8, <1>9 DEF VecInv

(***************************************************************************)
(* The operations that build a vector leave the buffers alone, and what    *)
(* they have built when they return is the result.                         *)
(***************************************************************************)
LEMMA BuffersKept ==
    ASSUME VecInv, op # "relative_difference", UNCHANGED <<call, buffers>>
    PROVE  BufferInv'
BY DEF VecInv, BufferInv, call, buffers

(***************************************************************************)
(* difference: an element of lhs is yielded once it is below the rest of   *)
(* rhs, in which it is then missing.                                       *)
(***************************************************************************)
LEMMA DifferenceStep == VecInv /\ Difference => VecInv'
<1> SUFFICES ASSUME VecInv, Difference PROVE VecInv'
  OBVIOUS
<1>1. /\ pc = "run" /\ op = "difference"
      /\ op' = op /\ lhs' = lhs /\ rhs' = rhs
      /\ UNCHANGED <<call, buffers>>
      /\ prev_ord' = prev_ord
  BY DEF Difference, Running, Return, call
<1>2. /\ IsVec(lhs) /\ IsVec(rhs) /\ IsVec(out)
      /\ lhs_cursor \in Cursor(lhs) /\ rhs_cursor \in Cursor(rhs)
      /\ WeaklyApart(lhs, lhs_cursor, rhs, rhs_cursor)
      /\ Elements(out) = Taken(lhs, lhs_cursor) \ Elements(rhs)
  BY <1>1 DEF VecInv, TypeInv, CursorInv, BuiltInv
<1>3. BufferInv'
  BY <1>1, BuffersKept
<1>4. CASE ~LhsLeft
  <2>1. pc' = "done" /\ out' = out
    BY <1>4 DEF Difference, Return
  <2>2. Elements(out) = Elements(lhs) \ Elements(rhs)
    BY <1>2, <1>4, AtEnd DEF LhsLeft
  <2>3. ResultIsSetOp'
    BY <1>1, <1>2, <2>1, <2>2 DEF ResultIsSetOp, Represents, IsVec
  <2>4. TypeInv' /\ CursorInv' /\ BuiltInv'
    BY <1>1, <2>1 DEF VecInv, TypeInv, CursorInv, BuiltInv
  <2> QED
    BY <1>3, <2>3, <2>4 DEF VecInv
<1>5. CASE LhsLeft
  <2>0. pc' = "run" /\ ResultIsSetOp'
    BY <1>1, <1>5 DEF Difference, ResultIsSetOp
  <2>a. /\ lhs_cursor + 1 \in Cursor(lhs)
        /\ lhs[lhs_cursor] \in Int
        /\ Taken(lhs, lhs_cursor + 1) = Taken(lhs, lhs_cursor) \cup {lhs[lhs_cursor]}
        /\ \A x \in Taken(lhs, lhs_cursor) : x < lhs[lhs_cursor]
    BY <1>2, <1>5, Advance DEF LhsLeft
  <2>b. \/ /\ RhsLeft /\ rhs[rhs_cursor] < lhs[lhs_cursor]
           /\ NextRhs /\ SameLhs /\ SameOut
        \/ /\ RhsLeft /\ rhs[rhs_cursor] = lhs[lhs_cursor]
           /\ NextLhs /\ SameRhs /\ SameOut
        \/ /\ RhsLeft => rhs[rhs_cursor] > lhs[lhs_cursor]
           /\ NextLhs /\ SameRhs /\ Push(lhs[lhs_cursor])
    BY <1>5 DEF Difference
  <2>c. RhsLeft => /\ rhs[rhs_cursor] \in Int /\ rhs[rhs_cursor] \in Elements(rhs)
                   /\ rhs_cursor + 1 \in Cursor(rhs)
    BY <1>2, Advance DEF RhsLeft
  <2>1. CASE RhsLeft /\ rhs[rhs_cursor] < lhs[lhs_cursor] /\ NextRhs /\ SameLhs /\ SameOut
    <3>1. WeaklyApart(lhs, lhs_cursor, rhs, rhs_cursor + 1)
      BY <1>2, <2>1, StepRhs DEF RhsLeft
    <3> QED
      BY <1>1, <1>2, <1>3, <2>0, <2>1, <2>c, <3>1
      DEF VecInv, TypeInv, CursorInv, BuiltInv, NextRhs, SameLhs, SameOut
  <2>2. CASE RhsLeft /\ rhs[rhs_cursor] = lhs[lhs_cursor] /\ NextLhs /\ SameRhs /\ SameOut
    <3>1. WeaklyApart(lhs, lhs_cursor + 1, rhs, rhs_cursor)
      BY <1>2, <1>5, <2>2, <2>a, StepLhs DEF LhsLeft, RhsLeft
    <3>2. Elements(out) = Taken(lhs, lhs_cursor + 1) \ Elements(rhs)
      BY <1>2, <2>2, <2>a, <2>c
    <3> QED
      BY <1>1, <1>2, <1>3, <2>0, <2>2, <2>a, <3>1, <3>2
      DEF VecInv, TypeInv, CursorInv, BuiltInv, NextLhs, SameRhs, SameOut
  <2>3. CASE /\ RhsLeft => rhs[rhs_cursor] > lhs[lhs_cursor]
             /\ NextLhs /\ SameRhs /\ Push(lhs[lhs_cursor])
    <3>1. WeaklyApart(lhs, lhs_cursor + 1, rhs, rhs_cursor)
      BY <1>2, <1>5, <2>3, <2>a, <2>c, StepLhs DEF LhsLeft, RhsLeft
    <3>2. lhs[lhs_cursor] \notin Elements(rhs)
      BY <1>2, <1>5, <2>3, <2>a, <2>c, NotInRhs DEF LhsLeft, RhsLeft
    <3>3. IsVec(out') /\ Elements(out') = Elements(out) \cup {lhs[lhs_cursor]}
      BY <1>2, <2>3, <2>a, PushAbove DEF Push
    <3>4. Elements(out') = Taken(lhs, lhs_cursor + 1) \ Elements(rhs)
      BY <1>2, <2>a, <3>2, <3>3
    <3> QED
      BY <1>1, <1>2, <1>3, <2>0, <2>3, <2>a, <3>1, <3>3, <3>4
      DEF VecInv, TypeInv, CursorInv, BuiltInv, NextLhs, SameRhs
  <2> QED
    BY <2>b, <2>1, <2>2, <2>3
<1> QED
  BY <1>4, <1>5

(***************************************************************************)
(* intersection: once either vector is finished, what is left of the other *)
(* is in neither.                                                          *)
(***************************************************************************)
LEMMA IntersectionStep == VecInv /\ Intersection => VecInv'
<1> SUFFICES ASSUME VecInv, Intersection PROVE VecInv'
  OBVIOUS
<1>1. /\ pc = "run" /\ op = "intersection"
      /\ op' = op /\ lhs' = lhs /\ rhs' = rhs /\ keep' = keep
      /\ UNCHANGED <<call, buffers>>
      /\ prev_ord' = prev_ord
  BY DEF Intersection, Running, Return, call
<1>2. /\ IsVec(lhs) /\ IsVec(rhs) /\ IsVec(out)
      /\ lhs_cursor \in Cursor(lhs) /\ rhs_cursor \in Cursor(rhs)
      /\ Apart(lhs, lhs_cursor, rhs, rhs_cursor)
      /\ Elements(out) = Taken(lhs, lhs_cursor) \cap Elements(rhs)
  BY <1>1 DEF VecInv, TypeInv, CursorInv, BuiltInv
<1>3. BufferInv'
  BY <1>1, BuffersKept
<1>4. LhsLeft =>
        /\ lhs_cursor + 1 \in Cursor(lhs)
        /\ lhs[lhs_cursor] \in Int /\ lhs[lhs_cursor] \in Elements(lhs)
        /\ Taken(lhs, lhs_cursor + 1) = Taken(lhs, lhs_cursor) \cup {lhs[lhs_cursor]}
        /\ \A x \in Taken(lhs, lhs_cursor) : x < lhs[lhs_cursor]
  BY <1>2, Advance DEF LhsLeft
<1>5. RhsLeft =>
        /\ rhs_cursor + 1 \in Cursor(rhs)
        /\ rhs[rhs_cursor] \in Int /\ rhs[rhs_cursor] \in Elements(rhs)
        /\ Taken(rhs, rhs_cursor + 1) = Taken(rhs, rhs_cursor) \cup {rhs[rhs_cursor]}
        /\ \A x \in Taken(rhs, rhs_cursor) : x < rhs[rhs_cursor]
  BY <1>2, Advance DEF RhsLeft
<1>6. CASE ~LhsLeft \/ ~RhsLeft
  <2>1. pc' = "done" /\ out' = out
    BY <1>6 DEF Intersection, Return, LhsLeft, RhsLeft
  <2>2. Elements(out) = Elements(lhs) \cap Elements(rhs)
    <3>1. Rest(lhs, lhs_cursor) \cap Elements(rhs) = {}
      BY <1>2, <1>6, RestIsNew DEF LhsLeft, RhsLeft
    <3>2. Elements(lhs) = Taken(lhs, lhs_cursor) \cup Rest(lhs, lhs_cursor)
      BY <1>2, Parts
    <3> QED
      BY <1>2, <3>1, <3>2
  <2>3. ResultIsSetOp'
    BY <1>1, <1>2, <2>1, <2>2 DEF ResultIsSetOp, Represents, IsVec
  <2>4. TypeInv' /\ CursorInv' /\ BuiltInv'
    BY <1>1, <2>1 DEF VecInv, TypeInv, CursorInv, BuiltInv
  <2> QED
    BY <1>3, <2>3, <2>4 DEF VecInv
<1>7. CASE LhsLeft /\ RhsLeft
  <2>1. pc' = "run" /\ ResultIsSetOp'
    BY <1>1, <1>7 DEF Intersection, ResultIsSetOp
  <2>2. CASE lhs[lhs_cursor] < rhs[rhs_cursor] /\ NextLhs /\ SameRhs /\ SameOut
    <3>1. Apart(lhs, lhs_cursor + 1, rhs, rhs_cursor)
      BY <1>2, <1>7, <2>2, StepLhs DEF LhsLeft, RhsLeft
    <3>2. lhs[lhs_cursor] \notin Elements(rhs)
      BY <1>2, <1>7, <2>2, NotInRhs DEF LhsLeft, RhsLeft
    <3>3. Elements(out) = Taken(lhs, lhs_cursor + 1) \cap Elements(rhs)
      BY <1>2, <1>4, <1>7, <3>2
    <3> QED
      BY <1>1, <1>2, <1>3, <1>4, <1>7, <2>1, <2>2, <3>1, <3>3
      DEF VecInv, TypeInv, CursorInv, BuiltInv, NextLhs, NextRhs, SameLhs, SameRhs, SameOut
  <2>3. CASE /\ lhs[lhs_cursor] = rhs[rhs_cursor]
             /\ NextLhs /\ NextRhs /\ Push(lhs[lhs_cursor])
    <3>1. Apart(lhs, lhs_cursor + 1, rhs, rhs_cursor + 1)
      BY <1>2, <1>7, <2>3, StepBoth DEF LhsLeft, RhsLeft
    <3>2. IsVec(out') /\ Elements(out') = Elements(out) \cup {lhs[lhs_cursor]}
      BY <1>2, <1>4, <1>7, <2>3, PushAbove DEF Push
    <3>3. Elements(out') = Taken(lhs, lhs_cursor + 1) \cap Elements(rhs)
      BY <1>2, <1>4, <1>5, <1>7, <2>3, <3>2
    <3> QED
      BY <1>1, <1>2, <1>3, <1>4, <1>5, <1>7, <2>1, <2>3, <3>1, <3>2, <3>3
      DEF VecInv, TypeInv, CursorInv, BuiltInv, NextLhs, NextRhs, SameLhs, SameRhs, SameOut
  <2>4. CASE lhs[lhs_cursor] > rhs[rhs_cursor] /\ NextRhs /\ SameLhs /\ SameOut
    <3>1. Apart(lhs, lhs_cursor, rhs, rhs_cursor + 1)
      <4>1. rhs[rhs_cursor] < lhs[lhs_cursor]
        BY <1>4, <1>5, <1>7, <2>4
      <4> QED
        BY <1>2, <1>7, <4>1, StepRhs DEF RhsLeft
    <3> QED
      BY <1>1, <1>2, <1>3, <1>5, <1>7, <2>1, <2>4, <3>1
      DEF VecInv, TypeInv, CursorInv, BuiltInv, NextLhs, NextRhs, SameLhs, SameRhs, SameOut
  <2> QED
    BY <1>7, <2>2, <2>3, <2>4 DEF Intersection
<1> QED
  BY <1>6, <1>7

(***************************************************************************)
(* intersect, in place: the cursor of the other vector stays on an element *)
(* that it found.                                                          *)
(***************************************************************************)
LEMMA IntersectStep == VecInv /\ Intersect => VecInv'
<1> SUFFICES ASSUME VecInv, Intersect PROVE VecInv'
  OBVIOUS
<1>1. /\ pc = "run" /\ op = "intersect"
      /\ op' = op /\ lhs' = lhs /\ rhs' = rhs /\ keep' = keep
      /\ UNCHANGED <<call, buffers>>
      /\ prev_ord' = prev_ord
  BY DEF Intersect, Running, Return, call
<1>2. /\ IsVec(lhs) /\ IsVec(rhs) /\ IsVec(out)
      /\ lhs_cursor \in Cursor(lhs) /\ rhs_cursor \in Cursor(rhs)
      /\ WeaklyApart(lhs, lhs_cursor, rhs, rhs_cursor)
      /\ Elements(out) = Taken(lhs, lhs_cursor) \cap Elements(rhs)
  BY <1>1 DEF VecInv, TypeInv, CursorInv, BuiltInv
<1>3. BufferInv'
  BY <1>1, BuffersKept
<1>4. LhsLeft =>
        /\ lhs_cursor + 1 \in Cursor(lhs)
        /\ lhs[lhs_cursor] \in Int /\ lhs[lhs_cursor] \in Elements(lhs)
        /\ Taken(lhs, lhs_cursor + 1) = Taken(lhs, lhs_cursor) \cup {lhs[lhs_cursor]}
        /\ \A x \in Taken(lhs, lhs_cursor) : x < lhs[lhs_cursor]
  BY <1>2, Advance DEF LhsLeft
<1>5. RhsLeft =>
        /\ rhs_cursor + 1 \in Cursor(rhs)
        /\ rhs[rhs_cursor] \in Int /\ rhs[rhs_cursor] \in Elements(rhs)
        /\ Taken(rhs, rhs_cursor + 1) = Taken(rhs, rhs_cursor) \cup {rhs[rhs_cursor]}
        /\ \A x \in Taken(rhs, rhs_cursor) : x < rhs[rhs_cursor]
  BY <1>2, Advance DEF RhsLeft
<1>6. CASE ~LhsLeft
  <2>1. pc' = "done" /\ out' = out
    BY <1>6 DEF Intersect, Return, LhsLeft, RhsLeft
  <2>2. Elements(out) = Elements(lhs) \cap Elements(rhs)
    BY <1>2, <1>6, AtEnd DEF LhsLeft
  <2>3. ResultIsSetOp'
    BY <1>1, <1>2, <2>1, <2>2 DEF ResultIsSetOp, Represents, IsVec
  <2>4. TypeInv' /\ CursorInv' /\ BuiltInv'
    BY <1>1, <2>1 DEF VecInv, TypeInv, CursorInv, BuiltInv
  <2> QED
    BY <1>3, <2>3, <2>4 DEF VecInv
<1>7. CASE LhsLeft
  <2>1. pc' = "run" /\ ResultIsSetOp'
    BY <1>1, <1>7 DEF Intersect, ResultIsSetOp
  <2>2. CASE /\ RhsLeft => lhs[lhs_cursor] < rhs[rhs_cursor]
             /\ NextLhs /\ SameRhs /\ SameOut
    <3>1. WeaklyApart(lhs, lhs_cursor + 1, rhs, rhs_cursor)
      <4>1. RhsLeft => lhs[lhs_cursor] <= rhs[rhs_cursor]
        BY <1>4, <1>5, <1>7, <2>2
      <4> QED
        BY <1>2, <1>7, <4>1, StepLhs DEF LhsLeft, RhsLeft
    <3>2. lhs[lhs_cursor] \notin Elements(rhs)
      BY <1>2, <1>7, <2>2, NotInRhs DEF LhsLeft, RhsLeft
    <3>3. Elements(out) = Taken(lhs, lhs_cursor + 1) \cap Elements(rhs)
      BY <1>2, <1>4, <1>7, <3>2
    <3> QED
      BY <1>1, <1>2, <1>3, <1>4, <1>7, <2>1, <2>2, <3>1, <3>3
      DEF VecInv, TypeInv, CursorInv, BuiltInv, NextLhs, NextRhs, SameLhs, SameRhs, SameOut
  <2>3. CASE /\ RhsLeft /\ lhs[lhs_cursor] = rhs[rhs_cursor]
             /\ NextLhs /\ SameRhs /\ Push(lhs[lhs_cursor])
    <3>1. WeaklyApart(lhs, lhs_cursor + 1, rhs, rhs_cursor)
      <4>1. lhs[lhs_cursor] <= rhs[rhs_cursor]
        BY <1>4, <1>5, <1>7, <2>3
      <4> QED
        BY <1>2, <1>7, <4>1, StepLhs DEF LhsLeft, RhsLeft
    <3>2. IsVec(out') /\ Elements(out') = Elements(out) \cup {lhs[lhs_cursor]}
      BY <1>2, <1>4, <1>7, <2>3, PushAbove DEF Push
    <3>3. Elements(out') = Taken(lhs, lhs_cursor + 1) \cap Elements(rhs)
      BY <1>2, <1>4, <1>5, <1>7, <2>3, <3>2
    <3> QED
      BY <1>1, <1>2, <1>3, <1>4, <1>7, <2>1, <2>3, <3>1, <3>2, <3>3
      DEF VecInv, TypeInv, CursorInv, BuiltInv, NextLhs, NextRhs, SameLhs, SameRhs, SameOut
  <2>4. CASE /\ RhsLeft /\ lhs[lhs_cursor] > rhs[rhs_cursor]
             /\ NextRhs /\ SameLhs /\ SameOut
    <3>1. WeaklyApart(lhs, lhs_cursor, rhs, rhs_cursor + 1)
      <4>1. rhs[rhs_cursor] < lhs[lhs_cursor]
        BY <1>4, <1>5, <1>7, <2>4
      <4> QED
        BY <1>2, <2>4, <4>1, StepRhs DEF RhsLeft
    <3> QED
      BY <1>1, <1>2, <1>3, <1>5, <1>7, <2>1, <2>4, <3>1
      DEF VecInv, TypeInv, CursorInv, BuiltInv, NextLhs, NextRhs, SameLhs, SameRhs, SameOut
  <2> QED
    BY <1>7, <2>2, <2>3, <2>4 DEF Intersect
<1> QED
  BY <1>6, <1>7

(***************************************************************************)
(* union: the smaller of the two next elements is above all that was       *)
(* pushed before.                                                          *)
(***************************************************************************)
LEMMA UnionStep == VecInv /\ Union => VecInv'
<1> SUFFICES ASSUME VecInv, Union PROVE VecInv'
  OBVIOUS
<1>1. /\ pc = "run" /\ op = "union"
      /\ op' = op /\ lhs' = lhs /\ rhs' = rhs /\ keep' = keep
      /\ UNCHANGED <<call, buffers>>
      /\ prev_ord' = prev_ord
  BY DEF Union, Running, Return, call
<1>2. /\ IsVec(lhs) /\ IsVec(rhs) /\ IsVec(out)
      /\ lhs_cursor \in Cursor(lhs) /\ rhs_cursor \in Cursor(rhs)
      /\ Apart(lhs, lhs_cursor, rhs, rhs_cursor)
      /\ Elements(out) = Taken(lhs, lhs_cursor) \cup Taken(rhs, rhs_cursor)
  BY <1>1 DEF VecInv, TypeInv, CursorInv, BuiltInv
<1>3. BufferInv'
  BY <1>1, BuffersKept
<1>4. LhsLeft =>
        /\ lhs_cursor + 1 \in Cursor(lhs)
        /\ lhs[lhs_cursor] \in Int /\ lhs[lhs_cursor] \in Elements(lhs)
        /\ Taken(lhs, lhs_cursor + 1) = Taken(lhs, lhs_cursor) \cup {lhs[lhs_cursor]}
        /\ \A x \in Taken(lhs, lhs_cursor) : x < lhs[lhs_cursor]
  BY <1>2, Advance DEF LhsLeft
<1>5. RhsLeft =>
        /\ rhs_cursor + 1 \in Cursor(rhs)
        /\ rhs[rhs_cursor] \in Int /\ rhs[rhs_cursor] \in Elements(rhs)
        /\ Taken(rhs, rhs_cursor + 1) = Taken(rhs, rhs_cursor) \cup {rhs[rhs_cursor]}
        /\ \A x \in Taken(rhs, rhs_cursor) : x < rhs[rhs_cursor]
  BY <1>2, Advance DEF RhsLeft
<1>6. CASE ~LhsLeft /\ ~RhsLeft
  <2>1. pc' = "done" /\ out' = out
    BY <1>6 DEF Union, Return, LhsLeft, RhsLeft
  <2>2. Elements(out) = Elements(lhs) \cup Elements(rhs)
    BY <1>2, <1>6, AtEnd DEF LhsLeft, RhsLeft
  <2>3. ResultIsSetOp'
    BY <1>1, <1>2, <2>1, <2>2 DEF ResultIsSetOp, Represents, IsVec
  <2>4. TypeInv' /\ CursorInv' /\ BuiltInv'
    BY <1>1, <2>1 DEF VecInv, TypeInv, CursorInv, BuiltInv
  <2> QED
    BY <1>3, <2>3, <2>4 DEF VecInv
<1>7. CASE LhsLeft \/ RhsLeft
  <2>1. pc' = "run" /\ ResultIsSetOp'
    BY <1>1, <1>7 DEF Union, ResultIsSetOp
  <2>2. LhsLeft => lhs[lhs_cursor] \in Rest(lhs, lhs_cursor)
    BY <1>2, Advance DEF LhsLeft
  <2>3. RhsLeft => rhs[rhs_cursor] \in Rest(rhs, rhs_cursor)
    BY <1>2, Advance DEF RhsLeft
  <2>4. LhsLeft => \A x \in Elements(out) : x < lhs[lhs_cursor]
    BY <1>2, <1>4, <2>2 DEF Apart
  <2>5. RhsLeft => \A x \in Elements(out) : x < rhs[rhs_cursor]
    BY <1>2, <1>5, <2>3 DEF Apart
  <2>6. CASE /\ LhsLeft /\ RhsLeft /\ lhs[lhs_cursor] = rhs[rhs_cursor]
             /\ NextLhs /\ NextRhs /\ Push(lhs[lhs_cursor])
    <3>1. Apart(lhs, lhs_cursor + 1, rhs, rhs_cursor + 1)
      BY <1>2, <2>6, StepBoth DEF LhsLeft, RhsLeft
    <3>2. IsVec(out') /\ Elements(out') = Elements(out) \cup {lhs[lhs_cursor]}
      BY <1>2, <1>4, <2>4, <2>6, PushAbove DEF Push
    <3>3. Elements(out') = Taken(lhs, lhs_cursor + 1) \cup Taken(rhs, rhs_cursor + 1)
      BY <1>2, <1>4, <1>5, <2>6, <3>2
    <3> QED
      BY <1>1, <1>2, <1>3, <1>4, <1>5, <2>1, <2>6, <3>1, <3>2, <3>3
      DEF VecInv, TypeInv, CursorInv, BuiltInv, NextLhs, NextRhs, SameLhs, SameRhs, SameOut
  <2>7. CASE /\ LhsLeft /\ (RhsLeft => lhs[lhs_cursor] < rhs[rhs_cursor])
             /\ NextLhs /\ SameRhs /\ Push(lhs[lhs_cursor])
    <3>1. Apart(lhs, lhs_cursor + 1, rhs, rhs_cursor)
      BY <1>2, <2>7, StepLhs DEF LhsLeft, RhsLeft
    <3>2. IsVec(out') /\ Elements(out') = Elements(out) \cup {lhs[lhs_cursor]}
      BY <1>2, <1>4, <2>4, <2>7, PushAbove DEF Push
    <3>3. Elements(out') = Taken(lhs, lhs_cursor + 1) \cup Taken(rhs, rhs_cursor)
      BY <1>2, <1>4, <2>7, <3>2
    <3> QED
      BY <1>1, <1>2, <1>3, <1>4, <2>1, <2>7, <3>1, <3>2, <3>3
      DEF VecInv, TypeInv, CursorInv, BuiltInv, NextLhs, NextRhs, SameLhs, SameRhs, SameOut
  <2>8. CASE /\ RhsLeft /\ (LhsLeft => lhs[lhs_cursor] > rhs[rhs_cursor])
             /\ NextRhs /\ SameLhs /\ Push(rhs[rhs_cursor])
    <3>1. Apart(lhs, lhs_cursor, rhs, rhs_cursor + 1)
      <4>1. LhsLeft => rhs[rhs_cursor] < lhs[lhs_cursor]
        BY <1>4, <1>5, <2>8
      <4> QED
        BY <1>2, <2>8, <4>1, StepRhs DEF LhsLeft, RhsLeft
    <3>2. IsVec(out') /\ Elements(out') = Elements(out) \cup {rhs[rhs_cursor]}
      BY <1>2, <1>5, <2>5, <2>8, PushAbove DEF Push
    <3>3. Elements(out') = Taken(lhs, lhs_cursor) \cup Taken(rhs, rhs_cursor + 1)
      BY <1>2, <1>5, <2>8, <3>2
    <3> QED
      BY <1>1, <1>2, <1>3, <1>5, <2>1, <2>8, <3>1, <3>2, <3>3
      DEF VecInv, TypeInv, CursorInv, BuiltInv, NextLhs, NextRhs, SameLhs, SameRhs, SameOut
  <2> QED
    BY <1>7, <2>6, <2>7, <2>8 DEF Union
<1> QED
  BY <1>6, <1>7

(***************************************************************************)
(* filter and retain.                                                      *)
(***************************************************************************)
LEMMA FilterStep == VecInv /\ Filter => VecInv'
<1> SUFFICES ASSUME VecInv, Filter PROVE VecInv'
  OBVIOUS
<1>1. /\ pc = "run" /\ op = "filter"
      /\ op' = op /\ lhs' = lhs /\ rhs' = rhs /\ keep' = keep
      /\ UNCHANGED <<call, buffers>>
      /\ prev_ord' = prev_ord
  BY DEF Filter, Running, Return, call
<1>2. /\ IsVec(lhs) /\ IsVec(rhs) /\ IsVec(out)
      /\ lhs_cursor \in Cursor(lhs) /\ rhs_cursor \in Cursor(rhs)
      /\ Elements(out) = Taken(lhs, lhs_cursor) \cap keep
  BY <1>1 DEF VecInv, TypeInv, CursorInv, BuiltInv
<1>3. BufferInv'
  BY <1>1, BuffersKept
<1>4. LhsLeft =>
        /\ lhs_cursor + 1 \in Cursor(lhs)
        /\ lhs[lhs_cursor] \in Int /\ lhs[lhs_cursor] \in Elements(lhs)
        /\ Taken(lhs, lhs_cursor + 1) = Taken(lhs, lhs_cursor) \cup {lhs[lhs_cursor]}
        /\ \A x \in Taken(lhs, lhs_cursor) : x < lhs[lhs_cursor]
  BY <1>2, Advance DEF LhsLeft
<1>6. CASE ~LhsLeft
  <2>1. pc' = "done" /\ out' = out
    BY <1>6 DEF Filter, Return, LhsLeft, RhsLeft
  <2>2. Elements(out) = Elements(lhs) \cap keep
    BY <1>2, <1>6, AtEnd DEF LhsLeft
  <2>3. ResultIsSetOp'
    BY <1>1, <1>2, <2>1, <2>2 DEF ResultIsSetOp, Represents, IsVec
  <2>4. TypeInv' /\ CursorInv' /\ BuiltInv'
    BY <1>1, <2>1 DEF VecInv, TypeInv, CursorInv, BuiltInv
  <2> QED
    BY <1>3, <2>3, <2>4 DEF VecInv
<1>7. CASE LhsLeft
  <2>1. pc' = "run" /\ ResultIsSetOp' /\ NextLhs /\ SameRhs
    BY <1>1, <1>7 DEF Filter, ResultIsSetOp
  <2>2. IsVec(out') /\ Elements(out') = Taken(lhs, lhs_cursor + 1) \cap keep
    <3>1. CASE lhs[lhs_cursor] \in keep
      <4>1. out' = Append(out, lhs[lhs_cursor])
        BY <1>7, <3>1 DEF Filter, Push
      <4>2. IsVec(out') /\ Elements(out') = Elements(out) \cup {lhs[lhs_cursor]}
        BY <1>2, <1>4, <1>7, <4>1, PushAbove
      <4> QED
        BY <1>2, <1>4, <1>7, <3>1, <4>2
    <3>2. CASE lhs[lhs_cursor] \notin keep
      <4>1. out' = out
        BY <1>7, <3>2 DEF Filter, SameOut
      <4> QED
        BY <1>2, <1>4, <1>7, <3>2, <4>1
    <3> QED
      BY <3>1, <3>2
  <2> QED
    BY <1>1, <1>2, <1>3, <1>4, <1>7, <2>1, <2>2
    DEF VecInv, TypeInv, CursorInv, BuiltInv, NextLhs, NextRhs, SameLhs, SameRhs, SameOut
<1> QED
  BY <1>6, <1>7

(***************************************************************************)
(* partial_cmp.  While neither answer is excluded, prev_ord orders the     *)
(* elements taken so far; an element that the other vector does not hold   *)
(* decides against one of the orders.                                      *)
(***************************************************************************)
LEMMA CompareStep == VecInv /\ Compare => VecInv'
<1> SUFFICES ASSUME VecInv, Compare PROVE VecInv'
  OBVIOUS
<1> DEFINE L == Taken(lhs, lhs_cursor)
           R == Taken(rhs, rhs_cursor)
<1>1. /\ pc = "run" /\ op = "partial_cmp"
      /\ op' = op /\ lhs' = lhs /\ rhs' = rhs /\ out' = out
      /\ UNCHANGED <<call, buffers>>
  BY DEF Compare, Running, call
<1>2. /\ IsVec(lhs) /\ IsVec(rhs) /\ IsVec(out)
      /\ lhs_cursor \in Cursor(lhs) /\ rhs_cursor \in Cursor(rhs)
      /\ Apart(lhs, lhs_cursor, rhs, rhs_cursor)
      /\ OrderSoFar(prev_ord, L, R)
      /\ prev_ord \in {"Less", "Equal", "Greater", "None"}
  BY <1>1 DEF VecInv, TypeInv, CursorInv, BuiltInv
<1>3. BufferInv'
  BY <1>1, BuffersKept
<1>4. /\ Elements(lhs) = L \cup Rest(lhs, lhs_cursor)
      /\ Elements(rhs) = R \cup Rest(rhs, rhs_cursor)
      /\ Elements(lhs) \subseteq Int /\ Elements(rhs) \subseteq Int
  BY <1>2, Parts
<1>5. /\ L \cap Rest(rhs, rhs_cursor) = {}
      /\ R \cap Rest(lhs, lhs_cursor) = {}
  <2>1. \A x \in Int : ~(x < x)
    OBVIOUS
  <2> QED
    BY <1>2, <1>4, <2>1 DEF Apart
<1>6. LhsLeft =>
        /\ lhs_cursor + 1 \in Cursor(lhs)
        /\ lhs[lhs_cursor] \in Int /\ lhs[lhs_cursor] \in Rest(lhs, lhs_cursor)
        /\ Taken(lhs, lhs_cursor + 1) = L \cup {lhs[lhs_cursor]}
  BY <1>2, Advance DEF LhsLeft
<1>7. RhsLeft =>
        /\ rhs_cursor + 1 \in Cursor(rhs)
        /\ rhs[rhs_cursor] \in Int /\ rhs[rhs_cursor] \in Rest(rhs, rhs_cursor)
        /\ Taken(rhs, rhs_cursor + 1) = R \cup {rhs[rhs_cursor]}
  BY <1>2, Advance DEF RhsLeft
<1>8. ~LhsLeft => Elements(lhs) = L /\ Rest(lhs, lhs_cursor) = {}
  BY <1>2, AtEnd DEF LhsLeft
<1>9. ~RhsLeft => Elements(rhs) = R /\ Rest(rhs, rhs_cursor) = {}
  BY <1>2, AtEnd DEF RhsLeft
<1> HIDE DEF L, R
<1>10. ASSUME NEW o \in {"Less", "Equal", "Greater", "None"}, Ordered(o),
              o = SetOrder(Elements(lhs), Elements(rhs))
       PROVE  VecInv'
  <2>1. ResultIsSetOp'
    BY <1>1, <1>10 DEF ResultIsSetOp, Ordered
  <2>2. TypeInv' /\ CursorInv' /\ BuiltInv'
    BY <1>1, <1>2, <1>10 DEF Ordered, TypeInv, CursorInv, BuiltInv, VecInv
  <2> QED
    BY <1>3, <2>1, <2>2 DEF VecInv
<1>11. ASSUME NEW i \in Cursor(lhs), NEW j \in Cursor(rhs),
              NEW o \in {"Less", "Equal", "Greater"},
              lhs_cursor' = i, rhs_cursor' = j, prev_ord' = o, pc' = "run",
              Apart(lhs, i, rhs, j), OrderSoFar(o, Taken(lhs, i), Taken(rhs, j))
       PROVE  VecInv'
  BY <1>1, <1>2, <1>3, <1>11
  DEF VecInv, TypeInv, CursorInv, BuiltInv, ResultIsSetOp
<1>12. CASE ~LhsLeft /\ ~RhsLeft /\ Ordered(prev_ord)
  <2>1. prev_ord = SetOrder(Elements(lhs), Elements(rhs))
    BY <1>2, <1>8, <1>9, <1>12 DEF OrderSoFar, SetOrder
  <2> QED
    BY <1>2, <1>10, <1>12, <2>1
<1>13. CASE /\ ~LhsLeft /\ RhsLeft
            /\ Ordered(IF prev_ord = "Greater" THEN "None" ELSE "Less")
  <2>1. ~(Elements(rhs) \subseteq Elements(lhs))
    BY <1>4, <1>5, <1>7, <1>8, <1>13
  <2>2. CASE prev_ord = "Greater"
    <3>1. ~(Elements(lhs) \subseteq Elements(rhs))
      BY <1>2, <1>4, <1>5, <1>8, <1>13, <2>2 DEF OrderSoFar
    <3>2. SetOrder(Elements(lhs), Elements(rhs)) = "None"
      BY <2>1, <3>1 DEF SetOrder
    <3> QED
      BY <1>10, <1>13, <2>2, <3>2
  <2>3. CASE prev_ord # "Greater"
    <3>1. Elements(lhs) \subseteq Elements(rhs)
      BY <1>2, <1>4, <1>8, <1>13, <2>3 DEF OrderSoFar
    <3>2. SetOrder(Elements(lhs), Elements(rhs)) = "Less"
      BY <2>1, <3>1 DEF SetOrder
    <3> QED
      BY <1>10, <1>13, <2>3, <3>2
  <2> QED
    BY <2>2, <2>3
<1>14. CASE /\ LhsLeft /\ ~RhsLeft
            /\ Ordered(IF prev_ord = "Less" THEN "None" ELSE "Greater")
  <2>1. ~(Elements(lhs) \subseteq Elements(rhs))
    BY <1>4, <1>5, <1>6, <1>9, <1>14
  <2>2. CASE prev_ord = "Less"
    <3>1. ~(Elements(rhs) \subseteq Elements(lhs))
      BY <1>2, <1>4, <1>5, <1>9, <1>14, <2>2 DEF OrderSoFar
    <3>2. SetOrder(Elements(lhs), Elements(rhs)) = "None"
      BY <2>1, <3>1 DEF SetOrder
    <3> QED
      BY <1>10, <1>14, <2>2, <3>2
  <2>3. CASE prev_ord # "Less"
    <3>1. Elements(rhs) \subseteq Elements(lhs)
      BY <1>2, <1>4, <1>9, <1>14, <2>3 DEF OrderSoFar
    <3>2. SetOrder(Elements(lhs), Elements(rhs)) = "Greater"
      BY <2>1, <3>1 DEF SetOrder
    <3> QED
      BY <1>10, <1>14, <2>3, <3>2
  <2> QED
    BY <2>2, <2>3
<1>15. CASE /\ LhsLeft /\ RhsLeft /\ lhs[lhs_cursor] < rhs[rhs_cursor]
            /\ IF prev_ord = "Less"
                 THEN Ordered("None")
                 ELSE prev_ord' = "Greater" /\ NextLhs /\ SameRhs /\ pc' = pc
  <2>1. lhs[lhs_cursor] \notin Elements(rhs)
    BY <1>2, <1>15, NotInRhs DEF LhsLeft, RhsLeft
  <2>2. CASE prev_ord = "Less"
    <3>1. ~(Elements(rhs) \subseteq Elements(lhs))
      BY <1>2, <1>4, <1>5, <2>2 DEF OrderSoFar
    <3>2. ~(Elements(lhs) \subseteq Elements(rhs))
      BY <1>4, <1>6, <1>15, <2>1
    <3>3. SetOrder(Elements(lhs), Elements(rhs)) = "None"
      BY <3>1, <3>2 DEF SetOrder
    <3> QED
      BY <1>10, <1>15, <2>2, <3>3
  <2>3. CASE prev_ord # "Less"
    <3>1. Apart(lhs, lhs_cursor + 1, rhs, rhs_cursor)
      BY <1>2, <1>15, StepLhs DEF LhsLeft, RhsLeft
    <3>2. R \subseteq L
      BY <1>2, <2>3 DEF OrderSoFar
    <3>3. OrderSoFar("Greater", Taken(lhs, lhs_cursor + 1), R)
      BY <1>4, <1>6, <1>15, <2>1, <3>2 DEF OrderSoFar
    <3> QED
      BY <1>1, <1>2, <1>6, <1>11, <1>15, <2>3, <3>1, <3>3 DEF NextLhs, SameRhs, R
  <2> QED
    BY <2>2, <2>3
<1>16. CASE /\ LhsLeft /\ RhsLeft /\ lhs[lhs_cursor] > rhs[rhs_cursor]
            /\ IF prev_ord = "Greater"
                 THEN Ordered("None")
                 ELSE prev_ord' = "Less" /\ NextRhs /\ SameLhs /\ pc' = pc
  <2>0. rhs[rhs_cursor] < lhs[lhs_cursor]
    BY <1>6, <1>7, <1>16
  <2>1. rhs[rhs_cursor] \notin Elements(lhs)
    BY <1>2, <1>16, <2>0, NotInLhs DEF LhsLeft, RhsLeft
  <2>2. CASE prev_ord = "Greater"
    <3>1. ~(Elements(lhs) \subseteq Elements(rhs))
      BY <1>2, <1>4, <1>5, <2>2 DEF OrderSoFar
    <3>2. ~(Elements(rhs) \subseteq Elements(lhs))
      BY <1>4, <1>7, <1>16, <2>1
    <3>3. SetOrder(Elements(lhs), Elements(rhs)) = "None"
      BY <3>1, <3>2 DEF SetOrder
    <3> QED
      BY <1>10, <1>16, <2>2, <3>3
  <2>3. CASE prev_ord # "Greater"
    <3>1. Apart(lhs, lhs_cursor, rhs, rhs_cursor + 1)
      BY <1>2, <1>16, <2>0, StepRhs DEF LhsLeft, RhsLeft
    <3>2. L \subseteq R
      BY <1>2, <2>3 DEF OrderSoFar
    <3>3. OrderSoFar("Less", L, Taken(rhs, rhs_cursor + 1))
      BY <1>4, <1>7, <1>16, <2>1, <3>2 DEF OrderSoFar
    <3> QED
      BY <1>1, <1>2, <1>7, <1>11, <1>16, <2>3, <3>1, <3>3 DEF NextRhs, SameLhs, L
  <2> QED
    BY <2>2, <2>3
<1>17. CASE /\ LhsLeft /\ RhsLeft /\ lhs[lhs_cursor] = rhs[rhs_cursor]
            /\ NextLhs /\ NextRhs /\ UNCHANGED <<prev_ord, pc>>
  <2>1. Apart(lhs, lhs_cursor + 1, rhs, rhs_cursor + 1)
    BY <1>2, <1>17, StepBoth DEF LhsLeft, RhsLeft
  <2>2. lhs[lhs_cursor] \notin L /\ lhs[lhs_cursor] \notin R
    BY <1>5, <1>6, <1>7, <1>17
  <2>3. OrderSoFar(prev_ord, Taken(lhs, lhs_cursor + 1), Taken(rhs, rhs_cursor + 1))
    <3>1. /\ Taken(lhs, lhs_cursor + 1) = L \cup {lhs[lhs_cursor]}
          /\ Taken(rhs, rhs_cursor + 1) = R \cup {lhs[lhs_cursor]}
      BY <1>6, <1>7, <1>17
    <3> QED
      BY <1>2, <2>2, <3>1 DEF OrderSoFar
  <2>4. prev_ord \in {"Less", "Equal", "Greater"}
    BY <1>2 DEF OrderSoFar
  <2> QED
    BY <1>1, <1>6, <1>7, <1>11, <1>17, <2>1, <2>3, <2>4 DEF NextLhs, NextRhs
<1> QED
  BY <1>12, <1>13, <1>14, <1>15, <1>16, <1>17 DEF Compare

(***************************************************************************)
(* relative_difference.                                                    *)
(***************************************************************************)
LEMMA RelativeDifferenceStep == VecInv /\ RelativeDifference => VecInv'
<1> SUFFICES ASSUME VecInv, RelativeDifference PROVE VecInv'
  OBVIOUS
<1>1. /\ pc = "run" /\ op = "relative_difference"
      /\ op' = op /\ lhs' = lhs /\ rhs' = rhs /\ out' = out /\ prev_ord' = prev_ord
  BY DEF RelativeDifference, KeepLhs, KeepRhs, DropBoth, ComparisonPanics, Complete,
         Unfinished, Running, call
<1>2. /\ IsVec(lhs) /\ IsVec(rhs) /\ IsVec(out)
      /\ lhs_cursor \in Cursor(lhs) /\ rhs_cursor \in Cursor(rhs)
      /\ Apart(lhs, lhs_cursor, rhs, rhs_cursor)
      /\ Compacted(lhs_data, lhs, lhs_cursor, lhs_del, Elements(rhs))
      /\ Compacted(rhs_data, rhs, rhs_cursor, rhs_del, Elements(lhs))
      /\ dropped \subseteq Elements(lhs) \cap Elements(rhs)
      /\ lhs_len = 0 /\ rhs_len = 0
  BY <1>1 DEF VecInv, TypeInv, CursorInv, BufferInv
<1>3. LhsLeft =>
        /\ lhs_cursor + 1 \in Cursor(lhs)
        /\ lhs[lhs_cursor] \in Int /\ lhs[lhs_cursor] \in Elements(lhs)
        /\ lhs_data[lhs_cursor] = lhs[lhs_cursor]
  <2>1. LhsLeft => lhs_cursor \in lhs_cursor .. Len(lhs)
    BY <1>2 DEF LhsLeft, IsVec, Cursor
  <2> QED
    BY <1>2, <2>1, Advance DEF LhsLeft, Compacted
<1>4. RhsLeft =>
        /\ rhs_cursor + 1 \in Cursor(rhs)
        /\ rhs[rhs_cursor] \in Int /\ rhs[rhs_cursor] \in Elements(rhs)
        /\ rhs_data[rhs_cursor] = rhs[rhs_cursor]
  <2>1. RhsLeft => rhs_cursor \in rhs_cursor .. Len(rhs)
    BY <1>2 DEF RhsLeft, IsVec, Cursor
  <2> QED
    BY <1>2, <2>1, Advance DEF RhsLeft, Compacted
<1>5. ASSUME pc' = "run", lhs_len' = lhs_len, rhs_len' = rhs_len,
             lhs_cursor' \in Cursor(lhs), rhs_cursor' \in Cursor(rhs),
             Apart(lhs, lhs_cursor', rhs, rhs_cursor'),
             Compacted(lhs_data', lhs, lhs_cursor', lhs_del', Elements(rhs)),
             Compacted(rhs_data', rhs, rhs_cursor', rhs_del', Elements(lhs)),
             dropped' \subseteq Elements(lhs) \cap Elements(rhs)
      PROVE  VecInv'
  BY <1>1, <1>2, <1>5
  DEF VecInv, TypeInv, CursorInv, BuiltInv, BufferInv, ResultIsSetOp
<1>6. CASE KeepLhs
  <2>1. /\ LhsLeft /\ RhsLeft /\ lhs[lhs_cursor] < rhs[rhs_cursor]
        /\ lhs_cursor' = lhs_cursor + 1 /\ rhs_cursor' = rhs_cursor
        /\ lhs_data' = Move(lhs_data, lhs_cursor, lhs_del) /\ lhs_del' = lhs_del
        /\ rhs_data' = rhs_data /\ rhs_del' = rhs_del
        /\ pc' = pc /\ lhs_len' = lhs_len /\ rhs_len' = rhs_len /\ dropped' = dropped
    BY <1>3, <1>4, <1>6 DEF KeepLhs, Unfinished, NextLhs, SameRhs
  <2>2. Apart(lhs, lhs_cursor + 1, rhs, rhs_cursor)
    BY <1>2, <2>1, StepLhs DEF LhsLeft, RhsLeft
  <2>3. lhs[lhs_cursor] \notin Elements(rhs)
    BY <1>2, <2>1, NotInRhs DEF LhsLeft, RhsLeft
  <2>4. Compacted(Move(lhs_data, lhs_cursor, lhs_del), lhs, lhs_cursor + 1, lhs_del,
                  Elements(rhs))
    BY <1>2, <2>1, <2>3, CompactMove DEF LhsLeft
  <2> QED
    BY <1>1, <1>2, <1>3, <1>5, <2>1, <2>2, <2>4
<1>7. CASE KeepRhs
  <2>1. /\ LhsLeft /\ RhsLeft /\ rhs[rhs_cursor] < lhs[lhs_cursor]
        /\ lhs_cursor' = lhs_cursor /\ rhs_cursor' = rhs_cursor + 1
        /\ rhs_data' = Move(rhs_data, rhs_cursor, rhs_del) /\ lhs_del' = lhs_del
        /\ lhs_data' = lhs_data /\ rhs_del' = rhs_del
        /\ pc' = pc /\ lhs_len' = lhs_len /\ rhs_len' = rhs_len /\ dropped' = dropped
    BY <1>3, <1>4, <1>7 DEF KeepRhs, Unfinished, NextRhs, SameLhs
  <2>2. Apart(lhs, lhs_cursor, rhs, rhs_cursor + 1)
    BY <1>2, <2>1, StepRhs DEF LhsLeft, RhsLeft
  <2>3. rhs[rhs_cursor] \notin Elements(lhs)
    BY <1>2, <2>1, NotInLhs DEF LhsLeft, RhsLeft
  <2>4. Compacted(Move(rhs_data, rhs_cursor, rhs_del), rhs, rhs_cursor + 1, rhs_del,
                  Elements(lhs))
    BY <1>2, <2>1, <2>3, CompactMove DEF RhsLeft
  <2> QED
    BY <1>1, <1>2, <1>4, <1>5, <2>1, <2>2, <2>4
<1>8. CASE DropBoth
  <2>1. /\ LhsLeft /\ RhsLeft /\ rhs[rhs_cursor] = lhs[lhs_cursor]
        /\ lhs_cursor' = lhs_cursor + 1 /\ rhs_cursor' = rhs_cursor + 1
        /\ lhs_data' = lhs_data /\ lhs_del' = lhs_del + 1
        /\ rhs_data' = rhs_data /\ rhs_del' = rhs_del + 1
        /\ pc' = pc /\ lhs_len' = lhs_len /\ rhs_len' = rhs_len
        /\ dropped' = dropped \cup {lhs[lhs_cursor]}
    BY <1>3, <1>4, <1>8 DEF DropBoth, Unfinished, NextLhs, NextRhs
  <2>2. Apart(lhs, lhs_cursor + 1, rhs, rhs_cursor + 1)
    BY <1>2, <2>1, StepBoth DEF LhsLeft, RhsLeft
  <2>3. /\ Compacted(lhs_data, lhs, lhs_cursor + 1, lhs_del + 1, Elements(rhs))
        /\ Compacted(rhs_data, rhs, rhs_cursor + 1, rhs_del + 1, Elements(lhs))
    BY <1>2, <1>3, <1>4, <2>1, CompactDrop DEF LhsLeft, RhsLeft
  <2>4. dropped' \subseteq Elements(lhs) \cap Elements(rhs)
    BY <1>2, <1>3, <1>4, <2>1
  <2> QED
    BY <1>1, <1>3, <1>4, <1>5, <2>1, <2>2, <2>3, <2>4
<1>9. CASE ComparisonPanics
  <2>1. pc' = "unwound" /\ UNCHANGED buffers
    BY <1>9 DEF ComparisonPanics
  <2> QED
    BY <1>1, <1>2, <2>1
    DEF VecInv, TypeInv, CursorInv, BuiltInv, BufferInv, ResultIsSetOp, buffers
<1>10. CASE Complete
  <2>1. /\ pc' = "done" /\ (~LhsLeft \/ ~RhsLeft)
        /\ lhs_data' = IF lhs_cursor <= Len(lhs)
                         THEN MoveTail(lhs_data, lhs_cursor, lhs_del) ELSE lhs_data
        /\ rhs_data' = IF rhs_cursor <= Len(rhs)
                         THEN MoveTail(rhs_data, rhs_cursor, rhs_del) ELSE rhs_data
        /\ lhs_len' = Len(lhs) - lhs_del /\ rhs_len' = Len(rhs) - rhs_del
        /\ lhs_del' = lhs_del /\ rhs_del' = rhs_del /\ dropped' = dropped
    BY <1>10 DEF Complete, RestoreLengths, LhsLeft, RhsLeft
  <2>2. /\ Rest(lhs, lhs_cursor) \cap Elements(rhs) = {}
        /\ Rest(rhs, rhs_cursor) \cap Elements(lhs) = {}
    BY <1>2, <2>1, RestIsNew DEF LhsLeft, RhsLeft
  <2>3. Survivors(lhs_data', lhs, lhs_del, Elements(rhs))
    BY <1>2, <2>1, <2>2, CompactEnd
  <2>4. Survivors(rhs_data', rhs, rhs_del, Elements(lhs))
    BY <1>2, <2>1, <2>2, CompactEnd
  <2>5. BufferInv'
    BY <1>1, <1>2, <2>1, <2>3, <2>4 DEF BufferInv
  <2>6. ResultIsSetOp'
    BY <1>1, <2>1, <2>3, <2>4 DEF ResultIsSetOp, Represents, Survivors, IsVec
  <2>7. TypeInv' /\ CursorInv' /\ BuiltInv'
    BY <1>1, <2>1 DEF VecInv, TypeInv, CursorInv, BuiltInv
  <2> QED
    BY <2>5, <2>6, <2>7 DEF VecInv
<1> QED
  BY <1>6, <1>7, <1>8, <1>9, <1>10 DEF RelativeDifference

-----------------------------------------------------------------------------
(***************************************************************************)
(* The theorems.                                                           *)
(***************************************************************************)

(***************************************************************************)
(* Nothing happens to the VecSet.                                          *)
(***************************************************************************)
LEMMA StutterStep == VecInv /\ UNCHANGED vars => VecInv'
BY DEF vars, call, cursors, buffers, VecInv, TypeInv, CursorInv, BuiltInv, BufferInv,
       ResultIsSetOp, Represents

(***************************************************************************)
(* The invariant holds in every reachable state.                           *)
(***************************************************************************)
LEMMA InductiveVec == Spec => []VecInv
<1>1. VecInv /\ [Next]_vars => VecInv'
  BY CallStep, InsertStep, DifferenceStep, IntersectionStep, IntersectStep, UnionStep,
     FilterStep, CompareStep, RelativeDifferenceStep, StutterStep DEF Next
<1> QED
  BY InitVec, <1>1, PTL DEF Spec

(***************************************************************************)
(* Every operation of VecSet returns the VecSet of the operation on sets,  *)
(* for all elements and arguments and after any sequence of operations:    *)
(* the abstraction of VecSet by sets in the rest of the project is sound.  *)
(***************************************************************************)
THEOREM VecSetsAreSets == Spec => []ResultIsSetOp
<1>1. VecInv => ResultIsSetOp
  BY DEF VecInv
<1> QED
  BY InductiveVec, <1>1, PTL

(***************************************************************************)
(* A panic in relative_difference drops no element twice.                  *)
(***************************************************************************)
THEOREM UnwindingIsSafe == Spec => []SafeToUnwind
<1>1. VecInv => SafeToUnwind
  <2> SUFFICES ASSUME VecInv PROVE SafeToUnwind
    OBVIOUS
  <2>0. \A s : IsVec(s) =>
           \A a, b \in 1 .. Len(s) : a # b => s[a] # s[b]
    <3> SUFFICES ASSUME NEW s, IsVec(s), NEW a \in 1 .. Len(s), NEW b \in 1 .. Len(s),
                        a # b
                 PROVE  s[a] # s[b]
      OBVIOUS
    <3>1. s[a] < s[b] \/ s[b] < s[a]
      BY DEF IsVec, Increasing
    <3> QED
      BY <3>1 DEF IsVec
  <2>1. CASE op # "relative_difference"
    BY <2>0, <2>1 DEF VecInv, TypeInv, BufferInv, SafeToUnwind, DropsOnce
  <2>2. CASE op = "relative_difference" /\ pc # "done"
    BY <2>2 DEF VecInv, BufferInv, SafeToUnwind, DropsOnce
  <2>3. CASE op = "relative_difference" /\ pc = "done"
    <3>1. ASSUME NEW data, NEW s, NEW d, NEW K, Survivors(data, s, d, K), dropped \subseteq K
          PROVE  DropsOnce(data, Len(s) - d)
      <4> DEFINE n == Len(s) - d
      <4>1. n \in Nat /\ IsVec(Prefix(data, n)) /\ Len(Prefix(data, n)) = n
        BY <3>1 DEF Survivors
      <4>2. Elements(Prefix(data, n)) \cap K = {}
        BY <3>1 DEF Survivors
      <4> HIDE DEF n
      <4>3. \A k \in 1 .. n : Prefix(data, n)[k] = data[k] /\ k \in DOMAIN Prefix(data, n)
        BY <4>1 DEF Prefix
      <4>4. \A k \in 1 .. n : data[k] \notin dropped
        BY <3>1, <4>2, <4>3 DEF Elements
      <4>5. \A a, b \in 1 .. n : a # b => data[a] # data[b]
        BY <2>0, <4>1, <4>3
      <4> QED
        BY <4>4, <4>5 DEF DropsOnce, n
    <3> QED
      BY <2>3, <3>1 DEF VecInv, BufferInv, SafeToUnwind
  <2> QED
    BY <2>1, <2>2, <2>3
<1> QED
  BY InductiveVec, <1>1, PTL
=============================================================================
