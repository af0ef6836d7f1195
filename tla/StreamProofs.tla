------------------------------ MODULE StreamProofs ------------------------------
(***************************************************************************)
(* Lemmas about the operators of Stream.tla, and about the least element   *)
(* of a set of numbers, which stands in for induction.                     *)
(***************************************************************************)
EXTENDS Stream, FiniteSetTheorems, WellFoundedInduction, TLAPS

\* A nonempty set of natural numbers has a least element.
LEMMA LeastNat ==
  ASSUME NEW T, T \subseteq Nat, T # {}
  PROVE  \E m \in T : \A k \in T : m <= k
<1> DEFINE R == OpToRel(<, Nat)
<1>1. \E m \in T : \A k \in T : <<k, m>> \notin R
  <2>1. IsWellFoundedOn(R, Nat)
    BY NatLessThanWellFounded
  <2> HIDE DEF R
  <2> QED BY <2>1, WFMin
<1>2. ASSUME NEW m \in Nat, NEW k \in Nat, k < m PROVE <<k, m>> \in R
  BY <1>2 DEF OpToRel
<1> HIDE DEF R
<1>3. PICK m \in T : \A k \in T : <<k, m>> \notin R
  BY <1>1
<1>4. ASSUME NEW k \in T PROVE m <= k
  <2>1. k \in Nat /\ m \in Nat
    OBVIOUS
  <2>2. ~ (k < m)
    BY <2>1, <1>2, <1>3
  <2> QED BY <2>1, <2>2
<1> QED BY <1>4

\* What is left of a finite stream between two cuts can be counted.
LEMMA NewlinesInType ==
  ASSUME NEW nl, IsFiniteSet(nl), NEW lo, NEW hi
  PROVE  /\ IsFiniteSet({p \in nl : lo < p /\ p <= hi})
         /\ NewlinesIn(nl, lo, hi) \in Nat
<1>1. {p \in nl : lo < p /\ p <= hi} \in SUBSET nl
  OBVIOUS
<1> QED BY <1>1, FS_Subset, FS_CardinalityType DEF NewlinesIn

\* Newlines before and after a cut add up.
LEMMA NewlinesInAdd ==
  ASSUME NEW nl \in SUBSET Int, IsFiniteSet(nl),
         NEW lo \in Int, NEW mid \in Int, NEW hi \in Int, lo <= mid, mid <= hi
  PROVE  NewlinesIn(nl, lo, hi) = NewlinesIn(nl, lo, mid) + NewlinesIn(nl, mid, hi)
<1> DEFINE A == {p \in nl : lo < p /\ p <= mid}
           B == {p \in nl : mid < p /\ p <= hi}
           C == {p \in nl : lo < p /\ p <= hi}
<1>1. IsFiniteSet(A) /\ IsFiniteSet(B)
  BY NewlinesInType
<1>2. C = A \cup B /\ A \cap B = {}
  <2>1. ASSUME NEW p \in nl
        PROVE  /\ lo < p /\ p <= hi <=> (lo < p /\ p <= mid) \/ (mid < p /\ p <= hi)
               /\ ~ (p <= mid /\ mid < p)
    <3>1. p \in Int
      OBVIOUS
    <3> QED BY <3>1
  <2> QED BY <2>1
<1>3. Cardinality(A) \in Nat /\ Cardinality(B) \in Nat
  BY <1>1, FS_CardinalityType
<1>4. Cardinality(A \cup B) = Cardinality(A) + Cardinality(B) - Cardinality(A \cap B)
  <2> HIDE DEF A, B
  <2> QED BY <1>1, FS_Union
<1> QED BY <1>2, <1>3, <1>4, FS_EmptySet DEF NewlinesIn

\* Between a cut and itself there is nothing.
LEMMA NewlinesInNothing ==
  ASSUME NEW nl \in SUBSET Int, NEW lo \in Int
  PROVE  NewlinesIn(nl, lo, lo) = 0
<1>1. {p \in nl : lo < p /\ p <= lo} = {}
  <2>1. ASSUME NEW p \in nl PROVE ~ (lo < p /\ p <= lo)
    <3>1. p \in Int
      OBVIOUS
    <3> QED BY <3>1
  <2> QED BY <2>1
<1> QED BY <1>1, FS_EmptySet DEF NewlinesIn

\* A stretch that contains a newline counts one at least.
LEMMA NewlinesInPositive ==
  ASSUME NEW nl \in SUBSET Int, IsFiniteSet(nl), NEW lo \in Int, NEW hi \in Int,
         NEW p \in nl, lo < p, p <= hi
  PROVE  NewlinesIn(nl, lo, hi) >= 1
<1>1. p \in {q \in nl : lo < q /\ q <= hi}
  OBVIOUS
<1>2. IsFiniteSet({q \in nl : lo < q /\ q <= hi}) /\ NewlinesIn(nl, lo, hi) \in Nat
  BY NewlinesInType
<1>3. NewlinesIn(nl, lo, hi) # 0
  BY <1>1, <1>2, FS_EmptySet DEF NewlinesIn
<1> QED BY <1>2, <1>3

\* Bytes that arrive later do not change what was counted before them ...
LEMMA NewlinesInOld ==
  ASSUME NEW nl \in SUBSET Int, NEW new \in SUBSET Int, NEW lo \in Int,
         NEW hi \in Int, \A p \in new : hi < p
  PROVE  NewlinesIn(nl \cup new, lo, hi) = NewlinesIn(nl, lo, hi)
<1>1. {p \in nl \cup new : lo < p /\ p <= hi} = {p \in nl : lo < p /\ p <= hi}
  <2>1. ASSUME NEW p \in new PROVE ~ (p <= hi)
    <3>1. p \in Int
      OBVIOUS
    <3> QED BY <3>1
  <2> QED BY <2>1
<1> QED BY <1>1 DEF NewlinesIn

\* ... and are all the newlines there are among themselves.
LEMMA NewlinesInNew ==
  ASSUME NEW nl \in SUBSET Int, NEW new \in SUBSET Int, NEW lo \in Int,
         NEW hi \in Int, new \subseteq (lo + 1)..hi, \A p \in nl : p <= lo
  PROVE  NewlinesIn(nl \cup new, lo, hi) = Cardinality(new)
<1>1. {p \in nl \cup new : lo < p /\ p <= hi} = new
  <2>1. ASSUME NEW p \in new PROVE lo < p /\ p <= hi
    <3>1. p \in (lo + 1)..hi
      OBVIOUS
    <3> QED BY <3>1
  <2>2. ASSUME NEW p \in nl PROVE ~ (lo < p)
    <3>1. p \in Int
      OBVIOUS
    <3> QED BY <3>1
  <2> QED BY <2>1, <2>2
<1> QED BY <1>1 DEF NewlinesIn

\* What a read of size bytes does to the counts.
LEMMA NewlinesInGrown ==
  ASSUME NEW nl \in SUBSET Int, IsFiniteSet(nl), NEW r \in Nat,
         NEW size \in Nat, NEW new \in SUBSET ((r + 1)..(r + size))
  PROVE  /\ nl \cup new \in SUBSET Int /\ IsFiniteSet(nl \cup new)
         /\ new \in SUBSET Int /\ IsFiniteSet(new) /\ Cardinality(new) \in Nat
         /\ \A p \in new : r < p /\ p <= r + size
<1>1. ASSUME NEW p \in new PROVE p \in Int /\ r < p /\ p <= r + size
  <2>1. p \in (r + 1)..(r + size)
    OBVIOUS
  <2> QED BY <2>1
<1>2. new \in SUBSET Int
  BY <1>1
<1>3. IsFiniteSet(new) /\ Cardinality(new) \in Nat
  <2>1. IsFiniteSet((r + 1)..(r + size))
    <3>1. r + 1 \in Int /\ r + size \in Int
      OBVIOUS
    <3> QED BY <3>1, FS_Interval
  <2> QED BY <2>1, FS_Subset, FS_CardinalityType
<1>4. nl \cup new \in SUBSET Int /\ IsFiniteSet(nl \cup new)
  BY <1>2, <1>3, FS_Union
<1> QED BY <1>1, <1>2, <1>3, <1>4

LEMMA NewlinesInAdded ==
  ASSUME NEW nl \in SUBSET Int, IsFiniteSet(nl), NEW r \in Nat, \A p \in nl : p <= r,
         NEW size \in Nat, NEW new \in SUBSET ((r + 1)..(r + size)), NEW lo \in 0..r
  PROVE  NewlinesIn(nl \cup new, lo, r + size)
           = NewlinesIn(nl, lo, r) + Cardinality(new)
<1> DEFINE all == nl \cup new
<1>1. /\ all \in SUBSET Int /\ IsFiniteSet(all) /\ new \in SUBSET Int
      /\ \A p \in new : r < p
  BY NewlinesInGrown
<1>2. NewlinesIn(all, r, r + size) = Cardinality(new)
  <2>1. r \in Int /\ r + size \in Int
    OBVIOUS
  <2> QED BY <1>1, <2>1, NewlinesInNew
<1>3. lo \in Int /\ r \in Int /\ r + size \in Int /\ lo <= r /\ r <= r + size
  OBVIOUS
<1>4. NewlinesIn(all, lo, r + size)
        = NewlinesIn(all, lo, r) + NewlinesIn(all, r, r + size)
  <2> HIDE DEF all
  <2> QED BY <1>1, <1>3, NewlinesInAdd
<1>5. NewlinesIn(all, lo, r) = NewlinesIn(nl, lo, r)
  BY <1>1, <1>3, NewlinesInOld, ZenonT(60)
<1> QED BY <1>2, <1>4, <1>5

\* One byte more is one newline more at most.
LEMMA NewlinesInStep ==
  ASSUME NEW nl \in SUBSET Int, IsFiniteSet(nl), NEW lo \in Int, NEW hi \in Int,
         lo <= hi
  PROVE  NewlinesIn(nl, lo, hi + 1) =
           NewlinesIn(nl, lo, hi) + IF hi + 1 \in nl THEN 1 ELSE 0
<1> DEFINE A == {p \in nl : lo < p /\ p <= hi}
           B == {p \in nl : lo < p /\ p <= hi + 1}
<1>1. IsFiniteSet(A) /\ Cardinality(A) \in Nat
  BY NewlinesInType DEF NewlinesIn
<1>2. CASE hi + 1 \in nl
  <2>1. B = A \cup {hi + 1} /\ hi + 1 \notin A
    <3>1. ASSUME NEW p \in nl
          PROVE  lo < p /\ p <= hi + 1 <=> (lo < p /\ p <= hi) \/ p = hi + 1
      <4>1. p \in Int
        OBVIOUS
      <4> QED BY <4>1
    <3>2. ~ (hi + 1 <= hi) /\ lo < hi + 1
      OBVIOUS
    <3> QED BY <1>2, <3>1, <3>2
  <2>2. Cardinality(A \cup {hi + 1}) = Cardinality(A) + 1
    <3> HIDE DEF A
    <3> QED BY <1>1, <2>1, FS_AddElement
  <2> QED BY <1>2, <2>1, <2>2 DEF NewlinesIn
<1>3. CASE hi + 1 \notin nl
  <2>1. B = A
    <3>1. ASSUME NEW p \in nl
          PROVE  p <= hi + 1 <=> p <= hi
      <4>1. p \in Int /\ p # hi + 1
        BY <1>3
      <4> QED BY <4>1
    <3> QED BY <3>1
  <2> QED BY <1>1, <1>3, <2>1 DEF NewlinesIn
<1> QED BY <1>2, <1>3

\* A stretch with k newlines or more has a k-th one: what memchr finds when it is
\* called k times.
LEMMA KthNewline ==
  ASSUME NEW nl \in SUBSET Int, IsFiniteSet(nl), NEW lo \in Int, NEW hi \in Int,
         lo <= hi, NEW k \in Nat \ {0}, k <= NewlinesIn(nl, lo, hi)
  PROVE  \E p \in nl : lo < p /\ p <= hi /\ NewlinesIn(nl, lo, p) = k
<1> DEFINE T == {d \in Nat : lo + d <= hi /\ k <= NewlinesIn(nl, lo, lo + d)}
<1>1. hi - lo \in T
  OBVIOUS
<1>2. PICK d \in T : \A e \in T : d <= e
  BY <1>1, LeastNat
<1>3. d # 0
  BY NewlinesInNothing, <1>2
<1>4. d - 1 \in Nat /\ d - 1 \notin T
  BY <1>2, <1>3
<1>5. NewlinesIn(nl, lo, lo + (d - 1)) < k
  <2>1. NewlinesIn(nl, lo, lo + (d - 1)) \in Nat
    BY NewlinesInType
  <2> QED BY <1>2, <1>4, <2>1
<1>6. NewlinesIn(nl, lo, lo + d) = NewlinesIn(nl, lo, lo + (d - 1))
                                   + IF lo + d \in nl THEN 1 ELSE 0
  <2>1. (lo + (d - 1)) + 1 = lo + d
    BY <1>2
  <2>2. lo + (d - 1) \in Int /\ lo <= lo + (d - 1)
    BY <1>4
  <2> HIDE DEF T
  <2> QED BY <2>1, <2>2, NewlinesInStep
<1>7. NewlinesIn(nl, lo, lo + (d - 1)) \in Nat /\ NewlinesIn(nl, lo, lo + d) \in Nat
  BY NewlinesInType
<1>8. lo + d \in nl /\ NewlinesIn(nl, lo, lo + d) = k
  BY <1>2, <1>5, <1>6, <1>7
<1>9. lo < lo + d /\ lo + d <= hi
  BY <1>2, <1>3
<1> QED BY <1>8, <1>9
---------------------------------------------------------------------------------
\* The same facts for either unit.
LEMMA UnitsInType ==
  ASSUME NEW lines \in BOOLEAN, NEW nl \in SUBSET Int, IsFiniteSet(nl),
         NEW lo \in Int, NEW hi \in Int, lo <= hi
  PROVE  UnitsIn(lines, nl, lo, hi) \in Nat
<1>1. NewlinesIn(nl, lo, hi) \in Nat
  BY NewlinesInType
<1>2. hi - lo \in Nat
  OBVIOUS
<1> QED BY <1>1, <1>2 DEF UnitsIn

LEMMA UnitsInAdd ==
  ASSUME NEW lines \in BOOLEAN, NEW nl \in SUBSET Int, IsFiniteSet(nl),
         NEW lo \in Int, NEW mid \in Int, NEW hi \in Int, lo <= mid, mid <= hi
  PROVE  UnitsIn(lines, nl, lo, hi) =
           UnitsIn(lines, nl, lo, mid) + UnitsIn(lines, nl, mid, hi)
BY NewlinesInAdd DEF UnitsIn

LEMMA UnitsInPositive ==
  ASSUME NEW lines \in BOOLEAN, NEW nl \in SUBSET Int, IsFiniteSet(nl),
         NEW lo \in Int, NEW hi \in Int, lo < hi, lines => hi \in nl
  PROVE  UnitsIn(lines, nl, lo, hi) \in Nat \ {0}
<1>1. CASE lines
  <2>1. hi \in nl /\ hi <= hi
    BY <1>1
  <2>2. NewlinesIn(nl, lo, hi) >= 1
    BY <2>1, NewlinesInPositive
  <2>3. NewlinesIn(nl, lo, hi) \in Nat
    BY NewlinesInType
  <2> QED BY <1>1, <2>2, <2>3 DEF UnitsIn
<1>2. CASE ~lines
  BY <1>2 DEF UnitsIn
<1> QED BY <1>1, <1>2
---------------------------------------------------------------------------------
(***************************************************************************)
(* Where the last n units start, from what is known of one cut f.          *)
(***************************************************************************)
\* A cut at or before the start of the tail.
LEMMA TailIsNotBefore ==
  ASSUME NEW lines \in BOOLEAN, NEW nl \in SUBSET Int, IsFiniteSet(nl),
         NEW n \in Nat, NEW len \in Nat, NEW s \in 0..len, NEW f \in 0..s,
         IsTailStart(lines, n, nl, len, s)
  PROVE  TailNotBefore(lines, n, nl, len, f)
<1> DEFINE U(a, b) == UnitsIn(lines, nl, a, b)
<1>1. CASE U(0, len) <= n
  <2>1. f = 0
    BY <1>1 DEF IsTailStart
  <2> QED BY <2>1 DEF TailNotBefore
<1>2. CASE ~ (U(0, len) <= n)
  <2>1. U(s, len) = n /\ (lines => s \in nl)
    BY <1>2 DEF IsTailStart
  <2>2. CASE f = s
    BY <2>1, <2>2 DEF TailNotBefore
  <2>3. CASE f < s
    <3>1. U(f, len) = U(f, s) + U(s, len)
      BY <2>3, UnitsInAdd
    <3>2. U(f, s) \in Nat /\ U(f, s) > 0
      <4>1. U(f, s) \in Nat \ {0}
        BY <2>1, <2>3, UnitsInPositive
      <4> QED BY <4>1
    <3>3. U(f, len) > n
      <4> HIDE DEF U
      <4> QED BY <2>1, <3>1, <3>2
    <3> QED BY <3>3 DEF TailNotBefore
  <2> QED BY <2>2, <2>3
<1> QED BY <1>1, <1>2

\* More input never moves the start of the tail backwards.
LEMMA TailNotBeforeGrows ==
  ASSUME NEW lines \in BOOLEAN, NEW nl \in SUBSET Int, IsFiniteSet(nl),
         NEW n \in Nat, NEW len \in Nat,
         NEW new \in SUBSET Int, IsFiniteSet(new), \A p \in new : len < p,
         NEW more \in Nat, NEW f \in 0..len,
         TailNotBefore(lines, n, nl, len, f)
  PROVE  TailNotBefore(lines, n, nl \cup new, len + more, f)
<1> DEFINE all == nl \cup new
<1>1. all \in SUBSET Int /\ IsFiniteSet(all)
  BY FS_Union
<1>2. UnitsIn(lines, all, f, len + more) =
        UnitsIn(lines, all, f, len) + UnitsIn(lines, all, len, len + more)
  <2> HIDE DEF all
  <2> QED BY <1>1, UnitsInAdd
<1>3. UnitsIn(lines, all, f, len) = UnitsIn(lines, nl, f, len)
  <2>1. NewlinesIn(all, f, len) = NewlinesIn(nl, f, len)
    <3>1. f \in Int /\ len \in Int
      OBVIOUS
    <3> QED BY <3>1, NewlinesInOld, ZenonT(60)
  <2> QED BY <2>1 DEF UnitsIn
<1>4. /\ UnitsIn(lines, all, f, len) \in Nat
      /\ UnitsIn(lines, all, len, len + more) \in Nat
  <2> HIDE DEF all
  <2> QED BY <1>1, UnitsInType
<1> DEFINE u == UnitsIn(lines, all, f, len)
           v == UnitsIn(lines, all, len, len + more)
<1>5. u + v >= u
  <2> HIDE DEF u, v
  <2> QED BY <1>4 DEF u, v
<1> QED BY <1>2, <1>3, <1>4, <1>5 DEF TailNotBefore

\* Of more than n units after f, all but the last n are skipped.
LEMMA TailStartsAfterExcess ==
  ASSUME NEW lines \in BOOLEAN, NEW nl \in SUBSET Int, IsFiniteSet(nl),
         NEW n \in Nat, NEW len \in Nat, NEW s \in 0..len, NEW f \in 0..s,
         UnitsIn(lines, nl, f, s) = UnitsIn(lines, nl, f, len) - n,
         UnitsIn(lines, nl, f, len) > n,
         lines => s \in nl
  PROVE  IsTailStart(lines, n, nl, len, s)
<1> DEFINE U(a, b) == UnitsIn(lines, nl, a, b)
<1>1. U(f, len) = U(f, s) + U(s, len) /\ U(0, len) = U(0, f) + U(f, len)
  BY UnitsInAdd
<1>2. U(f, s) \in Nat /\ U(s, len) \in Nat /\ U(0, f) \in Nat /\ U(f, len) \in Nat
  BY UnitsInType
<1>3. U(s, len) = n /\ ~ (U(0, len) <= n)
  <2>1. U(f, s) = U(f, len) - n /\ U(f, len) > n
    OBVIOUS
  <2> HIDE DEF U
  <2> QED BY <1>1, <1>2, <2>1
<1> QED BY <1>3 DEF IsTailStart

\* n units or fewer after a cut that is not past the start: it is the start.
LEMMA TailStartsHere ==
  ASSUME NEW lines \in BOOLEAN, NEW nl \in SUBSET Int, IsFiniteSet(nl),
         NEW n \in Nat, NEW len \in Nat, NEW f \in 0..len,
         \A p \in nl : p > 0,
         UnitsIn(lines, nl, f, len) <= n,
         TailNotBefore(lines, n, nl, len, f)
  PROVE  IsTailStart(lines, n, nl, len, f)
<1> DEFINE U(a, b) == UnitsIn(lines, nl, a, b)
<1>1. U(f, len) \in Nat
  BY UnitsInType
<1>2. CASE f = 0
  BY <1>2 DEF IsTailStart
<1>3. CASE f # 0 /\ U(f, len) = n /\ (lines => f \in nl)
  <2>1. U(0, len) = U(0, f) + U(f, len)
    BY UnitsInAdd
  <2>2. U(0, f) \in Nat /\ U(0, f) > 0
    <3>1. 0 < f
      BY <1>3
    <3>2. U(0, f) \in Nat \ {0}
      BY <1>3, <3>1, UnitsInPositive
    <3> QED BY <3>2
  <2>3. ~ (U(0, len) <= n)
    <3> HIDE DEF U
    <3> QED BY <1>3, <2>1, <2>2
  <2> QED BY <1>3, <2>3 DEF IsTailStart
<1>4. f = 0 \/ (U(f, len) = n /\ (lines => f \in nl))
  <2>1. U(f, len) <= n
    OBVIOUS
  <2>2. ~ (U(f, len) > n)
    <3> HIDE DEF U
    <3> QED BY <1>1, <2>1
  <2> QED BY <2>2 DEF TailNotBefore
<1> QED BY <1>2, <1>3, <1>4

\* A cut with more than n units after it lies before the start of the tail.
LEMMA TailStartsLater ==
  ASSUME NEW lines \in BOOLEAN, NEW nl \in SUBSET Int, IsFiniteSet(nl),
         NEW n \in Nat, NEW len \in Nat, NEW s \in 0..len, NEW c \in 0..len,
         IsTailStart(lines, n, nl, len, s),
         UnitsIn(lines, nl, c, len) > n
  PROVE  c < s
<1> DEFINE U(a, b) == UnitsIn(lines, nl, a, b)
<1>1. U(0, len) = U(0, c) + U(c, len)
  BY UnitsInAdd
<1>2. U(0, c) \in Nat /\ U(c, len) \in Nat /\ U(s, len) \in Nat
  BY UnitsInType
<1>3. U(c, len) > n
  OBVIOUS
<1>4. ~ (U(0, len) <= n)
  <2> HIDE DEF U
  <2> QED BY <1>1, <1>2, <1>3
<1>5. U(s, len) = n
  BY <1>4 DEF IsTailStart
<1>6. ASSUME s <= c PROVE FALSE
  <2>1. U(s, len) = U(s, c) + U(c, len)
    BY <1>6, UnitsInAdd
  <2>2. U(s, c) \in Nat
    BY <1>6, UnitsInType
  <2> HIDE DEF U
  <2> QED BY <1>2, <1>3, <1>5, <2>1, <2>2
<1> QED BY <1>6

\* There is such a cut, and so TailStart is one.
LEMMA TailStartDefined ==
  ASSUME NEW lines \in BOOLEAN, NEW nl \in SUBSET Int, IsFiniteSet(nl),
         NEW n \in Nat, NEW len \in Nat
  PROVE  /\ TailStart(lines, n, nl, len) \in 0..len
         /\ IsTailStart(lines, n, nl, len, TailStart(lines, n, nl, len))
<1> DEFINE U(a, b) == UnitsIn(lines, nl, a, b)
<1>1. \E s \in 0..len : IsTailStart(lines, n, nl, len, s)
  <2>1. CASE U(0, len) <= n
    BY <2>1 DEF IsTailStart
  <2>2. CASE ~ (U(0, len) <= n) /\ ~lines
    <3>1. U(0, len) = len - 0 /\ U(len - n, len) = len - (len - n)
      BY <2>2 DEF UnitsIn
    <3>2. len - n \in 0..len /\ U(len - n, len) = n
      BY <2>2, <3>1
    <3> QED BY <2>2, <3>2 DEF IsTailStart
  <2>3. CASE ~ (U(0, len) <= n) /\ lines
    <3>1. \A a, b : U(a, b) = NewlinesIn(nl, a, b)
      BY <2>3 DEF UnitsIn
    <3> DEFINE k == NewlinesIn(nl, 0, len) - n
    <3>2. NewlinesIn(nl, 0, len) \in Nat /\ NewlinesIn(nl, 0, len) > n
      <4>1. NewlinesIn(nl, 0, len) \in Nat
        BY NewlinesInType
      <4>2. ~ (NewlinesIn(nl, 0, len) <= n)
        BY <2>3, <3>1
      <4> QED BY <4>1, <4>2
    <3>3. k \in Nat \ {0} /\ k <= NewlinesIn(nl, 0, len)
      BY <3>2
    <3> HIDE DEF k
    <3>4. PICK p \in nl : 0 < p /\ p <= len /\ NewlinesIn(nl, 0, p) = k
      BY <3>3, KthNewline
    <3>5. p \in Int
      OBVIOUS
    <3>6. NewlinesIn(nl, 0, len) = NewlinesIn(nl, 0, p) + NewlinesIn(nl, p, len)
      BY <3>4, <3>5, NewlinesInAdd
    <3>7. NewlinesIn(nl, p, len) \in Nat
      BY NewlinesInType
    <3>8. U(p, len) = n /\ p \in 0..len
      <4>1. k = NewlinesIn(nl, 0, len) - n
        BY DEF k
      <4>2. NewlinesIn(nl, p, len) = n
        BY <3>2, <3>4, <3>6, <3>7, <4>1
      <4> QED BY <3>1, <3>4, <3>5, <4>2
    <3> QED BY <2>3, <3>4, <3>8 DEF IsTailStart
  <2> QED BY <2>1, <2>2, <2>3
<1> QED BY <1>1 DEF TailStart

\* A cut that the tail does not start before is passed by every start of it.
LEMMA TailStartsNoEarlier ==
  ASSUME NEW lines \in BOOLEAN, NEW nl \in SUBSET Int, IsFiniteSet(nl),
         NEW n \in Nat, NEW len \in Nat, NEW s \in 0..len, NEW f \in 0..len,
         IsTailStart(lines, n, nl, len, s), TailNotBefore(lines, n, nl, len, f)
  PROVE  f <= s
<1> DEFINE U(a, b) == UnitsIn(lines, nl, a, b)
<1>1. CASE f = 0
  BY <1>1
<1>2. CASE U(f, len) > n
  BY <1>2, TailStartsLater
<1>3. CASE f # 0 /\ U(f, len) = n /\ (lines => f \in nl)
  <2>1. U(0, len) = U(0, f) + U(f, len)
    BY UnitsInAdd
  <2>2. U(0, f) \in Nat \ {0}
    BY <1>3, UnitsInPositive
  <2>3. ~ (U(0, len) <= n)
    <3> HIDE DEF U
    <3> QED BY <1>3, <2>1, <2>2
  <2>4. U(s, len) = n
    BY <2>3 DEF IsTailStart
  <2>5. ASSUME s < f PROVE FALSE
    <3>1. U(s, len) = U(s, f) + U(f, len)
      BY <2>5, UnitsInAdd
    <3>2. U(s, f) \in Nat \ {0}
      BY <1>3, <2>5, UnitsInPositive
    <3> HIDE DEF U
    <3> QED BY <1>3, <2>4, <3>1, <3>2
  <2> QED BY <2>5
<1> QED BY <1>1, <1>2, <1>3 DEF TailNotBefore

\* As a stream grows its tail never starts earlier.
LEMMA TailStartGrows ==
  ASSUME NEW lines \in BOOLEAN, NEW nl \in SUBSET Int, IsFiniteSet(nl),
         NEW new \in SUBSET Int, IsFiniteSet(new),
         NEW n \in Nat, NEW len \in Nat, NEW more \in Nat, \A p \in new : len < p
  PROVE  TailStart(lines, n, nl, len) <= TailStart(lines, n, nl \cup new, len + more)
<1> DEFINE f == TailStart(lines, n, nl, len)
           s == TailStart(lines, n, nl \cup new, len + more)
<1>1. f \in 0..len /\ IsTailStart(lines, n, nl, len, f)
  BY TailStartDefined
<1>2. /\ nl \cup new \in SUBSET Int /\ IsFiniteSet(nl \cup new) /\ len + more \in Nat
  <2>1. nl \cup new \in SUBSET Int /\ IsFiniteSet(nl \cup new)
    BY FS_Union
  <2> QED BY <2>1
<1>3. s \in 0..(len + more) /\ IsTailStart(lines, n, nl \cup new, len + more, s)
  BY <1>2, TailStartDefined
<1> HIDE DEF f, s
<1>4. TailNotBefore(lines, n, nl, len, f)
  <2>1. f \in 0..f
    BY <1>1
  <2> QED BY <1>1, <2>1, TailIsNotBefore
<1>5. TailNotBefore(lines, n, nl \cup new, len + more, f)
  BY <1>1, <1>4, TailNotBeforeGrows
<1>6. f \in 0..(len + more)
  BY <1>1
<1>7. f <= s
  BY <1>2, <1>3, <1>5, <1>6, TailStartsNoEarlier
<1> QED BY <1>7 DEF f, s

LEMMA FirstOnesFinite ==
  ASSUME NEW nl \in SUBSET Nat, NEW len \in Nat
  PROVE  /\ {p \in nl : p <= len} \in SUBSET Int
         /\ IsFiniteSet({p \in nl : p <= len})
<1>1. {p \in nl : p <= len} \in SUBSET (0..len)
  <2>1. ASSUME NEW p \in nl, p <= len PROVE p \in 0..len
    <3>1. p \in Nat
      OBVIOUS
    <3> QED BY <2>1, <3>1
  <2> QED BY <2>1
<1>2. IsFiniteSet(0..len)
  BY FS_Interval
<1> QED BY <1>1, <1>2, FS_Subset

\* Both for the beginnings of one stream.
LEMMA TailStartAtType ==
  ASSUME NEW lines \in BOOLEAN, NEW nl \in SUBSET Nat, NEW n \in Nat, NEW len \in Nat
  PROVE  TailStartAt(lines, n, nl, len) \in 0..len
<1> DEFINE seen == {p \in nl : p <= len}
<1>1. seen \in SUBSET Int /\ IsFiniteSet(seen)
  BY FirstOnesFinite
<1> HIDE DEF seen
<1>2. TailStart(lines, n, seen, len) \in 0..len
  BY <1>1, TailStartDefined
<1> QED BY <1>2 DEF TailStartAt, seen

LEMMA TailStartAtGrows ==
  ASSUME NEW lines \in BOOLEAN, NEW nl \in SUBSET Nat, NEW n \in Nat,
         NEW len \in Nat, NEW all \in Nat, len <= all
  PROVE  TailStartAt(lines, n, nl, len) <= TailStartAt(lines, n, nl, all)
<1> DEFINE old == {p \in nl : p <= len}
           new == {p \in nl : p <= all} \ old
<1>1. old \in SUBSET Int /\ IsFiniteSet(old)
  BY FirstOnesFinite
<1>2. new \in SUBSET Int /\ IsFiniteSet(new)
  <2>1. {p \in nl : p <= all} \in SUBSET Int /\ IsFiniteSet({p \in nl : p <= all})
    BY FirstOnesFinite
  <2> QED BY <2>1, FS_Difference
<1>3. {p \in nl : p <= all} = old \cup new
  <2>1. ASSUME NEW p \in nl, p <= len PROVE p <= all
    <3>1. p \in Nat
      OBVIOUS
    <3> QED BY <2>1, <3>1
  <2> QED BY <2>1
<1>4. \A p \in new : len < p
  <2>1. ASSUME NEW p \in nl, ~ (p <= len) PROVE len < p
    <3>1. p \in Nat
      OBVIOUS
    <3> QED BY <2>1, <3>1
  <2> QED BY <2>1
<1> DEFINE more == all - len
<1>5. more \in Nat /\ all = len + more
  OBVIOUS
<1> HIDE DEF old, new, more
<1>6. TailStart(lines, n, old, len) <= TailStart(lines, n, old \cup new, len + more)
  BY <1>1, <1>2, <1>4, <1>5, TailStartGrows
<1> QED BY <1>3, <1>5, <1>6 DEF TailStartAt, old
=================================================================================
