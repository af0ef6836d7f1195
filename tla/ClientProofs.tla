------------------------------ MODULE ClientProofs ------------------------------
(***************************************************************************)
(* Theorems about Client.tla, for every size of the tail, of a read and of *)
(* the base, and however the connections arrive: the size line is          *)
(* understood and never read past the tail, and what is printed is what    *)
(* was offered.                                                            *)
(***************************************************************************)
EXTENDS Client, StreamProofs, ListProofs, WellFoundedInduction

---------------------------------------------------------------------------------
(***************************************************************************)
(* Induction, said of a set of numbers: the theorems of the library that   *)
(* say it of a predicate cannot be applied by the provers, but this one    *)
(* follows from the existence of minimal elements.                         *)
(***************************************************************************)
LessThan == OpToRel(<, Nat)

LEMMA LessThanIs == \A x, y \in Nat : x < y => <<x, y>> \in LessThan
  BY Zenon DEF LessThan, OpToRel

LEMMA SetInduction ==
  ASSUME NEW S \in SUBSET Nat, 0 \in S, \A n \in S : n + 1 \in S
  PROVE  S = Nat
<1> SUFFICES ASSUME Nat \ S # {}
             PROVE  FALSE
  OBVIOUS
<1>1. IsWellFoundedOn(LessThan, Nat)
  BY NatLessThanWellFounded, Zenon DEF LessThan
<1>2. PICK x \in Nat \ S : \A y \in Nat \ S : ~(<<y, x>> \in LessThan)
  <2>1. Nat \ S \subseteq Nat
    OBVIOUS
  <2> QED BY <1>1, <2>1, WFMin, Zenon
<1>3. x - 1 \in Nat /\ x - 1 < x /\ (x - 1) + 1 = x
  BY SMT
<1>4. x - 1 \in S
  BY <1>2, <1>3, LessThanIs
<1> QED BY <1>3, <1>4

\* And from all smaller numbers.
LEMMA StrongSetInduction ==
  ASSUME NEW S \in SUBSET Nat,
         \A n \in Nat : (\A m \in Nat : m < n => m \in S) => n \in S
  PROVE  S = Nat
<1> DEFINE T == {n \in Nat : \A m \in Nat : m < n => m \in S}
<1>1. 0 \in T
  OBVIOUS
<1>2. \A n \in T : n + 1 \in T
  <2> SUFFICES ASSUME NEW n \in T, NEW m \in Nat, m < n + 1
               PROVE  m \in S
    OBVIOUS
  <2>1. m < n \/ m = n
    OBVIOUS
  <2> QED BY <2>1
<1>3. T = Nat
  <2> HIDE DEF T
  <2>1. T \in SUBSET Nat
    BY DEF T
  <2> QED BY <1>1, <1>2, <2>1, SetInduction
<1>4. \A n \in Nat : n \in S
  BY <1>3
<1> QED BY <1>4
---------------------------------------------------------------------------------
(***************************************************************************)
(* The size line (SizeLine.tla): reading it gives the size back, whichever *)
(* pieces it is read in, and on the way never more than the size.          *)
(***************************************************************************)
\* The recursion of ValuesRead has a solution, and it is in Nat.
LEMMA ValuesReadIs ==
  ASSUME NEW base \in Nat, NEW value \in Nat, NEW s \in Seq(Nat)
  PROVE  LET v == ValuesRead(base, value, s) IN
         /\ v[0] = value
         /\ \A k \in 1..Len(s) : v[k] = v[k - 1] * base + s[k]
         /\ \A k \in 0..Len(s) : v[k] \in Nat
<1> DEFINE Step(f, n) == [k \in 0..n |-> IF k = 0 THEN value ELSE f[k - 1] * base + s[k]]
           S == {n \in Nat : \E f : f = Step(f, n)}
<1>1. 0 \in S
  <2>1. [k \in 0..0 |-> value] = Step([k \in 0..0 |-> value], 0)
    OBVIOUS
  <2> QED BY <2>1
<1>2. \A n \in S : n + 1 \in S
  <2> SUFFICES ASSUME NEW n \in S
               PROVE  n + 1 \in Nat /\ \E g : g = Step(g, n + 1)
    OBVIOUS
  <2>n. n \in Nat
    OBVIOUS
  <2>f. PICK f : f = Step(f, n)
    OBVIOUS
  <2> DEFINE g == [k \in 0..(n + 1) |-> IF k = n + 1 THEN f[n] * base + s[n + 1] ELSE f[k]]
  <2>1. \A k \in 0..n : f[k] = IF k = 0 THEN value ELSE f[k - 1] * base + s[k]
    BY <2>f
  <2> HIDE DEF Step, S
  <2>2. \A k \in 0..(n + 1) : g[k] = IF k = 0 THEN value ELSE g[k - 1] * base + s[k]
    <3> SUFFICES ASSUME NEW k \in 0..(n + 1)
                 PROVE  g[k] = IF k = 0 THEN value ELSE g[k - 1] * base + s[k]
      OBVIOUS
    <3>1. CASE k = n + 1
      <4>1. n + 1 \in 0..(n + 1) /\ n \in 0..(n + 1) /\ (n + 1) - 1 = n /\ n # n + 1 /\ n + 1 # 0
        BY <2>n
      <4> QED BY <3>1, <4>1
    <3>2. CASE k # n + 1
      <4>1. k \in 0..n /\ (k # 0 => k - 1 \in 0..(n + 1) /\ k - 1 # n + 1)
        BY <2>n, <3>2
      <4> QED BY <2>1, <3>2, <4>1
    <3> QED BY <3>1, <3>2
  <2>3. g = [k \in 0..(n + 1) |-> g[k]]
    OBVIOUS
  <2> HIDE DEF g
  <2>4. g = Step(g, n + 1)
    BY <2>2, <2>3 DEF Step
  <2> QED BY <2>n, <2>4
<1>3. S = Nat
  <2> HIDE DEF S
  <2>1. S \in SUBSET Nat
    BY DEF S
  <2> QED BY <1>1, <1>2, <2>1, SetInduction
<1> DEFINE v == ValuesRead(base, value, s)
<1>4. Len(s) \in Nat
  BY LenProperties
<1>5. v = Step(v, Len(s))
  <2>1. \E f : f = Step(f, Len(s))
    BY <1>3, <1>4
  <2>2. v = CHOOSE f : f = Step(f, Len(s))
    BY DEF ValuesRead
  <2> HIDE DEF Step, v
  <2> QED BY <2>1, <2>2
<1>6. v[0] = value /\ \A k \in 1..Len(s) : v[k] = v[k - 1] * base + s[k]
  <2> HIDE DEF v
  <2> QED BY <1>4, <1>5, SMTT(40)
<1> HIDE DEF v
<1>7. \A k \in 0..Len(s) : v[k] \in Nat
  <2> DEFINE T == {n \in Nat : n <= Len(s) => v[n] \in Nat}
  <2>1. 0 \in T
    BY <1>6
  <2>2. \A n \in T : n + 1 \in T
    <3> SUFFICES ASSUME NEW n \in Nat, n + 1 <= Len(s), v[n] \in Nat
                 PROVE  v[n + 1] \in Nat
      BY <1>4
    <3>1. v[n + 1] = v[n] * base + s[n + 1] /\ s[n + 1] \in Nat
      BY <1>4, <1>6
    <3>2. \A x, y, z \in Nat : x * y + z \in Nat
      OBVIOUS
    <3> QED BY <3>1, <3>2, ZenonT(60)
  <2>3. T = Nat
    <3> HIDE DEF T
    <3>1. T \in SUBSET Nat
      BY DEF T
    <3> QED BY <2>1, <2>2, <3>1, SetInduction
  <2> QED BY <1>4, <2>3
<1> QED BY <1>6, <1>7 DEF v

\* The value never gets smaller, so it is at most what all the digits make.
LEMMA ValuesReadGrow ==
  ASSUME NEW base \in Nat \ {0}, NEW value \in Nat, NEW s \in Seq(Nat), NEW k \in 0..Len(s)
  PROVE  ValuesRead(base, value, s)[k] <= ReadDigits(base, value, s)
<1> DEFINE v == ValuesRead(base, value, s)
<1>1. /\ \A i \in 1..Len(s) : v[i] = v[i - 1] * base + s[i]
      /\ \A i \in 0..Len(s) : v[i] \in Nat
      /\ Len(s) \in Nat
  BY ValuesReadIs, LenProperties
<1> HIDE DEF v
<1> DEFINE T == {n \in Nat : n <= Len(s) => v[Len(s) - n] <= v[Len(s)]}
<1>2. 0 \in T
  BY <1>1
<1>3. \A n \in T : n + 1 \in T
  <2> SUFFICES ASSUME NEW n \in Nat, n + 1 <= Len(s), v[Len(s) - n] <= v[Len(s)],
                      NEW i, i = Len(s) - n
               PROVE  v[i - 1] <= v[Len(s)]
    <3> SUFFICES ASSUME NEW n \in Nat, n + 1 <= Len(s), v[Len(s) - n] <= v[Len(s)]
                 PROVE  v[Len(s) - (n + 1)] <= v[Len(s)]
      BY <1>1
    <3>1. (Len(s) - n) - 1 = Len(s) - (n + 1)
      BY <1>1
    <3> QED BY <3>1
  <2>1. i \in 1..Len(s) /\ i - 1 \in 0..Len(s) /\ i \in 0..Len(s)
    BY <1>1
  <2>2. v[i] = v[i - 1] * base + s[i] /\ s[i] \in Nat /\ v[i - 1] \in Nat /\ v[i] \in Nat
    <3>1. s[i] \in Nat
      BY <2>1, ElementOfSeq
    <3> QED BY <1>1, <2>1, <3>1
  <2>3. \A x, y \in Nat : x <= x * base + y
    <3> SUFFICES ASSUME NEW x \in Nat, NEW y \in Nat
                 PROVE  x <= x * base + y
      OBVIOUS
    <3>1. x * 1 <= x * base /\ x * base \in Nat
      OBVIOUS
    <3> QED BY <3>1
  <2>4. v[i - 1] <= v[i]
    BY <2>2, <2>3
  <2>5. v[Len(s)] \in Nat
    BY <1>1
  <2>6. \A x, y, z \in Nat : x <= y /\ y <= z => x <= z
    OBVIOUS
  <2> QED BY <2>2, <2>4, <2>5, <2>6
<1>4. T = Nat
  <2> HIDE DEF T
  <2>1. T \in SUBSET Nat
    BY DEF T
  <2> QED BY <1>2, <1>3, <2>1, SetInduction
<1>5. Len(s) - k \in Nat /\ Len(s) - k <= Len(s) /\ Len(s) - (Len(s) - k) = k
  BY <1>1
<1>6. v[Len(s) - (Len(s) - k)] <= v[Len(s)]
  BY <1>4, <1>5
<1> QED BY <1>5, <1>6 DEF ReadDigits, v

\* Digits can be read on from any place.
LEMMA ReadingGoesOn ==
  ASSUME NEW base \in Nat, NEW value \in Nat, NEW s \in Seq(Nat),
         NEW c \in 0..Len(s), NEW m \in c..Len(s)
  PROVE  ReadDigits(base, ValuesRead(base, value, s)[c], SubSeq(s, c + 1, m))
           = ValuesRead(base, value, s)[m]
<1> DEFINE v == ValuesRead(base, value, s)
           t == SubSeq(s, c + 1, m)
           w == ValuesRead(base, v[c], t)
<1>1. /\ \A i \in 1..Len(s) : v[i] = v[i - 1] * base + s[i]
      /\ \A i \in 0..Len(s) : v[i] \in Nat
      /\ Len(s) \in Nat /\ c \in Nat /\ m \in Nat /\ c <= m /\ m <= Len(s)
  BY ValuesReadIs, LenProperties
<1>2. t \in Seq(Nat) /\ Len(t) = m - c /\ \A i \in 1..(m - c) : t[i] = s[c + i]
  <2>1. \A i \in (c + 1)..m : s[i] \in Nat
    BY <1>1, ElementOfSeq
  <2> QED BY <1>1, <2>1, SubSeqProperties
<1> HIDE DEF v, t
<1>3. w[0] = v[c] /\ \A i \in 1..(m - c) : w[i] = w[i - 1] * base + t[i]
  <2>1. v[c] \in Nat
    BY <1>1
  <2>2. w[0] = v[c] /\ \A i \in 1..Len(t) : w[i] = w[i - 1] * base + t[i]
    BY <1>2, <2>1, ValuesReadIs, ZenonT(60)
  <2> QED BY <1>2, <2>2
<1> HIDE DEF w
<1> DEFINE T == {n \in Nat : n <= m - c => w[n] = v[c + n]}
<1>4. 0 \in T
  BY <1>1, <1>3
<1>5. \A n \in T : n + 1 \in T
  <2> SUFFICES ASSUME NEW n \in Nat, n + 1 <= m - c, w[n] = v[c + n]
               PROVE  w[n + 1] = v[c + (n + 1)]
    BY <1>1
  <2>1. n + 1 \in 1..(m - c) /\ (n + 1) - 1 = n
    BY <1>1
  <2>2. c + (n + 1) \in 1..Len(s) /\ (c + (n + 1)) - 1 = c + n
    BY <1>1
  <2>3. w[n + 1] = w[n] * base + t[n + 1] /\ t[n + 1] = s[c + (n + 1)]
    BY <1>2, <1>3, <2>1
  <2>4. v[c + (n + 1)] = v[c + n] * base + s[c + (n + 1)]
    BY <1>1, <2>2
  <2> QED BY <2>3, <2>4
<1>6. T = Nat
  <2> HIDE DEF T
  <2>1. T \in SUBSET Nat
    BY DEF T
  <2> QED BY <1>4, <1>5, <2>1, SetInduction
<1>7. m - c \in Nat /\ c + (m - c) = m
  BY <1>1
<1>8. w[m - c] = v[c + (m - c)]
  BY <1>6, <1>7
<1> QED BY <1>2, <1>7, <1>8 DEF ReadDigits, v, t, w

\* One more digit.
LEMMA ReadOneMore ==
  ASSUME NEW base \in Nat, NEW s \in Seq(Nat), NEW d \in Nat
  PROVE  ReadDigits(base, 0, Append(s, d)) = ReadDigits(base, 0, s) * base + d
<1> DEFINE t == Append(s, d)
           v == ValuesRead(base, 0, t)
           w == ValuesRead(base, 0, s)
<1>1. t \in Seq(Nat) /\ Len(t) = Len(s) + 1 /\ Len(s) \in Nat /\ t[Len(s) + 1] = d
      /\ \A i \in 1..Len(s) : t[i] = s[i]
  BY AppendProperties, LenProperties
<1> HIDE DEF t
<1>2. v[0] = 0 /\ \A i \in 1..(Len(s) + 1) : v[i] = v[i - 1] * base + t[i]
  <2>1. t \in Seq(Nat) /\ 0 \in Nat
    BY <1>1
  <2>2. v[0] = 0 /\ \A i \in 1..Len(t) : v[i] = v[i - 1] * base + t[i]
    BY <2>1, ValuesReadIs
  <2> QED BY <1>1, <2>2
<1>3. w[0] = 0 /\ \A i \in 1..Len(s) : w[i] = w[i - 1] * base + s[i]
  BY ValuesReadIs
<1> HIDE DEF v, w
<1> DEFINE T == {n \in Nat : n <= Len(s) => v[n] = w[n]}
<1>4. 0 \in T
  BY <1>2, <1>3
<1>5. \A n \in T : n + 1 \in T
  <2> SUFFICES ASSUME NEW n \in Nat, n + 1 <= Len(s), v[n] = w[n]
               PROVE  v[n + 1] = w[n + 1]
    BY <1>1
  <2>1. n + 1 \in 1..Len(s) /\ n + 1 \in 1..(Len(s) + 1) /\ (n + 1) - 1 = n
    BY <1>1
  <2>2. v[n + 1] = v[n] * base + t[n + 1] /\ w[n + 1] = w[n] * base + s[n + 1]
        /\ t[n + 1] = s[n + 1]
    BY <1>1, <1>2, <1>3, <2>1
  <2> QED BY <2>2
<1>6. T = Nat
  <2> HIDE DEF T
  <2>1. T \in SUBSET Nat
    BY DEF T
  <2> QED BY <1>4, <1>5, <2>1, SetInduction
<1>7. v[Len(s)] = w[Len(s)]
  BY <1>1, <1>6
<1>8. Len(s) + 1 \in 1..(Len(s) + 1) /\ (Len(s) + 1) - 1 = Len(s)
  BY <1>1
<1>9. v[Len(s) + 1] = v[Len(s)] * base + d
  BY <1>1, <1>2, <1>8
<1>10. ReadDigits(base, 0, t) = v[Len(s) + 1] /\ ReadDigits(base, 0, s) = w[Len(s)]
  BY <1>1 DEF ReadDigits, v, w
<1> QED BY <1>7, <1>9, <1>10 DEF t

LEMMA DivisionIs ==
  ASSUME NEW n \in Nat, NEW b \in Nat, b > 1
  PROVE  /\ n \div b \in Nat /\ n % b \in Nat /\ n = (n \div b) * b + (n % b)
         /\ n >= b => n \div b < n
<1> DEFINE q == n \div b
           r == n % b
<1>1. q \in Nat /\ r \in Nat /\ n = q * b + r
  BY Z3
<1> HIDE DEF q, r
<1>2. ASSUME n >= b
      PROVE  q < n
  <2> SUFFICES ASSUME q >= n
               PROVE  FALSE
    BY <1>1
  <2>1. q * b >= q * 2 /\ q * b \in Nat
    BY <1>1
  <2> QED BY <1>1, <1>2, <2>1
<1> QED BY <1>1, <1>2 DEF q, r

\* The recursion of DigitsOf has a solution, which is what sprintf prints.
LEMMA DigitsAreRead ==
  ASSUME NEW base \in Nat, base > 1, NEW size \in Nat
  PROVE  /\ DigitsOf(base, size) \in Seq(Nat) /\ DigitsOf(base, size) # <<>>
         /\ ReadDigits(base, 0, DigitsOf(base, size)) = size
<1> DEFINE Step(f, m) ==
             [n \in 0..m |-> IF n < base THEN <<n>> ELSE Append(f[n \div base], n % base)]
           S == {m \in Nat : \E f : f = Step(f, m)}
<1>1. 0 \in S
  <2>1. [n \in 0..0 |-> <<n>>] = Step([n \in 0..0 |-> <<n>>], 0)
    OBVIOUS
  <2> QED BY <2>1
<1>2. \A m \in S : m + 1 \in S
  <2> SUFFICES ASSUME NEW m \in S
               PROVE  m + 1 \in Nat /\ \E g : g = Step(g, m + 1)
    OBVIOUS
  <2>1. m \in Nat
    OBVIOUS
  <2>2. PICK f : f = Step(f, m)
    OBVIOUS
  <2> DEFINE
    Digits(h, n) == IF n < base THEN <<n>> ELSE Append(h[n \div base], n % base)
    g == [n \in 0..(m + 1) |-> IF n = m + 1 THEN Digits(f, n) ELSE f[n]]
  <2>3. \A n \in 0..m : f[n] = Digits(f, n)
    BY <2>2
  <2> HIDE DEF Step, S
  <2>4. \A n \in 0..(m + 1) : n >= base => n \div base \in 0..m
    <3> SUFFICES ASSUME NEW n \in 0..(m + 1), n >= base
                 PROVE  n \div base \in 0..m
      OBVIOUS
    <3>1. n \in Nat
      BY <2>1
    <3>2. n \div base \in Nat /\ n \div base < n
      BY <3>1, DivisionIs
    <3> QED BY <2>1, <3>1, <3>2
  <2>5. \A n \in 0..m : g[n] = f[n]
    BY <2>1
  <2>6. \A n \in 0..(m + 1) : Digits(g, n) = Digits(f, n)
    <3> HIDE DEF g
    <3> QED BY <2>1, <2>4, <2>5
  <2>7. \A n \in 0..(m + 1) : g[n] = Digits(g, n)
    <3> SUFFICES ASSUME NEW n \in 0..(m + 1)
                 PROVE  g[n] = Digits(f, n)
      BY <2>6
    <3>1. n # m + 1 => n \in 0..m
      BY <2>1
    <3> HIDE DEF Digits
    <3> QED BY <2>3, <3>1
  <2>8. g = [n \in 0..(m + 1) |-> g[n]]
    OBVIOUS
  <2> HIDE DEF g
  <2>9. g = Step(g, m + 1)
    BY <2>7, <2>8 DEF Step
  <2> QED BY <2>1, <2>9
<1>3. S = Nat
  <2> HIDE DEF S
  <2>1. S \in SUBSET Nat
    BY DEF S
  <2> QED BY <1>1, <1>2, <2>1, SetInduction
<1>4. PICK f : f = Step(f, size) /\ DigitsOf(base, size) = f[size]
  <2> DEFINE f == CHOOSE f : f = Step(f, size)
  <2>1. \E g : g = Step(g, size)
    BY <1>3
  <2>2. DigitsOf(base, size) = f[size]
    BY DEF DigitsOf
  <2>3. f = Step(f, size)
    <3> HIDE DEF Step
    <3> QED BY <2>1
  <2> HIDE DEF f
  <2> QED BY <2>2, <2>3
<1>5. \A n \in 0..size : f[n] = IF n < base THEN <<n>> ELSE Append(f[n \div base], n % base)
  BY <1>4
<1> HIDE DEF Step
<1> DEFINE Good(n) == f[n] \in Seq(Nat) /\ f[n] # <<>> /\ ReadDigits(base, 0, f[n]) = n
           T == {n \in Nat : n <= size => Good(n)}
<1>6. ASSUME NEW n \in Nat, \A m \in Nat : m < n => m \in T, n <= size
      PROVE  Good(n)
  <2>0. f[n] = IF n < base THEN <<n>> ELSE Append(f[n \div base], n % base)
    <3>1. n \in 0..size
      BY <1>6
    <3> QED BY <1>5, <3>1
  <2>1. CASE n < base
    <3>1. f[n] = <<n>>
      BY <2>0, <2>1
    <3>2. <<n>> \in Seq(Nat) /\ <<n>> # <<>> /\ <<>> \in Seq(Nat) /\ <<n>> = Append(<<>>, n)
          /\ Len(<<>>) = 0
      OBVIOUS
    <3>3. ReadDigits(base, 0, <<>>) = 0
      <4>1. ASSUME NEW s \in Seq(Nat)
            PROVE  ValuesRead(base, 0, s)[0] = 0
        BY ValuesReadIs
      <4>2. ASSUME NEW s \in Seq(Nat), Len(s) = 0
            PROVE  ReadDigits(base, 0, s) = 0
        BY <4>1, <4>2 DEF ReadDigits
      <4> QED BY <3>2, <4>2
    <3>4. ReadDigits(base, 0, <<n>>) = 0 * base + n
      BY <3>2, <3>3, ReadOneMore, ZenonT(60)
    <3>5. 0 * base + n = n
      OBVIOUS
    <3> QED BY <3>1, <3>2, <3>4, <3>5
  <2>2. CASE ~(n < base)
    <3> DEFINE q == n \div base
    <3>1. /\ q \in Nat /\ n % base \in Nat /\ n = q * base + (n % base) /\ q < n
      BY <2>2, DivisionIs
    <3>2. f[n] = Append(f[q], n % base)
      BY <2>0, <2>2
    <3> HIDE DEF q
    <3>3. Good(q)
      BY <1>6, <3>1
    <3>4. f[n] \in Seq(Nat) /\ f[n] # <<>>
      <4>1. \A s \in Seq(Nat), d \in Nat : Append(s, d) \in Seq(Nat) /\ Append(s, d) # <<>>
        BY AppendProperties
      <4> QED BY <3>1, <3>2, <3>3, <4>1
    <3>5. ReadDigits(base, 0, f[n]) = q * base + (n % base)
      BY <3>1, <3>2, <3>3, ReadOneMore
    <3> QED BY <3>1, <3>4, <3>5
  <2> QED BY <2>1, <2>2
<1>7. T = Nat
  <2> HIDE DEF Good
  <2>1. \A n \in Nat : (\A m \in Nat : m < n => m \in T) => n \in T
    BY <1>6
  <2> HIDE DEF T
  <2>2. T \in SUBSET Nat
    BY DEF T
  <2> QED BY <2>1, <2>2, StrongSetInduction
<1>8. Good(size)
  <2> HIDE DEF Good
  <2> QED BY <1>7
<1> QED BY <1>4, <1>8
---------------------------------------------------------------------------------
(***************************************************************************)
(* The inductive invariant.                                                *)
(***************************************************************************)
Connections ==
  [digits : Seq(Nat), ok : BOOLEAN, size : Nat, cut : Nat, sent : Nat, closed : BOOLEAN]

\* What the connection has to offer so far.
ConnInv ==
  /\ conn \in Connections
  /\ ReadDigits(Base, 0, conn.digits) = conn.size
  /\ conn.sent <= HeaderLen + conn.size + (fed - conn.cut)
  /\ client_unix_sock = "server" => conns > 0 /\ pc \notin {"init", "connect", "nap"}

\* What the parser knows of it: that the size is known while there are digits left means
\* that no more has been read than the size line, and as much of it as makes the value so
\* far.
ParserInv ==
  IF server_buffer_size_known
  THEN /\ conns > 0 /\ conn.ok /\ consumed >= HeaderLen
       /\ server_buffer_size = conn.size
       /\ server_buffer_size_remain = IF consumed > HeaderLen + conn.size
                                      THEN 0 ELSE HeaderLen + conn.size - consumed
  ELSE client_unix_sock = "server" =>
         /\ consumed < HeaderLen
         /\ server_buffer_size = ValuesRead(Base, 0, conn.digits)[consumed]

\* The cut of the server's input up to which the client may have printed.
Reached ==
  IF consumed > HeaderLen + conn.size THEN conn.cut + (consumed - HeaderLen - conn.size)
                                      ELSE conn.cut

Elsewhere ==
  /\ \A i \in 1..Len(buffered) : buffered[i] <= conn.cut
  /\ \A i \in 1..Len(stdout) : stdout[i] <= Reached

\* The tail is printed first, and as soon as it is there.
TailFirst ==
  /\ ~tail_output => stdout = <<>> /\ ~broken
  /\ pc \in {"ask", "loop"} /\ clientconn_is_all_server_buffer_read => tail_output

\* After stdout broke nothing is read.
BrokenInv ==
  /\ broken => pc \notin {"init", "connect", "nap", "ask", "loop"}
  /\ broken /\ pc = "check" => error

ReadInv == TypeOK /\ ConnInv /\ ParserInv /\ Elsewhere /\ TailFirst /\ BrokenInv

\* Without -F there is one connection: what was read of its tail is in the tail buffer,
OneConn ==
  /\ pc \in {"init", "connect", "nap"} => conns = 0
  /\ conns = 0 => buffered = <<>>
  /\ conns > 0 /\ conn.ok /\ pc # "crashed" =>
       buffered = Bytes(HeaderLen, Least(consumed, HeaderLen + conn.size))

\* is printed before anything that follows is read,
TailPending ==
  ~tail_output =>
    /\ AllOfTailRead => consumed = HeaderLen + conn.size
    /\ AllOfTailRead /\ pc # "crashed" => pc = "check" /\ server_buffer_size_known

\* and printed with all that follows.
Wanted == OfferedTail \o Bytes(HeaderLen + conn.size, consumed)
TailPrinted ==
  tail_output =>
    /\ AllOfTailRead
    /\ IF broken THEN IsPrefix(stdout, Wanted) ELSE stdout = Wanted

OneInv == ~reopen_file /\ ~path_too_long => OneConn /\ TailPending /\ TailPrinted
---------------------------------------------------------------------------------
(***************************************************************************)
(* The connection.                                                         *)
(***************************************************************************)
LEMMA ConnFacts ==
  ASSUME TypeOK, ConnInv
  PROVE  /\ conn.digits \in Seq(Nat) /\ Len(conn.digits) \in Nat
         /\ HeaderLen = Len(conn.digits) + 1 /\ HeaderLen \in Nat
         /\ conn.size \in Nat /\ conn.cut \in Nat /\ conn.sent \in Nat /\ fed \in Nat
         /\ consumed \in Nat /\ MaxBytes \in Nat /\ conn.ok \in BOOLEAN
         /\ conn.size <= conn.cut /\ conn.cut <= fed /\ fed <= MaxBytes
         /\ consumed <= conn.sent
         /\ conn.sent <= HeaderLen + conn.size + (fed - conn.cut)
<1>1. conn \in Connections
  BY DEF ConnInv
<1>2. /\ conn.digits \in Seq(Nat) /\ conn.size \in Nat /\ conn.cut \in Nat
      /\ conn.sent \in Nat /\ conn.ok \in BOOLEAN
  BY <1>1 DEF Connections
<1>3. Len(conn.digits) \in Nat
  BY <1>2, LenProperties
<1>4. MaxBytes \in Nat
  BY ClientSizesAssumption
<1>5. fed \in 0..MaxBytes /\ conn.cut \in 0..fed /\ conn.size \in 0..conn.cut
      /\ consumed \in 0..conn.sent
  BY DEF TypeOK, WorldTypes
<1>6. conn.sent <= HeaderLen + conn.size + (fed - conn.cut)
  BY DEF ConnInv
<1> QED BY <1>2, <1>3, <1>4, <1>5, <1>6 DEF HeaderLen

\* Elements of the connection that are bytes.
LEMMA BytesAre ==
  ASSUME TypeOK, ConnInv, NEW S, NEW lo \in Nat, NEW hi \in Nat, lo <= hi,
         \A i \in 1..(hi - lo) : conn.cut - conn.size + lo + i - HeaderLen \in S
  PROVE  /\ Bytes(lo, hi) \in Seq(S) /\ Len(Bytes(lo, hi)) = hi - lo
         /\ \A i \in 1..(hi - lo) :
              Bytes(lo, hi)[i] = conn.cut - conn.size + lo + i - HeaderLen
<1> DEFINE at == conn.cut - conn.size + lo - HeaderLen
<1>1. at \in Int /\ hi - lo \in Nat
  BY ConnFacts
<1>2. \A i \in 1..(hi - lo) : at + i = conn.cut - conn.size + lo + i - HeaderLen
  BY ConnFacts, SMTT(40)
<1>3. Bytes(lo, hi) = [i \in 1..(hi - lo) |-> at + i]
  BY <1>2 DEF Bytes
<1> HIDE DEF at
<1>4. \A i \in 1..(hi - lo) : at + i \in S
  BY <1>2
<1> QED BY <1>1, <1>2, <1>3, <1>4, Stretch

\* Those of the tail, and those that follow it.
LEMMA TailBytes ==
  ASSUME TypeOK, ConnInv, NEW lo \in Nat, NEW hi \in Nat, lo <= hi,
         HeaderLen <= lo, hi <= HeaderLen + conn.size
  PROVE  /\ Bytes(lo, hi) \in Seq(1..conn.cut) /\ Bytes(lo, hi) \in Seq(1..MaxBytes)
         /\ Len(Bytes(lo, hi)) = hi - lo
         /\ \A i \in 1..(hi - lo) :
              Bytes(lo, hi)[i] = conn.cut - conn.size + lo + i - HeaderLen
<1>1. ASSUME NEW i \in 1..(hi - lo)
      PROVE  /\ conn.cut - conn.size + lo + i - HeaderLen \in Nat \ {0}
             /\ conn.cut - conn.size + lo + i - HeaderLen <= conn.cut
             /\ conn.cut <= MaxBytes
  <2>1. i \in Nat /\ 1 <= i /\ i <= hi - lo
    OBVIOUS
  <2>2. /\ HeaderLen \in Nat /\ conn.size \in Nat /\ conn.cut \in Nat /\ fed \in Nat
        /\ MaxBytes \in Nat /\ conn.sent \in Nat
        /\ conn.size <= conn.cut /\ conn.cut <= fed /\ fed <= MaxBytes
        /\ conn.sent <= HeaderLen + conn.size + (fed - conn.cut)
    BY ConnFacts
  <2> QED BY <2>1, <2>2
<1>2. /\ \A i \in 1..(hi - lo) : conn.cut - conn.size + lo + i - HeaderLen \in 1..conn.cut
      /\ \A i \in 1..(hi - lo) : conn.cut - conn.size + lo + i - HeaderLen \in 1..MaxBytes
  <2>1. conn.cut \in Nat /\ MaxBytes \in Nat
    BY ConnFacts
  <2> QED BY <1>1, <2>1
<1> QED BY <1>2, BytesAre, ZenonT(60)

LEMMA LaterBytes ==
  ASSUME TypeOK, ConnInv, NEW lo \in Nat, NEW hi \in Nat, lo <= hi,
         HeaderLen + conn.size <= lo, hi <= conn.sent
  PROVE  /\ Bytes(lo, hi) \in Seq(1..MaxBytes) /\ Len(Bytes(lo, hi)) = hi - lo
         /\ \A i \in 1..(hi - lo) :
              Bytes(lo, hi)[i] = conn.cut + (lo - HeaderLen - conn.size) + i
<1>1. ASSUME NEW i \in 1..(hi - lo)
      PROVE  /\ conn.cut - conn.size + lo + i - HeaderLen \in 1..MaxBytes
             /\ conn.cut - conn.size + lo + i - HeaderLen
                  = conn.cut + (lo - HeaderLen - conn.size) + i
  <2>1. i \in Nat /\ 1 <= i /\ i <= hi - lo
    OBVIOUS
  <2>2. /\ HeaderLen \in Nat /\ conn.size \in Nat /\ conn.cut \in Nat /\ fed \in Nat
        /\ MaxBytes \in Nat /\ conn.sent \in Nat
        /\ conn.size <= conn.cut /\ conn.cut <= fed /\ fed <= MaxBytes
        /\ conn.sent <= HeaderLen + conn.size + (fed - conn.cut)
    BY ConnFacts
  <2> QED BY <2>1, <2>2
<1> QED BY <1>1, BytesAre, ZenonT(60)

\* The last of a sequence of bytes are its end.
LEMMA LastUnitsIs ==
  ASSUME TypeOK, NEW S \in SUBSET Nat, NEW s \in Seq(S)
  PROVE  /\ LastUnits(s) \in Seq(S)
         /\ \E c \in 0..Len(s) :
              /\ Len(LastUnits(s)) = Len(s) - c
              /\ \A i \in 1..(Len(s) - c) : LastUnits(s)[i] = s[c + i]
<1> DEFINE nl == {i \in DOMAIN s : s[i] \in newlines}
           c == TailStart(count_lines, n_units, nl, Len(s))
<1>1. Len(s) \in Nat /\ DOMAIN s = 1..Len(s)
  BY LenProperties
<1>2. nl \in SUBSET Int /\ IsFiniteSet(nl)
  <2>1. nl \in SUBSET (1..Len(s))
    BY <1>1
  <2>2. IsFiniteSet(1..Len(s))
    BY <1>1, FS_Interval
  <2>3. IsFiniteSet(nl)
    <3> HIDE DEF nl
    <3> QED BY <2>1, <2>2, FS_Subset
  <2> QED BY <1>1, <2>1, <2>3
<1>3. count_lines \in BOOLEAN /\ n_units \in Nat
  BY ClientOptionsAssumption DEF TypeOK, FlagTypes, ControlTypes
<1>4. c \in 0..Len(s)
  <2> HIDE DEF nl
  <2> QED BY <1>1, <1>2, <1>3, TailStartDefined
<1>5. LastUnits(s) = SubSeq(s, c + 1, Len(s))
  BY DEF LastUnits
<1> HIDE DEF c
<1>6. \A i \in (c + 1)..Len(s) : s[i] \in S
  BY <1>1, <1>4, ElementOfSeq
<1>7. /\ SubSeq(s, c + 1, Len(s)) \in Seq(S)
      /\ Len(SubSeq(s, c + 1, Len(s))) = Len(s) - c
      /\ \A i \in 1..(Len(s) - c) : SubSeq(s, c + 1, Len(s))[i] = s[c + i]
  <2> SUFFICES ASSUME NEW m \in Nat, m = Len(s)
               PROVE  /\ SubSeq(s, c + 1, m) \in Seq(S) /\ Len(SubSeq(s, c + 1, m)) = m - c
                      /\ \A i \in 1..(m - c) : SubSeq(s, c + 1, m)[i] = s[c + i]
    BY <1>1
  <2>1. c \in Nat /\ c <= m /\ m <= Len(s)
    BY <1>1, <1>4
  <2>2. \A i \in (c + 1)..m : s[i] \in S
    BY <1>6
  <2> QED BY <2>1, <2>2, SubSeqProperties
<1> QED BY <1>4, <1>5, <1>7

\* A read of the size line stays within the tail, and reads on from the value so far.
LEMMA ReadingOn ==
  ASSUME TypeOK, ConnInv, ParserInv, client_unix_sock = "server",
         ~server_buffer_size_known,
         NEW n \in 1..Least(Least(SafeToRead, ReadSize), Available)
  PROVE  LET digits == SubSeq(conn.digits, consumed + 1,
                              Least(consumed + n, Len(conn.digits)))
             value == ReadDigits(Base, server_buffer_size, digits)
         IN  /\ n \in Nat \ {0} /\ consumed + n <= conn.sent
             /\ consumed < HeaderLen /\ consumed + n <= HeaderLen + conn.size
             /\ value \in Nat /\ value <= conn.size
             /\ consumed + n < HeaderLen =>
                  value = ValuesRead(Base, 0, conn.digits)[consumed + n]
             /\ consumed + n >= HeaderLen => value = conn.size
<1> DEFINE s == conn.digits
           v == ValuesRead(Base, 0, s)
           m == Least(consumed + n, Len(s))
           value == ReadDigits(Base, server_buffer_size, SubSeq(s, consumed + 1, m))
<1>1. /\ s \in Seq(Nat) /\ Len(s) \in Nat /\ HeaderLen = Len(s) + 1
      /\ consumed \in Nat /\ conn.sent \in Nat /\ conn.size \in Nat
  BY ConnFacts
<1>2. consumed < HeaderLen /\ server_buffer_size = v[consumed]
  BY DEF ParserInv
<1>3. server_buffer_size \in Nat /\ ReadSize \in Nat /\ Base \in Nat \ {0}
  BY ClientSizesAssumption DEF TypeOK, DataTypes
<1>4. n \in Nat \ {0} /\ n <= server_buffer_size + 1 /\ n <= conn.sent - consumed
  BY <1>1, <1>3 DEF Least, SafeToRead, Available
<1>5. consumed \in 0..Len(s)
  BY <1>1, <1>2
<1>6. m \in consumed..Len(s) /\ m \in 0..Len(s)
      /\ (consumed + n < HeaderLen => m = consumed + n)
      /\ (consumed + n >= HeaderLen => m = Len(s))
  <2>1. m = IF consumed + n < Len(s) THEN consumed + n ELSE Len(s)
    BY DEF Least
  <2>2. consumed <= Len(s)
    BY <1>1, <1>5
  <2> HIDE DEF m, s
  <2> QED BY <1>1, <1>4, <2>1, <2>2
<1>7. conn.size = ReadDigits(Base, 0, s) /\ conn.size = v[Len(s)]
  BY DEF ConnInv, ReadDigits
<1>8. \A k \in 0..Len(s) : v[k] \in Nat /\ v[k] <= conn.size
  <2>1. \A k \in 0..Len(s) : v[k] \in Nat
    BY <1>1, <1>3, ValuesReadIs
  <2>2. \A k \in 0..Len(s) : v[k] <= ReadDigits(Base, 0, s)
    BY <1>1, <1>3, ValuesReadGrow
  <2> QED BY <1>7, <2>1, <2>2
<1> HIDE DEF m
<1>9. value = v[m]
  <2>1. ReadDigits(Base, v[consumed], SubSeq(s, consumed + 1, m)) = v[m]
    BY <1>1, <1>3, <1>5, <1>6, ReadingGoesOn
  <2> QED BY <1>2, <2>1
<1>10. value \in Nat /\ value <= conn.size
  BY <1>6, <1>8, <1>9
<1>11. server_buffer_size <= conn.size
  BY <1>2, <1>5, <1>8
<1>12. consumed + n <= HeaderLen + conn.size /\ consumed + n <= conn.sent
  BY <1>1, <1>3, <1>4, <1>5, <1>11, SMTT(40)
<1>13. /\ consumed + n < HeaderLen => value = v[consumed + n]
       /\ consumed + n >= HeaderLen => value = conn.size
  BY <1>6, <1>7, <1>9
<1> QED BY <1>2, <1>4, <1>10, <1>12, <1>13 DEF m
---------------------------------------------------------------------------------
(***************************************************************************)
(* The steps.                                                              *)
(***************************************************************************)
\* What no step can break.
LEMMA StepFlags ==
  ASSUME FlagTypes, ControlTypes, [Next]_vars
  PROVE  UNCHANGED options /\ FlagTypes' /\ ControlTypes'
<1> USE DEF options
<1>1. CASE ClientStep
  <2> USE DEF FlagTypes, ControlTypes, parser, tailbuf, output, ending, world, Fails
  <2>1. CASE init_all
    BY <2>1 DEF init_all
  <2>2. CASE Connect
    BY <2>2 DEF Connect, clientconn_connect, ResetParser, Connected
  <2>3. CASE ConnectTooLong
    BY <2>3 DEF ConnectTooLong, ResetParser, Connected
  <2>4. CASE ConnectFails
    BY <2>4 DEF ConnectFails, ResetParser
  <2>5. CASE Wake
    BY <2>5 DEF Wake
  <2>6. CASE Ask
    BY <2>6 DEF Ask
  <2>7. CASE ReadSizeLine
    <3>1. /\ UNCHANGED <<options, tail_output, broken, ending, accessible>>
          /\ pc' \in {"check", "crashed"} /\ client_unix_sock' \in {client_unix_sock, INVALID_SOCKET}
          /\ server_buffer_size_known' \in {server_buffer_size_known, TRUE}
          /\ append' \in {append, FALSE} /\ error' \in {error, TRUE}
      BY <2>7 DEF ReadSizeLine, BufferAppend
    <3> QED BY <3>1, ZenonT(60)
  <2>8. CASE ReadTail
    <3>1. /\ UNCHANGED <<options, tail_output, broken, ending, accessible, client_unix_sock,
                         server_buffer_size_known>>
          /\ pc' = "check" /\ append' \in {append, FALSE} /\ error' \in {error, TRUE}
      BY <2>8 DEF ReadTail, BufferAppend
    <3> QED BY <3>1, ZenonT(60)
  <2>9. CASE ReadFollow
    <3>1. /\ UNCHANGED <<options, tail_output, ending, accessible, client_unix_sock,
                         server_buffer_size_known, append>>
          /\ pc' = "check" /\ broken' \in {broken, TRUE} /\ error' \in {error, TRUE}
      BY <2>9 DEF ReadFollow, ClientWrite
    <3> QED BY <3>1, ZenonT(60)
  <2>10. CASE ReadEnds
    BY <2>10, ZenonT(60) DEF ReadEnds
  <2>11. CASE ReadIntoNull
    BY <2>11 DEF ReadIntoNull
  <2>12. CASE Check
    <3>1. /\ UNCHANGED <<options, ending, accessible, server_buffer_size_known, append>>
          /\ pc' \in {"retry", "loop"}
          /\ client_unix_sock' \in {client_unix_sock, INVALID_SOCKET}
          /\ tail_output' \in {tail_output, TRUE}
          /\ broken' \in {broken, TRUE} /\ error' \in {error, TRUE}
      BY <2>12 DEF Check, ClientWrite
    <3> QED BY <3>1, ZenonT(60)
  <2>13. CASE Retry
    BY <2>13 DEF Retry
  <2>14. CASE libev_error_handler
    BY <2>14 DEF libev_error_handler
  <2>15. CASE final_all
    BY <2>15 DEF final_all
  <2>16. CASE close_stdout
    BY <2>16 DEF close_stdout
  <2> QED BY <1>1, <2>1, <2>2, <2>3, <2>4, <2>5, <2>6, <2>7, <2>8, <2>9, <2>10, <2>11,
             <2>12, <2>13, <2>14, <2>15, <2>16 DEF ClientStep
<1>2. CASE sigint_cb
  BY <1>2 DEF sigint_cb, FlagTypes, ControlTypes, parser, tailbuf, output, world
<1>3. CASE Feed \/ Send \/ Hangup \/ FileChanges
  BY <1>3 DEF Feed, Send, Hangup, FileChanges, FlagTypes, ControlTypes, parser, tailbuf,
       output, ending, world
<1>4. CASE UNCHANGED vars
  BY <1>4 DEF vars, FlagTypes, ControlTypes, parser, tailbuf, output, ending, world
<1> QED BY <1>1, <1>2, <1>3, <1>4 DEF Next

LEMMA FailuresStep ==
  ASSUME failures \in 0..MaxFailures, [Next]_vars
  PROVE  failures' \in 0..MaxFailures
<1>1. MaxFailures \in Nat
  BY ClientSizesAssumption
<1>2. Fails => failures' \in 0..MaxFailures
  BY <1>1 DEF Fails
<1>3. failures' = failures \/ Fails
  <2>1. CASE ClientStep
    BY <2>1 DEF ClientStep, init_all, Connect, clientconn_connect, ConnectTooLong,
         ConnectFails, Wake, Ask, ReadSizeLine, ReadTail, BufferAppend, ReadFollow,
         ClientWrite, ReadEnds, ReadIntoNull, Check, Retry, libev_error_handler,
         final_all, close_stdout
  <2>2. CASE sigint_cb \/ Feed \/ Send \/ Hangup \/ FileChanges
    BY <2>2 DEF sigint_cb, Feed, Send, Hangup, FileChanges
  <2>3. CASE UNCHANGED vars
    BY <2>3 DEF vars
  <2> QED BY <2>1, <2>2, <2>3 DEF Next
<1> QED BY <1>2, <1>3

\* Steps that neither read, print nor connect: the server may send more, or the client
\* disconnect.
LEMMA QuietStep ==
  ASSUME ReadInv,
         UNCHANGED <<server_buffer_size_known, server_buffer_size, buffered, stdout,
                     conns, consumed>>,
         server_buffer_size_remain' \in 0..MaxBytes,
         server_buffer_size_known =>
           server_buffer_size_remain' = server_buffer_size_remain,
         client_unix_sock' = "server" =>
           client_unix_sock = "server" /\ pc' \notin {"init", "connect", "nap"},
         failures' \in 0..MaxFailures,
         fed' \in fed..MaxBytes,
         NEW more \in Nat, NEW closed \in BOOLEAN,
         conn' = [conn EXCEPT !.sent = @ + more, !.closed = closed],
         more > 0 => conn.sent + more <= HeaderLen + conn.size + (fed - conn.cut)
  PROVE  DataTypes' /\ WorldTypes' /\ ConnInv' /\ ParserInv' /\ Elsewhere'
<1>0. TypeOK /\ ConnInv /\ ParserInv /\ Elsewhere
  BY DEF ReadInv
<1>1. conn \in Connections
  BY <1>0 DEF ConnInv
<1>2. /\ conn' \in Connections /\ conn'.digits = conn.digits /\ conn'.ok = conn.ok
      /\ conn'.size = conn.size /\ conn'.cut = conn.cut /\ conn'.sent = conn.sent + more
  <2>1. conn.sent + more \in Nat
    BY <1>0, ConnFacts, SMTT(40)
  <2> QED BY <1>1, <2>1 DEF Connections
<1>3. HeaderLen' = HeaderLen
  BY <1>2 DEF HeaderLen
<1>4. DataTypes'
  BY <1>0 DEF TypeOK, DataTypes
<1>5. WorldTypes'
  <2>1. /\ conns \in 0..MaxConns /\ fed \in 0..MaxBytes /\ conn.cut \in 0..fed
        /\ conn.size \in 0..conn.cut /\ consumed \in 0..conn.sent
    BY <1>0 DEF TypeOK, WorldTypes
  <2>2. conn.sent \in Nat /\ conn.cut \in Nat /\ fed \in Nat /\ MaxBytes \in Nat
    BY <1>0, ConnFacts
  <2>3. fed' \in 0..MaxBytes /\ conn.cut \in 0..(fed') /\ consumed \in 0..(conn.sent + more)
    BY <2>1, <2>2
  <2> QED BY <1>2, <2>1, <2>3 DEF WorldTypes
<1>6. ConnInv'
  <2>1. /\ conn.sent \in Nat /\ conn.cut \in Nat /\ fed \in Nat /\ conn.size \in Nat
        /\ HeaderLen \in Nat /\ MaxBytes \in Nat
        /\ conn.sent <= HeaderLen + conn.size + (fed - conn.cut)
    BY <1>0, ConnFacts
  <2>2. conn.sent + more <= HeaderLen + conn.size + (fed' - conn.cut)
    BY <2>1
  <2>3. conns > 0 \/ client_unix_sock # "server"
    BY <1>0 DEF ConnInv
  <2>4. ReadDigits(Base, 0, conn.digits) = conn.size
    BY <1>0 DEF ConnInv
  <2> QED BY <1>2, <1>3, <2>2, <2>3, <2>4 DEF ConnInv
<1>7. ParserInv'
  <2>1. CASE server_buffer_size_known
    BY <1>0, <1>2, <1>3, <2>1 DEF ParserInv
  <2>2. CASE ~server_buffer_size_known
    BY <1>0, <1>2, <1>3, <2>2 DEF ParserInv
  <2> QED BY <2>1, <2>2
<1>8. Elsewhere'
  <2>1. Reached' = Reached
    BY <1>2, <1>3 DEF Reached
  <2> QED BY <1>0, <1>2, <2>1 DEF Elsewhere
<1> QED BY <1>4, <1>5, <1>6, <1>7, <1>8

\* Before a connection nothing is known of its size.
LEMMA ResetStep ==
  ASSUME ReadInv, ResetParser, UNCHANGED <<buffered, stdout, fed, conn, conns, consumed>>,
         client_unix_sock' # "server", failures' \in 0..MaxFailures
  PROVE  DataTypes' /\ WorldTypes' /\ ConnInv' /\ ParserInv' /\ Elsewhere'
<1>0. TypeOK /\ ConnInv /\ Elsewhere
  BY DEF ReadInv
<1>1. DataTypes'
  BY <1>0, ClientSizesAssumption DEF TypeOK, DataTypes, ResetParser
<1>2. WorldTypes'
  BY <1>0 DEF TypeOK, WorldTypes
<1>3. ConnInv' /\ ParserInv'
  BY <1>0 DEF ConnInv, ParserInv, HeaderLen, ResetParser
<1>4. Elsewhere'
  BY <1>0 DEF Elsewhere, Reached, HeaderLen
<1> QED BY <1>1, <1>2, <1>3, <1>4

LEMMA ConnectStep ==
  ASSUME ReadInv, Connect, failures' \in 0..MaxFailures
  PROVE  DataTypes' /\ WorldTypes' /\ ConnInv' /\ ParserInv' /\ Elsewhere'
<1>0. TypeOK /\ ConnInv /\ Elsewhere
  BY DEF ReadInv
<1>1. PICK max \in Tails, ok \in Sane :
        conn' = [digits |-> DigitsOf(Base, Least(fed, max)), ok |-> ok,
                 size |-> Least(fed, max), cut |-> fed, sent |-> 0, closed |-> FALSE]
  BY DEF Connect
<1> DEFINE size == Least(fed, max)
           digits == DigitsOf(Base, size)
<1>2. fed \in Nat /\ max \in Nat /\ ok \in BOOLEAN /\ size \in 0..fed
  <2>1. fed \in Nat /\ max \in Nat /\ ok \in BOOLEAN
    BY <1>0, ConnFacts, ClientOptionsAssumption
  <2> QED BY <2>1 DEF Least
<1>3. digits \in Seq(Nat) /\ digits # <<>> /\ ReadDigits(Base, 0, digits) = size
  <2>1. Base \in Nat /\ Base > 1 /\ size \in Nat
    BY <1>2, ClientSizesAssumption
  <2> HIDE DEF size
  <2> QED BY <2>1, DigitsAreRead
<1> HIDE DEF size, digits
<1>4. conn' = [digits |-> digits, ok |-> ok, size |-> size, cut |-> fed, sent |-> 0,
               closed |-> FALSE]
  BY <1>1 DEF size, digits
<1>5. /\ conn'.digits = digits /\ conn'.ok = ok /\ conn'.size = size /\ conn'.cut = fed
      /\ conn'.sent = 0 /\ conn' \in Connections
  BY <1>2, <1>3, <1>4 DEF Connections
<1>6. /\ server_buffer_size_known' = FALSE /\ server_buffer_size' = 0
      /\ server_buffer_size_remain' = 0 /\ consumed' = 0 /\ conns' = conns + 1
      /\ conns < MaxConns /\ UNCHANGED <<buffered, stdout, fed>>
      /\ client_unix_sock' = "server" /\ pc' \in {"loop", "ask"}
  BY DEF Connect, clientconn_connect, ResetParser, Connected, tailbuf, output
<1>7. /\ fed \in 0..MaxBytes /\ conns \in 0..MaxConns /\ MaxConns \in Nat /\ MaxBytes \in Nat
  BY <1>0, ClientSizesAssumption DEF TypeOK, WorldTypes
<1>8. Len(digits) \in Nat
  BY <1>3, LenProperties
<1>9. HeaderLen' = Len(digits) + 1 /\ HeaderLen' \in Nat \ {0}
  BY <1>5, <1>8 DEF HeaderLen
<1>10. DataTypes'
  BY <1>0, <1>6, <1>7 DEF TypeOK, DataTypes
<1>11. WorldTypes'
  BY <1>2, <1>5, <1>6, <1>7 DEF WorldTypes
<1>12. ConnInv'
  <2>1. conn'.sent <= HeaderLen' + conn'.size + (fed' - conn'.cut)
    BY <1>2, <1>5, <1>6, <1>9
  <2>2. conns' > 0 /\ pc' \notin {"init", "connect", "nap"}
    BY <1>6, <1>7
  <2> QED BY <1>3, <1>5, <2>1, <2>2 DEF ConnInv
<1>13. ParserInv'
  <2>1. ValuesRead(Base, 0, digits)[0] = 0
    BY <1>3, ClientSizesAssumption, ValuesReadIs
  <2>2. consumed' < HeaderLen' /\ consumed' = 0
    BY <1>6, <1>9
  <2> QED BY <1>5, <1>6, <2>1, <2>2 DEF ParserInv
<1>14. Elsewhere'
  <2>1. Reached' = fed
    <3>1. ~(0 > HeaderLen' + size)
      BY <1>2, <1>9
    <3> QED BY <1>5, <1>6, <3>1 DEF Reached
  <2>2. conn.cut <= fed /\ Reached <= fed /\ conn.cut \in Nat /\ Reached \in Int
    <3>1. /\ HeaderLen \in Nat /\ conn.size \in Nat /\ conn.cut \in Nat /\ fed \in Nat
          /\ consumed \in Nat /\ conn.sent \in Nat /\ conn.cut <= fed
          /\ consumed <= conn.sent
          /\ conn.sent <= HeaderLen + conn.size + (fed - conn.cut)
      BY <1>0, ConnFacts
    <3> QED BY <3>1 DEF Reached
  <2>3. ASSUME NEW i \in 1..Len(buffered)
        PROVE  buffered[i] <= fed
    <3>1. buffered[i] <= conn.cut /\ buffered[i] \in 1..MaxBytes
      BY <1>0, ElementOfSeq DEF TypeOK, DataTypes, Elsewhere
    <3> QED BY <1>2, <1>7, <2>2, <3>1
  <2>4. ASSUME NEW i \in 1..Len(stdout)
        PROVE  stdout[i] <= fed
    <3>1. stdout[i] <= Reached /\ stdout[i] \in 1..MaxBytes
      BY <1>0, ElementOfSeq DEF TypeOK, DataTypes, Elsewhere
    <3> QED BY <1>2, <1>7, <2>2, <3>1
  <2> QED BY <1>5, <1>6, <2>1, <2>3, <2>4 DEF Elsewhere
<1> QED BY <1>10, <1>11, <1>12, <1>13, <1>14

\* Bytes after others, with none of either above some bound.
LEMMA Added ==
  ASSUME NEW m \in Nat, NEW s \in Seq(1..m), NEW t \in Seq(1..m), NEW b \in Int,
         \A i \in 1..Len(s) : s[i] <= b, \A i \in 1..Len(t) : t[i] <= b
  PROVE  s \o t \in Seq(1..m) /\ \A i \in 1..Len(s \o t) : (s \o t)[i] <= b
<1>1. /\ s \o t \in Seq(1..m) /\ Len(s \o t) = Len(s) + Len(t)
      /\ \A i \in 1..(Len(s) + Len(t)) :
           (s \o t)[i] = IF i <= Len(s) THEN s[i] ELSE t[i - Len(s)]
      /\ Len(s) \in Nat /\ Len(t) \in Nat
  BY ConcatProperties, LenProperties
<1>2. ASSUME NEW i \in 1..(Len(s) + Len(t))
      PROVE  (s \o t)[i] <= b
  <2>1. i <= Len(s) => i \in 1..Len(s)
    BY <1>1
  <2>2. ~(i <= Len(s)) => i - Len(s) \in 1..Len(t)
    BY <1>1
  <2> QED BY <1>1, <2>1, <2>2
<1> QED BY <1>1, <1>2

\* What ClientWrite adds to stdout.
LEMMA Printed ==
  ASSUME NEW bytes \in Seq(1..MaxBytes), ClientWrite(bytes)
  PROVE  \E n \in 0..Len(bytes) :
           /\ stdout' = stdout \o SubSeq(bytes, 1, n)
           /\ SubSeq(bytes, 1, n) \in Seq(1..MaxBytes) /\ Len(SubSeq(bytes, 1, n)) = n
           /\ \A i \in 1..n : SubSeq(bytes, 1, n)[i] = bytes[i]
           /\ \/ n = Len(bytes) /\ UNCHANGED <<broken, error>>
              \/ broken' = TRUE /\ error' = TRUE
<1>1. Len(bytes) \in Nat
  BY LenProperties
<1>2. PICK n \in 0..Len(bytes) :
        /\ stdout' = stdout \o SubSeq(bytes, 1, n)
        /\ \/ n = Len(bytes) /\ UNCHANGED <<broken, error>>
           \/ broken' = TRUE /\ error' = TRUE
  <2>1. CASE stdout' = stdout \o bytes /\ UNCHANGED <<broken, error, failures>>
    <3>1. SubSeq(bytes, 1, Len(bytes)) = bytes /\ Len(bytes) \in 0..Len(bytes)
      BY <1>1, SubSeqFull
    <3> QED BY <2>1, <3>1
  <2>2. CASE ~(stdout' = stdout \o bytes /\ UNCHANGED <<broken, error, failures>>)
    <3>1. PICK n \in 0..(Len(bytes) - 1) : stdout' = stdout \o SubSeq(bytes, 1, n)
      BY <2>2 DEF ClientWrite
    <3>2. broken' = TRUE /\ error' = TRUE
      BY <2>2 DEF ClientWrite
    <3>3. n \in 0..Len(bytes)
      BY <1>1
    <3> QED BY <3>1, <3>2, <3>3
  <2> QED BY <2>1, <2>2
<1>3. \A i \in 1..n : bytes[i] \in 1..MaxBytes
  <2>1. \A i \in 1..n : i \in 1..Len(bytes)
    BY <1>1
  <2> QED BY <2>1, ElementOfSeq
<1>4. /\ SubSeq(bytes, 1, n) \in Seq(1..MaxBytes) /\ Len(SubSeq(bytes, 1, n)) = n
      /\ \A i \in 1..n : SubSeq(bytes, 1, n)[i] = bytes[i]
  <2>1. n \in Nat /\ n <= Len(bytes)
    BY <1>1
  <2> QED BY <1>1, <1>3, <2>1, SubSeqProperties
<1> QED BY <1>2, <1>4

LEMMA ReadSizeLineStep ==
  ASSUME ReadInv, ReadSizeLine, failures' \in 0..MaxFailures
  PROVE  DataTypes' /\ WorldTypes' /\ ConnInv' /\ ParserInv' /\ Elsewhere'
<1>0. TypeOK /\ ConnInv /\ ParserInv /\ Elsewhere
  BY DEF ReadInv
<1>1. Reading /\ ~server_buffer_size_known /\ UNCHANGED <<output, world>>
      /\ pc' \in {"check", "crashed"}
  BY DEF ReadSizeLine
<1> DEFINE Digits(n) == SubSeq(conn.digits, consumed + 1, Least(consumed + n, Len(conn.digits)))
           Value(n) == ReadDigits(Base, server_buffer_size, Digits(n))
           Rest(n) == Bytes(HeaderLen, consumed + n)
<1>2. PICK n \in 1..Least(Least(SafeToRead, ReadSize), Available) :
        /\ consumed' = consumed + n
        /\ server_buffer_size' = Value(n)
        /\ \/ /\ consumed + n < HeaderLen
              /\ UNCHANGED <<client_unix_sock, server_buffer_size_known,
                             server_buffer_size_remain, tailbuf>>
           \/ /\ consumed + n >= HeaderLen /\ conn.ok
              /\ server_buffer_size_known' = TRUE
              /\ server_buffer_size_remain' =
                   IF Value(n) >= Len(Rest(n)) THEN Value(n) - Len(Rest(n)) ELSE 0
              /\ BufferAppend(Rest(n)) \/ UNCHANGED tailbuf
              /\ UNCHANGED client_unix_sock
           \/ /\ consumed + n >= HeaderLen
              /\ client_unix_sock' = INVALID_SOCKET
              /\ UNCHANGED <<server_buffer_size_known, server_buffer_size_remain, tailbuf>>
  BY DEF ReadSizeLine
<1>3. /\ n \in Nat \ {0} /\ consumed + n <= conn.sent
      /\ consumed < HeaderLen /\ consumed + n <= HeaderLen + conn.size
      /\ Value(n) \in Nat /\ Value(n) <= conn.size
      /\ consumed + n < HeaderLen => Value(n) = ValuesRead(Base, 0, conn.digits)[consumed + n]
      /\ consumed + n >= HeaderLen => Value(n) = conn.size
  BY <1>0, <1>1, ReadingOn DEF Reading
<1> DEFINE value == Value(n)
           rest == Rest(n)
<1> HIDE DEF Value
<1>4. /\ HeaderLen \in Nat /\ conn.size \in Nat /\ conn.cut \in Nat /\ consumed \in Nat
      /\ conn.sent \in Nat /\ MaxBytes \in Nat /\ conn.size <= conn.cut /\ conn.cut <= fed
      /\ fed \in Nat /\ fed <= MaxBytes
  BY <1>0, ConnFacts
<1>5. ASSUME consumed + n >= HeaderLen
      PROVE  /\ rest \in Seq(1..MaxBytes) /\ Len(rest) = consumed + n - HeaderLen
             /\ \A i \in 1..Len(rest) : rest[i] <= conn.cut
  <2>1. /\ rest \in Seq(1..conn.cut) /\ rest \in Seq(1..MaxBytes)
        /\ Len(rest) = consumed + n - HeaderLen
    BY <1>0, <1>3, <1>4, <1>5, TailBytes
  <2> HIDE DEF rest
  <2>2. \A i \in 1..Len(rest) : rest[i] \in 1..conn.cut
    BY <2>1, ElementOfSeq
  <2> QED BY <1>4, <2>1, <2>2
<1> HIDE DEF rest
<1>6. /\ UNCHANGED <<conn, conns, fed, stdout>> /\ HeaderLen' = HeaderLen
  BY <1>1 DEF world, output, HeaderLen
<1>7. /\ buffered' \in Seq(1..MaxBytes)
      /\ \A i \in 1..Len(buffered') : buffered'[i] <= conn.cut
  <2>1. /\ buffered \in Seq(1..MaxBytes)
        /\ \A i \in 1..Len(buffered) : buffered[i] <= conn.cut
    BY <1>0 DEF TypeOK, DataTypes, Elsewhere
  <2>2. CASE UNCHANGED tailbuf
    BY <2>1, <2>2 DEF tailbuf
  <2>3. CASE consumed + n >= HeaderLen /\ buffered' = buffered \o rest
    BY <1>4, <1>5, <2>1, <2>3, Added
  <2> QED BY <1>2, <2>2, <2>3 DEF BufferAppend, rest
<1>8. DataTypes'
  <2>1. value \in 0..MaxBytes
    BY <1>3, <1>4
  <2>2. server_buffer_size_remain' \in 0..MaxBytes
    <3>1. CASE UNCHANGED server_buffer_size_remain
      BY <1>0, <3>1 DEF TypeOK, DataTypes
    <3>2. CASE /\ consumed + n >= HeaderLen
               /\ server_buffer_size_remain' = IF value >= Len(rest) THEN value - Len(rest)
                                                                     ELSE 0
      <4>1. Len(rest) \in Nat
        BY <1>3, <1>4, <1>5, <3>2
      <4> QED BY <1>3, <1>4, <3>2, <4>1
    <3> QED BY <1>2, <3>1, <3>2 DEF rest
  <2> QED BY <1>0, <1>2, <1>6, <1>7, <2>1, <2>2 DEF TypeOK, DataTypes
<1>9. WorldTypes'
  <2>1. consumed + n \in 0..conn.sent
    BY <1>3, <1>4
  <2> QED BY <1>0, <1>2, <1>6, <2>1 DEF TypeOK, WorldTypes
<1>10. ConnInv' /\ conns > 0
  BY <1>0, <1>1, <1>6 DEF ConnInv, Reading
<1>11. ParserInv'
  <2>1. CASE consumed + n < HeaderLen /\ UNCHANGED server_buffer_size_known
    BY <1>1, <1>2, <1>3, <1>6, <2>1 DEF ParserInv
  <2>2. CASE client_unix_sock' # "server" /\ UNCHANGED server_buffer_size_known
    BY <1>1, <2>2 DEF ParserInv
  <2>3. CASE /\ consumed + n >= HeaderLen /\ conn.ok
             /\ server_buffer_size_known' = TRUE
             /\ server_buffer_size_remain' =
                  IF value >= Len(rest) THEN value - Len(rest) ELSE 0
    <3>1. value = conn.size /\ Len(rest) = consumed + n - HeaderLen
      BY <1>3, <1>5, <2>3
    <3>2. server_buffer_size_remain' =
            IF consumed + n > HeaderLen + conn.size THEN 0
                                                    ELSE HeaderLen + conn.size - (consumed + n)
      BY <1>3, <1>4, <2>3, <3>1
    <3> QED BY <1>2, <1>6, <1>10, <2>3, <3>1, <3>2 DEF ParserInv
  <2> QED BY <1>2, <2>1, <2>2, <2>3 DEF INVALID_SOCKET, rest
<1>12. Elsewhere'
  <2>1. Reached = conn.cut
    BY <1>3, <1>4 DEF Reached
  <2>2. Reached' = conn.cut
    <3>1. ~(consumed + n > HeaderLen + conn.size)
      BY <1>3, <1>4
    <3> QED BY <1>2, <1>6, <3>1 DEF Reached
  <2> QED BY <1>0, <1>6, <1>7, <2>1, <2>2 DEF Elsewhere
<1> QED BY <1>8, <1>9, <1>10, <1>11, <1>12

LEMMA ReadTailStep ==
  ASSUME ReadInv, ReadTail, failures' \in 0..MaxFailures
  PROVE  DataTypes' /\ WorldTypes' /\ ConnInv' /\ ParserInv' /\ Elsewhere'
<1>0. TypeOK /\ ConnInv /\ ParserInv /\ Elsewhere
  BY DEF ReadInv
<1>1. /\ Reading /\ server_buffer_size_known /\ server_buffer_size_remain > 0 /\ pc' = "check"
      /\ UNCHANGED <<client_unix_sock, server_buffer_size_known, server_buffer_size, conn,
                     conns, fed, stdout>>
  BY DEF ReadTail, world, output
<1>2. PICK n \in 1..Least(Least(server_buffer_size_remain, ReadSize), Available) :
        /\ consumed' = consumed + n
        /\ server_buffer_size_remain' = server_buffer_size_remain - n
        /\ buffered' = buffered \o Bytes(consumed, consumed + n)
  BY DEF ReadTail, BufferAppend
<1>3. /\ HeaderLen \in Nat /\ conn.size \in Nat /\ conn.cut \in Nat /\ consumed \in Nat
      /\ conn.sent \in Nat /\ MaxBytes \in Nat /\ conn.size <= conn.cut /\ conn.cut <= fed
      /\ fed \in Nat /\ fed <= MaxBytes /\ consumed <= conn.sent
  BY <1>0, ConnFacts
<1>4. /\ conns > 0 /\ conn.ok /\ consumed >= HeaderLen /\ server_buffer_size = conn.size
      /\ server_buffer_size_remain = IF consumed > HeaderLen + conn.size
                                     THEN 0 ELSE HeaderLen + conn.size - consumed
  BY <1>0, <1>1 DEF ParserInv
<1>5. /\ server_buffer_size_remain = HeaderLen + conn.size - consumed
      /\ consumed <= HeaderLen + conn.size
  BY <1>1, <1>3, <1>4
<1>6. n \in Nat \ {0} /\ n <= server_buffer_size_remain /\ n <= conn.sent - consumed
  <2>1. ReadSize \in Nat
    BY ClientSizesAssumption
  <2> QED BY <1>3, <1>5, <2>1 DEF Least, Available
<1>7. consumed + n <= HeaderLen + conn.size /\ consumed + n <= conn.sent
  BY <1>3, <1>5, <1>6
<1> DEFINE bytes == Bytes(consumed, consumed + n)
<1>8. bytes \in Seq(1..MaxBytes) /\ \A i \in 1..Len(bytes) : bytes[i] <= conn.cut
  <2>1. bytes \in Seq(1..conn.cut) /\ bytes \in Seq(1..MaxBytes)
    BY <1>0, <1>3, <1>4, <1>6, <1>7, TailBytes
  <2> HIDE DEF bytes
  <2>2. \A i \in 1..Len(bytes) : bytes[i] \in 1..conn.cut
    BY <2>1, ElementOfSeq
  <2> QED BY <1>3, <2>1, <2>2
<1> HIDE DEF bytes
<1>9. /\ buffered' \in Seq(1..MaxBytes)
      /\ \A i \in 1..Len(buffered') : buffered'[i] <= conn.cut
  <2>1. /\ buffered \in Seq(1..MaxBytes)
        /\ \A i \in 1..Len(buffered) : buffered[i] <= conn.cut
    BY <1>0 DEF TypeOK, DataTypes, Elsewhere
  <2>2. buffered' = buffered \o bytes
    BY <1>2 DEF bytes
  <2> QED BY <1>3, <1>8, <2>1, <2>2, Added
<1>10. HeaderLen' = HeaderLen
  BY <1>1 DEF HeaderLen
<1>11. DataTypes'
  <2>1. server_buffer_size_remain - n \in 0..MaxBytes
    BY <1>3, <1>4, <1>5, <1>6
  <2> QED BY <1>0, <1>1, <1>2, <1>9, <2>1 DEF TypeOK, DataTypes
<1>12. WorldTypes'
  <2>1. consumed + n \in 0..conn.sent
    BY <1>3, <1>6, <1>7
  <2> QED BY <1>0, <1>1, <1>2, <2>1 DEF TypeOK, WorldTypes
<1>13. ConnInv'
  BY <1>0, <1>1, <1>10 DEF ConnInv, Reading
<1>14. ParserInv'
  <2>1. /\ consumed + n >= HeaderLen
        /\ server_buffer_size_remain - n =
             IF consumed + n > HeaderLen + conn.size THEN 0
                                                     ELSE HeaderLen + conn.size - (consumed + n)
    BY <1>3, <1>4, <1>5, <1>6, <1>7
  <2> QED BY <1>1, <1>2, <1>4, <1>10, <2>1 DEF ParserInv
<1>15. Elsewhere'
  <2>1. Reached = conn.cut
    BY <1>3, <1>5 DEF Reached
  <2>2. Reached' = conn.cut
    <3>1. ~(consumed + n > HeaderLen + conn.size)
      BY <1>3, <1>6, <1>7
    <3> QED BY <1>1, <1>2, <1>10, <3>1 DEF Reached
  <2> QED BY <1>0, <1>1, <1>9, <2>1, <2>2 DEF Elsewhere
<1> QED BY <1>11, <1>12, <1>13, <1>14, <1>15

\* What follows the tail is printed right after what was read before.
LEMMA ReadFollowIs ==
  ASSUME ReadInv, ReadFollow
  PROVE  \E n \in Nat \ {0} : \E k \in 0..n :
           LET part == SubSeq(Bytes(consumed, consumed + n), 1, k) IN
           /\ consumed' = consumed + n /\ consumed + n <= conn.sent
           /\ consumed >= HeaderLen + conn.size
           /\ stdout' = stdout \o part
           /\ part \in Seq(1..MaxBytes) /\ Len(part) = k
           /\ \A i \in 1..k : part[i] = conn.cut + (consumed - HeaderLen - conn.size) + i
           /\ \/ k = n /\ UNCHANGED <<broken, error>>
              \/ broken' = TRUE /\ error' = TRUE
<1>0. TypeOK /\ ConnInv /\ ParserInv
  BY DEF ReadInv
<1>1. server_buffer_size_known /\ server_buffer_size_remain = 0
  BY DEF ReadFollow, clientconn_is_all_server_buffer_read
<1>2. PICK n \in 1..Least(ReadSize, Available) :
        consumed' = consumed + n /\ ClientWrite(Bytes(consumed, consumed + n))
  BY DEF ReadFollow
<1>3. /\ HeaderLen \in Nat /\ conn.size \in Nat /\ consumed \in Nat /\ conn.sent \in Nat
      /\ consumed <= conn.sent
  BY <1>0, ConnFacts
<1>4. n \in Nat \ {0} /\ consumed + n <= conn.sent
  <2>1. ReadSize \in Nat
    BY ClientSizesAssumption
  <2> QED BY <1>3, <2>1 DEF Least, Available
<1>5. consumed >= HeaderLen + conn.size
  <2>1. server_buffer_size_remain = IF consumed > HeaderLen + conn.size
                                    THEN 0 ELSE HeaderLen + conn.size - consumed
    BY <1>0, <1>1 DEF ParserInv
  <2> QED BY <1>1, <1>3, <2>1
<1> DEFINE bytes == Bytes(consumed, consumed + n)
<1>6. /\ bytes \in Seq(1..MaxBytes) /\ Len(bytes) = n
      /\ \A i \in 1..n : bytes[i] = conn.cut + (consumed - HeaderLen - conn.size) + i
  <2>1. consumed + n \in Nat /\ consumed <= consumed + n /\ (consumed + n) - consumed = n
    BY <1>3, <1>4
  <2> QED BY <1>0, <1>3, <1>4, <1>5, <2>1, LaterBytes
<1>7. PICK k \in 0..Len(bytes) :
        /\ stdout' = stdout \o SubSeq(bytes, 1, k)
        /\ SubSeq(bytes, 1, k) \in Seq(1..MaxBytes) /\ Len(SubSeq(bytes, 1, k)) = k
        /\ \A i \in 1..k : SubSeq(bytes, 1, k)[i] = bytes[i]
        /\ \/ k = Len(bytes) /\ UNCHANGED <<broken, error>>
           \/ broken' = TRUE /\ error' = TRUE
  <2> HIDE DEF bytes
  <2>1. ClientWrite(bytes)
    BY <1>2 DEF bytes
  <2> QED BY <1>6, <2>1, Printed
<1> HIDE DEF bytes
<1>8. k \in 0..n /\ \A i \in 1..k : i \in 1..n
  BY <1>4, <1>6
<1> DEFINE part == SubSeq(bytes, 1, k)
<1>9. \A i \in 1..k : part[i] = conn.cut + (consumed - HeaderLen - conn.size) + i
  BY <1>6, <1>7, <1>8, Zenon
<1>10. /\ consumed' = consumed + n /\ consumed + n <= conn.sent
       /\ consumed >= HeaderLen + conn.size
       /\ stdout' = stdout \o part
       /\ part \in Seq(1..MaxBytes) /\ Len(part) = k
       /\ \A i \in 1..k : part[i] = conn.cut + (consumed - HeaderLen - conn.size) + i
       /\ \/ k = n /\ UNCHANGED <<broken, error>>
          \/ broken' = TRUE /\ error' = TRUE
  <2>1. consumed' = consumed + n
    BY <1>2
  <2>2. part \in Seq(1..MaxBytes) /\ Len(part) = k /\ stdout' = stdout \o part
    BY <1>7
  <2>3. \/ k = n /\ UNCHANGED <<broken, error>>
        \/ broken' = TRUE /\ error' = TRUE
    BY <1>6, <1>7
  <2> HIDE DEF part
  <2> QED BY <1>4, <1>5, <1>9, <2>1, <2>2, <2>3
<1> QED BY <1>4, <1>8, <1>10, Zenon DEF bytes

LEMMA ReadFollowStep ==
  ASSUME ReadInv, ReadFollow, failures' \in 0..MaxFailures
  PROVE  DataTypes' /\ WorldTypes' /\ ConnInv' /\ ParserInv' /\ Elsewhere'
<1>0. TypeOK /\ ConnInv /\ ParserInv /\ Elsewhere
  BY DEF ReadInv
<1>1. /\ Reading /\ server_buffer_size_known /\ server_buffer_size_remain = 0 /\ pc' = "check"
      /\ UNCHANGED <<client_unix_sock, server_buffer_size_known, server_buffer_size,
                     server_buffer_size_remain, buffered, conn, conns, fed>>
  BY DEF ReadFollow, clientconn_is_all_server_buffer_read, parser, tailbuf, world
<1>2. PICK n \in Nat \ {0} : \E k \in 0..n :
        LET part == SubSeq(Bytes(consumed, consumed + n), 1, k) IN
        /\ consumed' = consumed + n /\ consumed + n <= conn.sent
        /\ consumed >= HeaderLen + conn.size
        /\ stdout' = stdout \o part
        /\ part \in Seq(1..MaxBytes) /\ Len(part) = k
        /\ \A i \in 1..k : part[i] = conn.cut + (consumed - HeaderLen - conn.size) + i
  BY ReadFollowIs
<1>2a. PICK k \in 0..n :
        LET part == SubSeq(Bytes(consumed, consumed + n), 1, k) IN
        /\ consumed' = consumed + n /\ consumed + n <= conn.sent
        /\ consumed >= HeaderLen + conn.size
        /\ stdout' = stdout \o part
        /\ part \in Seq(1..MaxBytes) /\ Len(part) = k
        /\ \A i \in 1..k : part[i] = conn.cut + (consumed - HeaderLen - conn.size) + i
  BY <1>2
<1> DEFINE part == SubSeq(Bytes(consumed, consumed + n), 1, k)
           reached == conn.cut + (consumed + n - HeaderLen - conn.size)
<1>3. /\ stdout' = stdout \o part /\ part \in Seq(1..MaxBytes) /\ Len(part) = k
      /\ \A i \in 1..k : part[i] = conn.cut + (consumed - HeaderLen - conn.size) + i
  BY <1>2a
<1> HIDE DEF part
<1>3a. /\ consumed' = consumed + n /\ consumed + n <= conn.sent
       /\ consumed >= HeaderLen + conn.size
  BY <1>2a
<1>4. /\ HeaderLen \in Nat /\ conn.size \in Nat /\ conn.cut \in Nat /\ consumed \in Nat
      /\ conn.sent \in Nat /\ MaxBytes \in Nat
  BY <1>0, ConnFacts
<1>5. HeaderLen' = HeaderLen
  BY <1>1 DEF HeaderLen
<1>6. Reached' = reached
  <2>1. consumed + n > HeaderLen + conn.size
    BY <1>3a, <1>4
  <2>2. Reached' = IF consumed' > HeaderLen' + conn'.size
                   THEN conn'.cut + (consumed' - HeaderLen' - conn'.size) ELSE conn'.cut
    BY DEF Reached
  <2>3. consumed' = consumed + n /\ HeaderLen' = HeaderLen /\ conn' = conn
    BY <1>1, <1>3a, <1>5
  <2> QED BY <1>4, <2>1, <2>2, <2>3
<1>7. Reached \in Int /\ Reached <= reached /\ reached \in Int
  BY <1>3a, <1>4 DEF Reached
<1>8. \A i \in 1..Len(part) : part[i] <= reached
  <2>1. k \in Nat /\ k <= n
    OBVIOUS
  <2>2. ASSUME NEW i \in 1..k
        PROVE  conn.cut + (consumed - HeaderLen - conn.size) + i <= reached
    BY <1>4, <2>1
  <2> QED BY <1>3, <2>2
<1> HIDE DEF reached
<1>9. stdout' \in Seq(1..MaxBytes) /\ \A i \in 1..Len(stdout') : stdout'[i] <= reached
  <2>1. stdout \in Seq(1..MaxBytes) /\ \A i \in 1..Len(stdout) : stdout[i] <= Reached
    BY <1>0 DEF TypeOK, DataTypes, Elsewhere
  <2>2. \A i \in 1..Len(stdout) : stdout[i] \in 1..MaxBytes
    BY <2>1, ElementOfSeq
  <2>3. \A i \in 1..Len(stdout) : stdout[i] <= reached
    BY <1>4, <1>7, <2>1, <2>2
  <2> QED BY <1>3, <1>4, <1>7, <1>8, <2>1, <2>3, Added
<1>10. DataTypes'
  BY <1>0, <1>1, <1>9 DEF TypeOK, DataTypes
<1>11. WorldTypes'
  <2>1. consumed + n \in 0..conn.sent
    BY <1>3a, <1>4
  <2> QED BY <1>0, <1>1, <1>3a, <2>1 DEF TypeOK, WorldTypes
<1>12. ConnInv'
  BY <1>0, <1>1, <1>5 DEF ConnInv, Reading
<1>13. ParserInv'
  <2>1. conns > 0 /\ conn.ok /\ consumed >= HeaderLen /\ server_buffer_size = conn.size
    BY <1>0, <1>1 DEF ParserInv
  <2>2. consumed + n >= HeaderLen /\ consumed + n > HeaderLen + conn.size
    BY <1>3a, <1>4
  <2> QED BY <1>1, <1>3a, <1>5, <2>1, <2>2 DEF ParserInv
<1>14. Elsewhere'
  BY <1>0, <1>1, <1>6, <1>9 DEF Elsewhere
<1> QED BY <1>10, <1>11, <1>12, <1>13, <1>14

\* The callback ends by printing the tail, or nothing.
LEMMA CheckIs ==
  ASSUME ReadInv, Check
  PROVE  \/ /\ clientconn_is_all_server_buffer_read /\ ~tail_output /\ tail_output' = TRUE
            /\ \E k \in 0..Len(LastUnits(buffered)) :
                 LET part == SubSeq(LastUnits(buffered), 1, k) IN
                 /\ stdout' = stdout \o part
                 /\ part \in Seq(1..MaxBytes) /\ Len(part) = k
                 /\ \A i \in 1..k : part[i] = LastUnits(buffered)[i] /\ part[i] <= conn.cut
                 /\ \/ k = Len(LastUnits(buffered)) /\ UNCHANGED <<broken, error>>
                    \/ broken' = TRUE /\ error' = TRUE
         \/ /\ ~clientconn_is_all_server_buffer_read \/ tail_output
            /\ UNCHANGED <<tail_output, broken, stdout, error>>
<1>0. TypeOK /\ Elsewhere /\ ConnInv
  BY DEF ReadInv
<1> DEFINE bytes == LastUnits(buffered)
<1>1. CASE /\ clientconn_is_all_server_buffer_read /\ ~tail_output
           /\ tail_output' = TRUE /\ ClientWrite(LastUnits(buffered))
  <2>1. buffered \in Seq(1..MaxBytes) /\ \A i \in 1..Len(buffered) : buffered[i] <= conn.cut
    BY <1>0 DEF TypeOK, DataTypes, Elsewhere
  <2>2. bytes \in Seq(1..MaxBytes) /\ \A i \in 1..Len(bytes) : bytes[i] <= conn.cut
    <3>1. 1..MaxBytes \in SUBSET Nat
      OBVIOUS
    <3>2. bytes \in Seq(1..MaxBytes)
          /\ \E c \in 0..Len(buffered) :
               /\ Len(bytes) = Len(buffered) - c
               /\ \A i \in 1..(Len(buffered) - c) : bytes[i] = buffered[c + i]
      <4> HIDE DEF bytes
      <4> QED BY <1>0, <2>1, <3>1, LastUnitsIs DEF bytes
    <3> HIDE DEF bytes
    <3>3. PICK c \in 0..Len(buffered) :
            /\ Len(bytes) = Len(buffered) - c
            /\ \A i \in 1..(Len(buffered) - c) : bytes[i] = buffered[c + i]
      BY <3>2
    <3>4. \A i \in 1..(Len(buffered) - c) : c + i \in 1..Len(buffered)
      BY <2>1, LenProperties
    <3> QED BY <2>1, <3>2, <3>3, <3>4
  <2> HIDE DEF bytes
  <2>3. PICK k \in 0..Len(bytes) :
          /\ stdout' = stdout \o SubSeq(bytes, 1, k)
          /\ SubSeq(bytes, 1, k) \in Seq(1..MaxBytes) /\ Len(SubSeq(bytes, 1, k)) = k
          /\ \A i \in 1..k : SubSeq(bytes, 1, k)[i] = bytes[i]
          /\ \/ k = Len(bytes) /\ UNCHANGED <<broken, error>>
             \/ broken' = TRUE /\ error' = TRUE
    BY <1>1, <2>2, Printed DEF bytes
  <2>4. \A i \in 1..k : i \in 1..Len(bytes)
    BY <2>2, LenProperties
  <2> QED BY <1>1, <2>2, <2>3, <2>4 DEF bytes
<1>2. CASE /\ ~clientconn_is_all_server_buffer_read \/ tail_output
           /\ UNCHANGED <<output, error, failures>>
  BY <1>2 DEF output
<1> QED BY <1>1, <1>2 DEF Check

LEMMA CheckStep ==
  ASSUME ReadInv, Check, failures' \in 0..MaxFailures
  PROVE  DataTypes' /\ WorldTypes' /\ ConnInv' /\ ParserInv' /\ Elsewhere'
<1>0. TypeOK /\ ConnInv /\ ParserInv /\ Elsewhere
  BY DEF ReadInv
<1>1. /\ client_unix_sock' \in {client_unix_sock, INVALID_SOCKET} /\ pc' \in {"retry", "loop"}
      /\ UNCHANGED <<server_buffer_size_known, server_buffer_size, server_buffer_size_remain,
                     buffered, conn, conns, fed, consumed>>
  BY DEF Check, parser, tailbuf, world
<1>2. HeaderLen' = HeaderLen /\ Reached' = Reached
  BY <1>1 DEF HeaderLen, Reached
<1>3. stdout' \in Seq(1..MaxBytes) /\ \A i \in 1..Len(stdout') : stdout'[i] <= Reached
  <2>1. stdout \in Seq(1..MaxBytes) /\ \A i \in 1..Len(stdout) : stdout[i] <= Reached
    BY <1>0 DEF TypeOK, DataTypes, Elsewhere
  <2>2. CASE UNCHANGED stdout
    BY <2>1, <2>2
  <2>3. CASE \E k \in 0..Len(LastUnits(buffered)) :
               LET part == SubSeq(LastUnits(buffered), 1, k) IN
               /\ stdout' = stdout \o part
               /\ part \in Seq(1..MaxBytes) /\ Len(part) = k
               /\ \A i \in 1..k : part[i] <= conn.cut
    <3>1. PICK part \in Seq(1..MaxBytes) :
            stdout' = stdout \o part /\ \A i \in 1..Len(part) : part[i] <= conn.cut
      BY <2>3
    <3>2. /\ HeaderLen \in Nat /\ conn.size \in Nat /\ conn.cut \in Nat /\ consumed \in Nat
          /\ MaxBytes \in Nat
      BY <1>0, ConnFacts
    <3>3. conn.cut <= Reached /\ Reached \in Int
      BY <3>2, SMTT(40) DEF Reached
    <3>4. \A i \in 1..Len(part) : part[i] \in 1..MaxBytes
      BY <3>1, ElementOfSeq
    <3>5. \A i \in 1..Len(part) : part[i] <= Reached
      BY <3>1, <3>2, <3>3, <3>4
    <3> QED BY <2>1, <3>1, <3>2, <3>3, <3>5, Added
  <2> QED BY <2>2, <2>3, CheckIs
<1>4. DataTypes' /\ WorldTypes'
  BY <1>0, <1>1, <1>3 DEF TypeOK, DataTypes, WorldTypes
<1>5. ConnInv' /\ ParserInv'
  BY <1>0, <1>1, <1>2 DEF ConnInv, ParserInv, INVALID_SOCKET
<1>6. Elsewhere'
  BY <1>0, <1>1, <1>2, <1>3 DEF Elsewhere
<1> QED BY <1>4, <1>5, <1>6

\* The tail is printed before anything else, and nothing is read after stdout broke.
LEMMA OrderStep ==
  ASSUME ReadInv, [Next]_vars
  PROVE  TailFirst' /\ BrokenInv'
<1>0. TailFirst /\ BrokenInv /\ tail_output \in BOOLEAN /\ broken \in BOOLEAN
  BY DEF ReadInv, TypeOK, FlagTypes
<1> USE DEF TailFirst, BrokenInv, clientconn_is_all_server_buffer_read
<1>1. CASE ClientStep
  <2> USE DEF parser, tailbuf, output, ending, world
  <2>1. CASE init_all \/ Wake \/ libev_error_handler \/ final_all \/ close_stdout
    BY <1>0, <2>1 DEF init_all, Wake, libev_error_handler, final_all, close_stdout
  <2>2. CASE Connect
    BY <1>0, <2>2 DEF Connect, clientconn_connect, ResetParser, Connected
  <2>3. CASE ConnectTooLong
    BY <1>0, <2>3 DEF ConnectTooLong, ResetParser, Connected
  <2>4. CASE ConnectFails
    BY <1>0, <2>4 DEF ConnectFails, ResetParser
  <2>5. CASE Ask
    BY <1>0, <2>5 DEF Ask
  <2>6. CASE ReadSizeLine \/ ReadTail \/ ReadEnds \/ ReadIntoNull
    <3>1. pc = "loop" /\ pc' \in {"check", "crashed"} /\ UNCHANGED output
      BY <2>6 DEF ReadSizeLine, ReadTail, ReadEnds, ReadIntoNull, Reading
    <3> QED BY <1>0, <3>1
  <2>7. CASE ReadFollow
    <3>1. pc = "loop" /\ pc' = "check" /\ tail_output' = tail_output /\ tail_output
      BY <1>0, <2>7 DEF ReadFollow, Reading
    <3>2. \/ UNCHANGED <<broken, error>>
          \/ broken' = TRUE /\ error' = TRUE
      BY <2>7 DEF ReadFollow, ClientWrite
    <3> QED BY <1>0, <3>1, <3>2
  <2>8. CASE Check
    <3>1. /\ pc = "check" /\ UNCHANGED <<server_buffer_size_known, server_buffer_size_remain>>
          /\ pc' = IF client_unix_sock' = INVALID_SOCKET \/ error' THEN "retry" ELSE "loop"
      BY <2>8 DEF Check
    <3>2. \/ /\ tail_output' = TRUE
             /\ \/ UNCHANGED <<broken, error>>
                \/ broken' = TRUE /\ error' = TRUE
          \/ /\ ~clientconn_is_all_server_buffer_read \/ tail_output
             /\ UNCHANGED <<tail_output, broken, stdout, error>>
      BY <2>8 DEF Check, ClientWrite
    <3> QED BY <1>0, <3>1, <3>2
  <2>9. CASE Retry
    BY <1>0, <2>9 DEF Retry
  <2> QED BY <1>1, <2>1, <2>2, <2>3, <2>4, <2>5, <2>6, <2>7, <2>8, <2>9 DEF ClientStep
<1>2. CASE sigint_cb \/ Feed \/ Send \/ Hangup \/ FileChanges
  BY <1>0, <1>2 DEF sigint_cb, Feed, Send, Hangup, FileChanges, output, parser
<1>3. CASE UNCHANGED vars
  BY <1>0, <1>3 DEF vars, output, parser
<1> QED BY <1>1, <1>2, <1>3 DEF Next

LEMMA NothingMore ==
  ASSUME conn \in Connections, NEW closed \in BOOLEAN
  PROVE  /\ conn.closed \in BOOLEAN
         /\ [conn EXCEPT !.sent = @ + 0, !.closed = closed] = [conn EXCEPT !.closed = closed]
         /\ conn = [conn EXCEPT !.closed = conn.closed]
<1>1. conn.closed \in BOOLEAN /\ conn.sent \in Nat
  BY DEF Connections
<1>2. conn.sent + 0 = conn.sent
  BY <1>1
<1>3. /\ [conn EXCEPT !.sent = conn.sent, !.closed = closed] = [conn EXCEPT !.closed = closed]
      /\ conn = [conn EXCEPT !.closed = conn.closed]
  BY DEF Connections
<1> QED BY <1>1, <1>2, <1>3

\* Steps that leave the connection alone as well.
LEMMA QuietestStep ==
  ASSUME ReadInv,
         UNCHANGED <<server_buffer_size_known, server_buffer_size, buffered, stdout,
                     fed, conn, conns, consumed>>,
         server_buffer_size_remain' \in 0..MaxBytes,
         server_buffer_size_known =>
           server_buffer_size_remain' = server_buffer_size_remain,
         client_unix_sock' = "server" =>
           client_unix_sock = "server" /\ pc' \notin {"init", "connect", "nap"},
         failures' \in 0..MaxFailures
  PROVE  DataTypes' /\ WorldTypes' /\ ConnInv' /\ ParserInv' /\ Elsewhere'
<1>1. conn \in Connections /\ fed \in 0..MaxBytes /\ MaxBytes \in Nat
  BY ClientSizesAssumption DEF ReadInv, TypeOK, WorldTypes, ConnInv
<1>2. conn = [conn EXCEPT !.sent = @ + 0, !.closed = conn.closed] /\ conn.closed \in BOOLEAN
  BY <1>1, NothingMore
<1>3. conn' = [conn EXCEPT !.sent = @ + 0, !.closed = conn.closed] /\ fed' \in fed..MaxBytes
  BY <1>1, <1>2
<1>4. 0 \in Nat /\ ~(0 > 0)
  OBVIOUS
<1> QED BY <1>2, <1>3, <1>4, QuietStep

LEMMA ReadStep ==
  ASSUME ReadInv, [Next]_vars
  PROVE  ReadInv'
<1>1. FlagTypes' /\ ControlTypes' /\ TailFirst' /\ BrokenInv'
  BY StepFlags, OrderStep DEF ReadInv, TypeOK
<1>2. failures' \in 0..MaxFailures
  BY FailuresStep DEF ReadInv, TypeOK, WorldTypes
<1>3. server_buffer_size_remain \in 0..MaxBytes /\ MaxBytes \in Nat \ {0}
  BY ClientSizesAssumption DEF ReadInv, TypeOK, DataTypes
<1>4. client_unix_sock = "server" => pc \notin {"init", "connect", "nap"}
  BY DEF ReadInv, ConnInv
<1>5. DataTypes' /\ WorldTypes' /\ ConnInv' /\ ParserInv' /\ Elsewhere'
  <2>1. CASE ClientStep
    <3> USE DEF parser, tailbuf, output, ending, world
    <3>1. CASE \/ init_all \/ Wake \/ Ask \/ ReadIntoNull \/ Retry
               \/ libev_error_handler \/ final_all \/ close_stdout
      <4>1. /\ UNCHANGED <<server_buffer_size_known, server_buffer_size,
                           server_buffer_size_remain, buffered, stdout, fed, conn, conns,
                           consumed>>
            /\ client_unix_sock' = "server" =>
                 client_unix_sock = "server" /\ pc' \notin {"init", "connect", "nap"}
        BY <1>4, <3>1 DEF init_all, Wake, Ask, ReadIntoNull, Retry, libev_error_handler,
             final_all, close_stdout, INVALID_SOCKET
      <4> QED BY <1>2, <1>3, <4>1, QuietestStep
    <3>2. CASE ReadEnds
      <4>1. /\ UNCHANGED <<server_buffer_size_known, server_buffer_size, buffered, stdout,
                           fed, conn, conns, consumed>>
            /\ client_unix_sock' = "server" => client_unix_sock = "server"
            /\ pc' = "check"
            /\ IF server_buffer_size_known THEN UNCHANGED server_buffer_size_remain
                                           ELSE server_buffer_size_remain' \in 0..1
        BY <3>2 DEF ReadEnds, INVALID_SOCKET
      <4>2. server_buffer_size_remain' \in 0..MaxBytes
        BY <1>3, <4>1
      <4> QED BY <1>2, <4>1, <4>2, QuietestStep
    <3>3. CASE Connect
      BY <1>2, <3>3, ConnectStep
    <3>4. CASE ConnectTooLong \/ ConnectFails
      <4>1. /\ ResetParser /\ client_unix_sock' # "server"
            /\ UNCHANGED <<buffered, stdout, fed, conn, conns, consumed>>
        BY <1>4, <3>4 DEF ConnectTooLong, ConnectFails
      <4> QED BY <1>2, <4>1, ResetStep
    <3>5. CASE ReadSizeLine
      BY <1>2, <3>5, ReadSizeLineStep
    <3>6. CASE ReadTail
      BY <1>2, <3>6, ReadTailStep
    <3>7. CASE ReadFollow
      BY <1>2, <3>7, ReadFollowStep
    <3>8. CASE Check
      BY <1>2, <3>8, CheckStep
    <3> QED BY <2>1, <3>1, <3>2, <3>3, <3>4, <3>5, <3>6, <3>7, <3>8 DEF ClientStep
  <2>2. CASE sigint_cb \/ FileChanges \/ UNCHANGED vars
    <3>1. /\ UNCHANGED <<server_buffer_size_known, server_buffer_size,
                         server_buffer_size_remain, buffered, stdout, fed, conn, conns,
                         consumed, client_unix_sock>>
          /\ pc' \in {pc, "final"}
      BY <2>2 DEF sigint_cb, FileChanges, vars, parser, tailbuf, output, world
    <3> QED BY <1>2, <1>3, <1>4, <3>1, QuietestStep
  <2>3. CASE Feed \/ Send \/ Hangup
    <3>1. /\ UNCHANGED <<server_buffer_size_known, server_buffer_size,
                         server_buffer_size_remain, buffered, stdout, conns, consumed,
                         client_unix_sock, pc>>
      BY <2>3 DEF Feed, Send, Hangup, parser, tailbuf, output
    <3>2. conn \in Connections /\ fed \in 0..MaxBytes
      BY DEF ReadInv, TypeOK, WorldTypes, ConnInv
    <3>3. /\ conn.sent \in Nat /\ HeaderLen \in Nat /\ conn.size \in Nat /\ conn.cut \in Nat
      BY ConnFacts DEF ReadInv
    <3>4. CASE Feed
      <4>1. conn' = [conn EXCEPT !.sent = @ + 0, !.closed = conn.closed]
            /\ conn.closed \in BOOLEAN /\ 0 \in Nat /\ ~(0 > 0)
        <5>1. conn' = conn
          BY <3>4 DEF Feed
        <5>2. conn.closed \in BOOLEAN
          BY <3>2 DEF Connections
        <5>3. conn = [conn EXCEPT !.sent = @ + 0, !.closed = conn.closed]
          BY <3>2, <5>2, NothingMore
        <5>4. 0 \in Nat /\ ~(0 > 0)
          OBVIOUS
        <5> QED BY <5>1, <5>2, <5>3, <5>4
      <4>2. fed' \in fed..MaxBytes
        BY <1>3, <3>2, <3>4 DEF Feed
      <4> QED BY <1>2, <1>3, <1>4, <3>1, <4>1, <4>2, QuietStep
    <3>5. CASE Send
      <4>1. conn' = [conn EXCEPT !.sent = @ + 1, !.closed = conn.closed]
            /\ conn.closed \in BOOLEAN /\ 1 \in Nat
        BY <3>2, <3>5 DEF Send, Connections
      <4>2. conn.sent + 1 <= HeaderLen + conn.size + (fed - conn.cut)
        BY <3>2, <3>3, <3>5 DEF Send
      <4>3. fed' \in fed..MaxBytes
        BY <1>3, <3>2, <3>5 DEF Send
      <4> QED BY <1>2, <1>3, <1>4, <3>1, <4>1, <4>2, <4>3, QuietStep
    <3>6. CASE Hangup
      <4>1. conn' = [conn EXCEPT !.sent = @ + 0, !.closed = TRUE]
            /\ TRUE \in BOOLEAN /\ 0 \in Nat /\ ~(0 > 0)
        <5>1. conn' = [conn EXCEPT !.closed = TRUE] /\ TRUE \in BOOLEAN
          BY <3>6 DEF Hangup
        <5>2. [conn EXCEPT !.sent = @ + 0, !.closed = TRUE] = [conn EXCEPT !.closed = TRUE]
          BY <3>2, <5>1, NothingMore
        <5> QED BY <5>1, <5>2
      <4>2. fed' \in fed..MaxBytes
        BY <1>3, <3>2, <3>6 DEF Hangup
      <4> QED BY <1>2, <1>3, <1>4, <3>1, <4>1, <4>2, QuietStep
    <3> QED BY <2>3, <3>4, <3>5, <3>6
  <2> QED BY <2>1, <2>2, <2>3 DEF Next
<1> QED BY <1>1, <1>5 DEF ReadInv, TypeOK

LEMMA ReadInit == Init => ReadInv
<1> SUFFICES ASSUME Init
             PROVE  ReadInv
  OBVIOUS
<1>1. <<>> \in Seq(Nat) /\ <<>> \in Seq(1..MaxBytes) /\ Len(<<>>) = 0
  OBVIOUS
<1>2. ReadDigits(Base, 0, <<>>) = 0
  <2>1. ASSUME NEW s \in Seq(Nat), Len(s) = 0
        PROVE  ReadDigits(Base, 0, s) = 0
    <3>1. ValuesRead(Base, 0, s)[0] = 0
      BY ClientSizesAssumption, ValuesReadIs
    <3> QED BY <2>1, <3>1 DEF ReadDigits
  <2> QED BY <1>1, <2>1
<1>3. /\ conn.digits = <<>> /\ conn.size = 0 /\ conn.cut = 0 /\ conn.sent = 0
      /\ conn \in Connections
  BY <1>1 DEF Init, NoConn, Connections
<1>4. FlagTypes
  <2>1. follow \in BOOLEAN /\ reopen_file \in BOOLEAN
    BY ClientOptionsAssumption DEF Init
  <2> QED BY <2>1, ClientOptionsAssumption DEF Init, FlagTypes
<1>5. ControlTypes
  BY DEF Init, ControlTypes
<1>6. DataTypes /\ WorldTypes
  BY <1>1, <1>3, ClientSizesAssumption DEF Init, DataTypes, WorldTypes
<1>7. ConnInv
  <2>1. HeaderLen = 1 /\ fed = 0
    BY <1>1, <1>3 DEF Init, HeaderLen
  <2> QED BY <1>2, <1>3, <2>1 DEF Init, ConnInv, INVALID_SOCKET
<1>8. ParserInv /\ Elsewhere /\ TailFirst /\ BrokenInv
  BY <1>1 DEF Init, ParserInv, Elsewhere, TailFirst, BrokenInv, INVALID_SOCKET
<1> QED BY <1>4, <1>5, <1>6, <1>7, <1>8 DEF ReadInv, TypeOK

LEMMA ReadAlways == Spec => []ReadInv
<1>1. ReadInv /\ [Next]_vars => ReadInv'
  BY ReadStep
<1> QED BY ReadInit, <1>1, PTL DEF Spec

\* The types of tailclient's state.
THEOREM ClientIsTyped == Spec => []TypeOK
<1>1. ReadInv => TypeOK
  BY DEF ReadInv
<1> QED BY <1>1, ReadAlways, PTL

\* tailclient reads the size line without ever taking a byte that follows the tail for a
\* part of it, in whichever pieces the connection arrives (clientconn_read_server_buffer).
THEOREM TailIsReadExactly == Spec => []SizeLineNeverOverruns
<1>1. ReadInv => SizeLineNeverOverruns
  <2> SUFFICES ASSUME ReadInv, client_unix_sock = "server"
               PROVE  /\ server_buffer_size_known <=> consumed >= HeaderLen
                      /\ ~clientconn_is_all_server_buffer_read =>
                           consumed < HeaderLen + conn.size
                      /\ \A b \in ToSet(buffered) : b <= conn.cut
                      /\ server_buffer_size_known =>
                           /\ server_buffer_size = conn.size
                           /\ server_buffer_size_remain =
                                IF consumed > HeaderLen + conn.size THEN 0
                                ELSE HeaderLen + conn.size - consumed
    BY DEF SizeLineNeverOverruns
  <2>1. TypeOK /\ ConnInv /\ ParserInv /\ Elsewhere
    BY DEF ReadInv
  <2>2. HeaderLen \in Nat /\ conn.size \in Nat /\ consumed \in Nat
    BY <2>1, ConnFacts
  <2>3. \A b \in ToSet(buffered) : b <= conn.cut
    <3>1. \A b \in ToSet(buffered) : \E i \in 1..Len(buffered) : buffered[i] = b
      BY <2>1, Elements DEF TypeOK, DataTypes
    <3> QED BY <2>1, <3>1 DEF Elsewhere
  <2>4. CASE server_buffer_size_known
    <3>1. /\ consumed >= HeaderLen /\ server_buffer_size = conn.size
          /\ server_buffer_size_remain = IF consumed > HeaderLen + conn.size
                                         THEN 0 ELSE HeaderLen + conn.size - consumed
      BY <2>1, <2>4 DEF ParserInv
    <3>2. server_buffer_size_remain # 0 => consumed < HeaderLen + conn.size
      BY <2>2, <3>1
    <3> QED BY <2>3, <2>4, <3>1, <3>2 DEF clientconn_is_all_server_buffer_read
  <2>5. CASE ~server_buffer_size_known
    <3>1. consumed < HeaderLen
      BY <2>1, <2>5 DEF ParserInv
    <3>2. ~(consumed >= HeaderLen) /\ consumed < HeaderLen + conn.size
      BY <2>2, <3>1
    <3> QED BY <2>3, <2>5, <3>2
  <2> QED BY <2>4, <2>5
<1> QED BY <1>1, ReadAlways, PTL

\* The steps that print.
LEMMA PrintingSteps ==
  ASSUME [Next]_vars, ~ReadFollow, ~Check
  PROVE  UNCHANGED <<tail_output, broken, stdout>>
<1>1. CASE ClientStep
  BY <1>1 DEF ClientStep, init_all, Connect, clientconn_connect, ConnectTooLong,
       ConnectFails, Wake, Ask, ReadSizeLine, ReadTail, ReadEnds, ReadIntoNull, Retry,
       libev_error_handler, final_all, close_stdout, output
<1>2. CASE sigint_cb \/ Feed \/ Send \/ Hangup \/ FileChanges \/ UNCHANGED vars
  BY <1>2 DEF sigint_cb, Feed, Send, Hangup, FileChanges, vars, output
<1> QED BY <1>1, <1>2 DEF Next

\* Whatever it was connected to before, tailclient prints nothing again and nothing out of
\* order (tail_output is not reset in unix_sock_readable_cb).
THEOREM NothingIsPrintedAgain == Spec => FollowMovesForward
<1> DEFINE Forward == stdout # <<>> =>
             \A i \in DOMAIN stdout' \ DOMAIN stdout : i > 1 => stdout'[i - 1] < stdout'[i]
<1>1. ASSUME ReadInv, ReadInv', [Next]_vars
      PROVE  Forward
  <2>1. CASE UNCHANGED stdout
    BY <2>1
  <2>2. CASE ReadFollow
    <3>1. PICK n \in Nat \ {0} : \E k \in 0..n :
            LET part == SubSeq(Bytes(consumed, consumed + n), 1, k) IN
            /\ consumed >= HeaderLen + conn.size
            /\ stdout' = stdout \o part
            /\ part \in Seq(1..MaxBytes) /\ Len(part) = k
            /\ \A i \in 1..k : part[i] = conn.cut + (consumed - HeaderLen - conn.size) + i
      BY <1>1, <2>2, ReadFollowIs
    <3>2. PICK k \in 0..n :
            LET part == SubSeq(Bytes(consumed, consumed + n), 1, k) IN
            /\ consumed >= HeaderLen + conn.size
            /\ stdout' = stdout \o part
            /\ part \in Seq(1..MaxBytes) /\ Len(part) = k
            /\ \A i \in 1..k : part[i] = conn.cut + (consumed - HeaderLen - conn.size) + i
      BY <3>1
    <3> DEFINE part == SubSeq(Bytes(consumed, consumed + n), 1, k)
               len == Len(stdout)
    <3>3. /\ stdout' = stdout \o part /\ part \in Seq(1..MaxBytes) /\ Len(part) = k
          /\ \A i \in 1..k : part[i] = conn.cut + (consumed - HeaderLen - conn.size) + i
          /\ consumed >= HeaderLen + conn.size
      BY <3>2
    <3> HIDE DEF part
    <3>4. /\ HeaderLen \in Nat /\ conn.size \in Nat /\ conn.cut \in Nat /\ consumed \in Nat
      BY <1>1, ConnFacts DEF ReadInv
    <3>5. Reached = conn.cut + (consumed - HeaderLen - conn.size) /\ Reached \in Int
      BY <3>3, <3>4, SMTT(40) DEF Reached
    <3>6. stdout \in Seq(1..MaxBytes) /\ \A i \in 1..len : stdout[i] <= Reached
      BY <1>1 DEF ReadInv, TypeOK, DataTypes, Elsewhere
    <3>7. /\ len \in Nat /\ DOMAIN stdout = 1..len /\ DOMAIN stdout' = 1..(len + k)
          /\ \A i \in 1..(len + k) :
               stdout'[i] = IF i <= len THEN stdout[i] ELSE part[i - len]
      <4>1. /\ stdout \o part \in Seq(1..MaxBytes) /\ Len(stdout \o part) = len + k
            /\ \A i \in 1..(len + k) :
                 (stdout \o part)[i] = IF i <= len THEN stdout[i] ELSE part[i - len]
        BY <3>3, <3>6, ConcatProperties
      <4>2. stdout' \in Seq(1..MaxBytes) /\ Len(stdout') = len + k
        BY <3>3, <4>1
      <4>3. DOMAIN stdout' = 1..(len + k) /\ DOMAIN stdout = 1..len /\ len \in Nat
        BY <3>6, <4>2, LenProperties
      <4> QED BY <3>3, <4>1, <4>3
    <3>8. ASSUME NEW i \in 1..(len + k), ~(i \in 1..len), i > 1
          PROVE  stdout'[i - 1] < stdout'[i]
      <4>1. i - len \in 1..k /\ ~(i <= len) /\ i - 1 \in 1..(len + k)
        BY <3>7, <3>8
      <4>2. stdout'[i] = Reached + (i - len)
        BY <3>3, <3>5, <3>7, <4>1
      <4>3. CASE i - 1 <= len
        <5>1. i - 1 \in 1..len /\ i = len + 1 /\ i - len = 1
          BY <3>7, <3>8, <4>1, <4>3
        <5>2. stdout'[i - 1] <= Reached /\ stdout'[i - 1] \in 1..MaxBytes
          BY <3>6, <3>7, <4>1, <4>3, <5>1, ElementOfSeq
        <5>3. \A x, y \in Int : x <= y => x < y + 1
          OBVIOUS
        <5>4. stdout'[i - 1] \in Int
          BY <5>2
        <5> QED BY <3>5, <4>2, <5>1, <5>2, <5>3, <5>4
      <4>4. CASE ~(i - 1 <= len)
        <5>1. (i - 1) - len \in 1..k
          BY <3>7, <3>8, <4>1, <4>4
        <5>2. stdout'[i - 1] = Reached + ((i - 1) - len)
          BY <3>3, <3>5, <3>7, <4>1, <4>4, <5>1
        <5>3. Reached + ((i - 1) - len) < Reached + (i - len)
          BY <3>5, <3>7
        <5> QED BY <4>2, <5>2, <5>3
      <4> QED BY <4>3, <4>4
    <3> QED BY <3>7, <3>8
  <2>3. CASE Check
    <3>1. stdout # <<>> => tail_output
      BY <1>1 DEF ReadInv, TailFirst
    <3>2. ~tail_output \/ UNCHANGED stdout
      BY <1>1, <2>3 DEF Check, output
    <3> QED BY <2>1, <3>1, <3>2
  <2> QED BY <1>1, <2>1, <2>2, <2>3, PrintingSteps
<1> QED BY <1>1, ReadAlways, PTL DEF Spec, FollowMovesForward
---------------------------------------------------------------------------------
(***************************************************************************)
(* What is printed, without -F.                                            *)
(***************************************************************************)
\* Adjacent stretches of the connection.
LEMMA BytesJoin ==
  ASSUME TypeOK, ConnInv, NEW lo \in Nat, NEW mid \in Nat, NEW hi \in Nat,
         lo <= mid, mid <= hi
  PROVE  Bytes(lo, mid) \o Bytes(mid, hi) = Bytes(lo, hi)
<1> DEFINE at == conn.cut - conn.size - HeaderLen
           s == Bytes(lo, mid)
           t == Bytes(mid, hi)
           u == Bytes(lo, hi)
<1>1. conn.cut \in Nat /\ conn.size \in Nat /\ HeaderLen \in Nat /\ at \in Int
  BY ConnFacts
<1>2. ASSUME NEW a \in Nat, NEW b \in Nat, a <= b
      PROVE  /\ Bytes(a, b) \in Seq(Int) /\ Len(Bytes(a, b)) = b - a
             /\ \A i \in 1..(b - a) : Bytes(a, b)[i] = at + a + i
  <2>1. \A i \in 1..(b - a) : /\ conn.cut - conn.size + a + i - HeaderLen \in Int
                              /\ conn.cut - conn.size + a + i - HeaderLen = at + a + i
    BY <1>1
  <2> HIDE DEF at
  <2> QED BY <1>2, <2>1, BytesAre, ZenonT(60)
<1> HIDE DEF at
<1>3. /\ s \in Seq(Int) /\ Len(s) = mid - lo /\ \A i \in 1..(mid - lo) : s[i] = at + lo + i
      /\ t \in Seq(Int) /\ Len(t) = hi - mid /\ \A i \in 1..(hi - mid) : t[i] = at + mid + i
      /\ u \in Seq(Int) /\ Len(u) = hi - lo /\ \A i \in 1..(hi - lo) : u[i] = at + lo + i
  <2>1. lo <= hi
    OBVIOUS
  <2> QED BY <1>2, <2>1
<1> HIDE DEF s, t, u
<1>4. /\ s \o t \in Seq(Int) /\ Len(s \o t) = hi - lo
      /\ \A i \in 1..(hi - lo) : (s \o t)[i] = IF i <= mid - lo THEN s[i]
                                                            ELSE t[i - (mid - lo)]
  <2>1. /\ s \o t \in Seq(Int) /\ Len(s \o t) = (mid - lo) + (hi - mid)
        /\ \A i \in 1..((mid - lo) + (hi - mid)) :
             (s \o t)[i] = IF i <= mid - lo THEN s[i] ELSE t[i - (mid - lo)]
    <3>1. /\ s \o t \in Seq(Int) /\ Len(s \o t) = Len(s) + Len(t)
          /\ \A i \in 1..(Len(s) + Len(t)) :
               (s \o t)[i] = IF i <= Len(s) THEN s[i] ELSE t[i - Len(s)]
      BY <1>3, ConcatProperties
    <3>2. Len(s) = mid - lo /\ Len(t) = hi - mid
      BY <1>3
    <3> QED BY <3>1, <3>2
  <2>2. (mid - lo) + (hi - mid) = hi - lo
    OBVIOUS
  <2> QED BY <2>1, <2>2
<1>5. ASSUME NEW i \in 1..(hi - lo)
      PROVE  (s \o t)[i] = u[i]
  <2>1. u[i] = at + lo + i
    BY <1>3
  <2>2. CASE i <= mid - lo
    <3>1. i \in 1..(mid - lo)
      BY <2>2
    <3> QED BY <1>3, <1>4, <2>1, <2>2, <3>1
  <2>3. CASE ~(i <= mid - lo)
    <3>1. i - (mid - lo) \in 1..(hi - mid)
      BY <2>3
    <3>2. at + mid + (i - (mid - lo)) = at + lo + i
      BY <1>1
    <3>3. t[i - (mid - lo)] = at + mid + (i - (mid - lo))
      BY <1>3, <3>1
    <3> QED BY <1>4, <2>1, <2>3, <3>2, <3>3
  <2> QED BY <2>2, <2>3
<1>6. s \o t = u
  BY <1>3, <1>4, <1>5, SeqEqual
<1> QED BY <1>6 DEF s, t, u

LEMMA NoBytes ==
  ASSUME TypeOK, ConnInv, NEW lo \in Nat, NEW hi \in Nat, hi <= lo
  PROVE  Bytes(lo, hi) = <<>>
<1>1. 1..(hi - lo) = {}
  OBVIOUS
<1>2. Bytes(lo, hi) = [i \in {} |-> conn.cut - conn.size + lo + i - HeaderLen]
  BY <1>1 DEF Bytes
<1>3. Bytes(lo, hi) \in [{} -> Int]
  BY <1>2
<1>4. 1..0 = {}
  OBVIOUS
<1>5. Bytes(lo, hi) \in Seq(Int)
  BY <1>3, <1>4, SeqDef
<1>6. Len(Bytes(lo, hi)) = 0
  BY <1>3, <1>4, <1>5, LenProperties
<1> QED BY <1>5, <1>6, EmptySeq

\* A part of what is to be printed next.
LEMMA PrefixOfMore ==
  ASSUME NEW S, NEW s \in Seq(S), NEW t \in Seq(S), NEW k \in 0..Len(t),
         NEW part \in Seq(S), Len(part) = k, \A i \in 1..k : part[i] = t[i]
  PROVE  IsPrefix(s \o part, s \o t)
<1> DEFINE u == s \o part
           v == s \o t
<1>1. /\ Len(s) \in Nat /\ Len(t) \in Nat
      /\ u \in Seq(S) /\ Len(u) = Len(s) + k
      /\ \A i \in 1..(Len(s) + k) : u[i] = IF i <= Len(s) THEN s[i] ELSE part[i - Len(s)]
      /\ v \in Seq(S) /\ Len(v) = Len(s) + Len(t)
      /\ \A i \in 1..(Len(s) + Len(t)) :
           v[i] = IF i <= Len(s) THEN s[i] ELSE t[i - Len(s)]
  BY ConcatProperties, LenProperties
<1> HIDE DEF u, v
<1>2. Len(u) <= Len(v)
  BY <1>1
<1>3. ASSUME NEW i \in 1..Len(u)
      PROVE  u[i] = v[i]
  <2>1. i \in 1..(Len(s) + k) /\ i \in 1..(Len(s) + Len(t))
    BY <1>1
  <2>2. ~(i <= Len(s)) => i - Len(s) \in 1..k
    BY <1>1
  <2> QED BY <1>1, <2>1, <2>2
<1>4. IsPrefix(u, v)
  BY <1>1, <1>2, <1>3, PrefixByElements
<1> QED BY <1>4 DEF u, v

\* What the connection offers does not change while it lasts.
LEMMA SameOffer ==
  ASSUME UNCHANGED options, conn'.digits = conn.digits, conn'.ok = conn.ok,
         conn'.size = conn.size, conn'.cut = conn.cut, conns' = conns,
         NEW c, consumed' = c
  PROVE  /\ HeaderLen' = HeaderLen
         /\ Bytes(HeaderLen, Least(consumed, HeaderLen + conn.size))'
              = Bytes(HeaderLen, Least(c, HeaderLen + conn.size))
         /\ Wanted' = OfferedTail \o Bytes(HeaderLen + conn.size, c)
         /\ AllOfTailRead' <=> conns > 0 /\ conn.ok /\ c >= HeaderLen + conn.size
<1>1. HeaderLen' = HeaderLen
  BY DEF HeaderLen
<1>2. Bytes(HeaderLen, Least(consumed, HeaderLen + conn.size))'
        = Bytes(HeaderLen, Least(c, HeaderLen + conn.size))
  BY <1>1 DEF Bytes
<1>3. Bytes(HeaderLen + conn.size, consumed)' = Bytes(HeaderLen + conn.size, c)
  BY <1>1 DEF Bytes
<1>4. Bytes(HeaderLen, HeaderLen + conn.size)' = Bytes(HeaderLen, HeaderLen + conn.size)
  BY <1>1 DEF Bytes
<1>5. OfferedTail' = OfferedTail
  BY <1>4 DEF OfferedTail, LastUnits, options
<1>6. AllOfTailRead' <=> conns > 0 /\ conn.ok /\ c >= HeaderLen + conn.size
  BY <1>1 DEF AllOfTailRead
<1> QED BY <1>1, <1>2, <1>3, <1>5, <1>6 DEF Wanted

\* Steps that neither read nor print.
LEMMA OneQuiet ==
  ASSUME OneInv, UNCHANGED options,
         UNCHANGED <<buffered, stdout, tail_output, broken, conns, consumed>>,
         conn'.digits = conn.digits, conn'.ok = conn.ok, conn'.size = conn.size,
         conn'.cut = conn.cut,
         pc = "check" => pc' = "check" /\ UNCHANGED server_buffer_size_known,
         pc = "crashed" => pc' = "crashed",
         pc' \in {"init", "connect", "nap"} =>
           pc \in {"init", "connect", "nap"} \/ reopen_file
  PROVE  OneInv'
<1> SUFFICES ASSUME ~reopen_file /\ ~path_too_long
             PROVE  OneConn' /\ TailPending' /\ TailPrinted'
  BY DEF OneInv, options
<1>1. OneConn /\ TailPending /\ TailPrinted
  BY DEF OneInv
<1>2. PICK c : c = consumed
  OBVIOUS
<1>3. /\ HeaderLen' = HeaderLen
      /\ Bytes(HeaderLen, Least(consumed, HeaderLen + conn.size))'
           = Bytes(HeaderLen, Least(consumed, HeaderLen + conn.size))
      /\ Wanted' = Wanted
      /\ AllOfTailRead' <=> AllOfTailRead
  <2>1. consumed' = c
    BY <1>2
  <2>2. /\ HeaderLen' = HeaderLen
        /\ Bytes(HeaderLen, Least(consumed, HeaderLen + conn.size))'
             = Bytes(HeaderLen, Least(c, HeaderLen + conn.size))
        /\ Wanted' = OfferedTail \o Bytes(HeaderLen + conn.size, c)
        /\ AllOfTailRead' <=> conns > 0 /\ conn.ok /\ c >= HeaderLen + conn.size
    BY <2>1, SameOffer
  <2> QED BY <1>2, <2>2 DEF Wanted, AllOfTailRead
<1>4. OneConn'
  <2>1. (pc' \in {"init", "connect", "nap"} => conns' = 0) /\ (conns' = 0 => buffered' = <<>>)
    BY <1>1 DEF OneConn
  <2>2. ASSUME conns' > 0, conn'.ok, pc' # "crashed"
        PROVE  buffered' = Bytes(HeaderLen, Least(consumed, HeaderLen + conn.size))'
    <3>1. conns > 0 /\ conn.ok /\ pc # "crashed"
      BY <2>2
    <3>2. buffered = Bytes(HeaderLen, Least(consumed, HeaderLen + conn.size))
      BY <1>1, <3>1 DEF OneConn
    <3> QED BY <1>3, <3>2
  <2> QED BY <2>1, <2>2 DEF OneConn
<1>5. TailPending'
  <2>1. HeaderLen' + conn'.size = HeaderLen + conn.size
    BY <1>3
  <2> QED BY <1>1, <1>3, <2>1 DEF TailPending
<1>6. TailPrinted'
  BY <1>1, <1>3 DEF TailPrinted
<1> QED BY <1>4, <1>5, <1>6

\* A step that reads some of the size line or the tail.
LEMMA OneRead ==
  ASSUME ReadInv, OneInv, ~reopen_file, ~path_too_long, UNCHANGED options,
         UNCHANGED <<tail_output, conns, conn>>,
         Reading, pc' \in {"check", "crashed"},
         consumed < HeaderLen + conn.size,
         NEW c \in Nat, consumed' = c, consumed <= c, c <= HeaderLen + conn.size,
         c >= HeaderLen + conn.size /\ conn.ok => server_buffer_size_known',
         conn.ok /\ pc' # "crashed" =>
           buffered' = buffered \o IF HeaderLen > consumed THEN Bytes(HeaderLen, c)
                                                           ELSE Bytes(consumed, c)
  PROVE  OneInv'
<1>1. OneConn /\ TailPending /\ TailPrinted /\ TypeOK /\ ConnInv
  BY DEF OneInv, ReadInv
<1>2. HeaderLen \in Nat /\ conn.size \in Nat /\ consumed \in Nat /\ conn.ok \in BOOLEAN
  BY <1>1, ConnFacts
<1>3. /\ HeaderLen' = HeaderLen
      /\ Bytes(HeaderLen, Least(consumed, HeaderLen + conn.size))'
           = Bytes(HeaderLen, Least(c, HeaderLen + conn.size))
      /\ AllOfTailRead' <=> conns > 0 /\ conn.ok /\ c >= HeaderLen + conn.size
  BY SameOffer
<1>4. conns > 0 /\ pc = "loop"
  BY <1>1 DEF ConnInv, Reading
<1>5. ~AllOfTailRead /\ ~tail_output
  BY <1>1, <1>2 DEF AllOfTailRead, TailPrinted
<1>6. OneConn'
  <2>1. ASSUME conn.ok, pc' # "crashed"
        PROVE  buffered' = Bytes(HeaderLen, Least(c, HeaderLen + conn.size))
    <3>1. Least(c, HeaderLen + conn.size) = c /\ Least(consumed, HeaderLen + conn.size) = consumed
      BY <1>2 DEF Least
    <3>2. buffered = Bytes(HeaderLen, consumed)
      BY <1>1, <1>4, <2>1, <3>1 DEF OneConn
    <3>3. CASE HeaderLen > consumed
      <4>1. buffered = <<>>
        BY <1>1, <1>2, <3>2, <3>3, NoBytes
      <4>2. buffered' = <<>> \o Bytes(HeaderLen, c)
        BY <2>1, <3>3, <4>1
      <4>3. Bytes(HeaderLen, c) \in Seq(1..MaxBytes)
        <5>1. CASE HeaderLen <= c
          BY <1>1, <1>2, <5>1, TailBytes
        <5>2. CASE ~(HeaderLen <= c)
          <6>1. Bytes(HeaderLen, c) = <<>>
            BY <1>1, <1>2, <5>2, NoBytes
          <6> QED BY <6>1
        <5> QED BY <5>1, <5>2
      <4> QED BY <3>1, <4>2, <4>3, ConcatEmptySeq
    <3>4. CASE ~(HeaderLen > consumed)
      <4>1. HeaderLen <= consumed
        BY <1>2, <3>4
      <4>2. Bytes(HeaderLen, consumed) \o Bytes(consumed, c) = Bytes(HeaderLen, c)
        BY <1>1, <1>2, <4>1, BytesJoin
      <4> QED BY <2>1, <3>1, <3>2, <3>4, <4>2
    <3> QED BY <3>3, <3>4
  <2>2. pc' \notin {"init", "connect", "nap"} /\ conns' > 0 /\ ~(conns' = 0)
    <3>1. conns \in 0..MaxConns
      BY <1>1 DEF TypeOK, WorldTypes
    <3> QED BY <1>4, <3>1
  <2> QED BY <1>3, <2>1, <2>2 DEF OneConn
<1>7. TailPending'
  <2>1. AllOfTailRead' => consumed' = HeaderLen' + conn'.size
    BY <1>2, <1>3
  <2>2. AllOfTailRead' => server_buffer_size_known'
    BY <1>3
  <2> QED BY <2>1, <2>2 DEF TailPending
<1>8. TailPrinted'
  BY <1>5 DEF TailPrinted
<1> QED BY <1>6, <1>7, <1>8 DEF OneInv

LEMMA OfferedTailType ==
  ASSUME TypeOK, ConnInv
  PROVE  OfferedTail \in Seq(1..MaxBytes)
<1> DEFINE bytes == Bytes(HeaderLen, HeaderLen + conn.size)
<1>1. bytes \in Seq(1..MaxBytes)
  <2>1. /\ HeaderLen \in Nat /\ HeaderLen + conn.size \in Nat
        /\ HeaderLen <= HeaderLen + conn.size /\ HeaderLen <= HeaderLen
        /\ HeaderLen + conn.size <= HeaderLen + conn.size
    BY ConnFacts, SMTT(40)
  <2> QED BY <2>1, TailBytes
<1> HIDE DEF bytes
<1>2. 1..MaxBytes \in SUBSET Nat
  OBVIOUS
<1> QED BY <1>1, <1>2, LastUnitsIs DEF OfferedTail, bytes

LEMMA OneStep ==
  ASSUME ReadInv, OneInv, [Next]_vars
  PROVE  OneInv'
<1>0. UNCHANGED options
  BY StepFlags DEF ReadInv, TypeOK
<1> SUFFICES ASSUME ~reopen_file, ~path_too_long
             PROVE  OneInv'
  BY <1>0 DEF OneInv, options
<1>1. OneConn /\ TailPending /\ TailPrinted /\ TypeOK /\ ConnInv /\ ParserInv
      /\ TailFirst /\ BrokenInv
  BY DEF OneInv, ReadInv
<1>2. /\ HeaderLen \in Nat /\ conn.size \in Nat /\ consumed \in Nat /\ conn.ok \in BOOLEAN
      /\ conn.sent \in Nat
  BY <1>1, ConnFacts
<1>3. conns \in Nat
  BY <1>1, ClientSizesAssumption DEF TypeOK, WorldTypes
<1>4. CASE \/ init_all \/ ConnectFails \/ Wake \/ Ask \/ ReadIntoNull \/ Retry
           \/ libev_error_handler \/ final_all \/ close_stdout \/ ReadEnds
  <2>1. /\ UNCHANGED <<buffered, stdout, tail_output, broken, conns, consumed, conn>>
        /\ pc # "check" /\ pc # "crashed"
        /\ pc' \in {"init", "connect", "nap"} =>
             pc \in {"init", "connect", "nap"} \/ reopen_file
    BY <1>4 DEF init_all, ConnectFails, Wake, Ask, ReadIntoNull, ReadEnds, Reading, Retry,
         libev_error_handler, final_all, close_stdout, tailbuf, output, world
  <2>2. /\ conn'.digits = conn.digits /\ conn'.ok = conn.ok /\ conn'.size = conn.size
        /\ conn'.cut = conn.cut
    BY <2>1
  <2> QED BY <1>0, <2>1, <2>2, OneQuiet
<1>5. CASE sigint_cb \/ Feed \/ Send \/ Hangup \/ FileChanges \/ UNCHANGED vars
  <2>1. /\ UNCHANGED <<buffered, stdout, tail_output, broken, conns, consumed,
                       server_buffer_size_known>>
        /\ \/ pc' = pc
           \/ pc \in {"loop", "nap"} /\ pc' = "final"
    BY <1>5 DEF sigint_cb, Feed, Send, Hangup, FileChanges, vars, parser, tailbuf, output,
         world
  <2>2. conn' = conn \/ conn' = [conn EXCEPT !.sent = @ + 1]
        \/ conn' = [conn EXCEPT !.closed = TRUE]
    BY <1>5 DEF sigint_cb, Feed, Send, Hangup, FileChanges, vars, world
  <2>3. /\ conn'.digits = conn.digits /\ conn'.ok = conn.ok /\ conn'.size = conn.size
        /\ conn'.cut = conn.cut
    BY <1>1, <2>2 DEF ConnInv, Connections
  <2> QED BY <1>0, <2>1, <2>3, OneQuiet
<1>6. CASE Connect \/ ConnectTooLong
  <2>1. pc = "connect" /\ Connect
    BY <1>6 DEF Connect, clientconn_connect, ConnectTooLong
  <2>2. conns = 0 /\ buffered = <<>>
    BY <1>1, <2>1 DEF OneConn
  <2>3. ~tail_output
    BY <1>1, <1>3, <2>2 DEF TailPrinted, AllOfTailRead
  <2>4. /\ UNCHANGED <<buffered, tail_output>> /\ consumed' = 0 /\ conns' = 1
        /\ pc' \in {"loop", "ask"}
    BY <2>1, <2>2 DEF Connect, clientconn_connect, Connected, tailbuf, output
  <2>5. TypeOK' /\ ConnInv' /\ HeaderLen' \in Nat \ {0} /\ conn'.size \in Nat
    <3>1. ReadInv'
      BY ReadStep
    <3>2. TypeOK' /\ ConnInv'
      BY <3>1 DEF ReadInv
    <3>3. /\ conn'.digits \in Seq(Nat) /\ conn'.size \in Nat
          /\ HeaderLen' = Len(conn'.digits) + 1
      BY <3>2 DEF ConnInv, Connections, HeaderLen
    <3>4. Len(conn'.digits) \in Nat
      BY <3>3, LenProperties
    <3> QED BY <3>2, <3>3, <3>4
  <2>6. ~AllOfTailRead'
    <3>1. ~(0 >= HeaderLen' + conn'.size)
      BY <2>5
    <3> QED BY <2>4, <3>1 DEF AllOfTailRead
  <2>7. Bytes(HeaderLen, Least(consumed, HeaderLen + conn.size))' = <<>>
    <3>1. PICK lo : lo = HeaderLen'
      OBVIOUS
    <3>2. Least(0, lo + conn'.size) = 0 /\ 1..(0 - lo) = {}
      <4>1. \A x \in Nat \ {0}, y \in Nat : 0 < x + y /\ 1..(0 - x) = {}
        OBVIOUS
      <4>2. 0 < lo + conn'.size /\ 1..(0 - lo) = {}
        BY <2>5, <3>1, <4>1
      <4> QED BY <4>2 DEF Least
    <3>3. Bytes(HeaderLen, Least(consumed, HeaderLen + conn.size))'
            = [i \in 1..(0 - lo) |-> conn'.cut - conn'.size + lo + i - lo]
      BY <2>4, <3>1, <3>2 DEF Bytes
    <3>4. [i \in {} |-> conn'.cut - conn'.size + lo + i - lo] = <<>>
      OBVIOUS
    <3> QED BY <3>2, <3>3, <3>4
  <2>8. OneConn'
    BY <2>2, <2>4, <2>7 DEF OneConn
  <2> QED BY <2>3, <2>4, <2>6, <2>8 DEF OneInv, TailPending, TailPrinted
<1>7. CASE ReadSizeLine
  <2>1. /\ Reading /\ ~server_buffer_size_known /\ UNCHANGED <<tail_output, conns, conn>>
        /\ pc' \in {"check", "crashed"}
    BY <1>7 DEF ReadSizeLine, output, world
  <2>2. PICK n \in 1..Least(Least(SafeToRead, ReadSize), Available) :
          /\ consumed' = consumed + n
          /\ \/ consumed + n < HeaderLen /\ UNCHANGED tailbuf
             \/ /\ consumed + n >= HeaderLen /\ server_buffer_size_known' = TRUE
                /\ BufferAppend(Bytes(HeaderLen, consumed + n)) \/ pc' = "crashed"
             \/ consumed + n >= HeaderLen /\ ~conn.ok
    BY <1>7 DEF ReadSizeLine
  <2>3. /\ n \in Nat \ {0} /\ consumed < HeaderLen /\ consumed + n <= HeaderLen + conn.size
    BY <1>1, <2>1, ReadingOn DEF Reading
  <2>4. PICK c \in Nat : c = consumed + n
    BY <1>2, <2>3
  <2>5. /\ consumed < HeaderLen + conn.size /\ consumed' = c /\ consumed <= c
        /\ c <= HeaderLen + conn.size /\ HeaderLen > consumed
    BY <1>2, <2>2, <2>3, <2>4
  <2>6. c >= HeaderLen + conn.size /\ conn.ok => server_buffer_size_known'
    <3>1. c >= HeaderLen + conn.size => ~(consumed + n < HeaderLen)
      BY <1>2, <2>4
    <3> QED BY <2>2, <3>1
  <2>7. ASSUME conn.ok /\ pc' # "crashed"
        PROVE  buffered' = buffered \o Bytes(HeaderLen, c)
    <3>1. CASE consumed + n < HeaderLen /\ UNCHANGED tailbuf
      <4>1. Bytes(HeaderLen, c) = <<>>
        BY <1>1, <1>2, <2>4, <3>1, NoBytes
      <4>2. buffered \in Seq(1..MaxBytes)
        BY <1>1 DEF TypeOK, DataTypes
      <4> QED BY <3>1, <4>1, <4>2, ConcatEmptySeq DEF tailbuf
    <3>2. CASE BufferAppend(Bytes(HeaderLen, consumed + n))
      BY <2>4, <3>2 DEF BufferAppend
    <3> QED BY <2>2, <2>7, <3>1, <3>2
  <2> QED BY <1>0, <2>1, <2>5, <2>6, <2>7, OneRead
<1>8. CASE ReadTail
  <2>1. /\ Reading /\ server_buffer_size_known /\ server_buffer_size_remain > 0
        /\ pc' = "check" /\ UNCHANGED <<tail_output, conns, conn, server_buffer_size_known>>
    BY <1>8 DEF ReadTail, output, world
  <2>2. PICK n \in 1..Least(Least(server_buffer_size_remain, ReadSize), Available) :
          /\ consumed' = consumed + n
          /\ buffered' = buffered \o Bytes(consumed, consumed + n)
    BY <1>8 DEF ReadTail, BufferAppend
  <2>3. /\ consumed >= HeaderLen /\ consumed < HeaderLen + conn.size
        /\ server_buffer_size_remain = HeaderLen + conn.size - consumed
    <3>1. /\ consumed >= HeaderLen
          /\ server_buffer_size_remain = IF consumed > HeaderLen + conn.size
                                         THEN 0 ELSE HeaderLen + conn.size - consumed
      BY <1>1, <2>1 DEF ParserInv
    <3> QED BY <1>2, <2>1, <3>1
  <2>4. n \in Nat \ {0} /\ n <= server_buffer_size_remain
    <3>1. ReadSize \in Nat
      BY ClientSizesAssumption
    <3> QED BY <1>2, <2>3, <3>1 DEF Least, Available
  <2>5. PICK c \in Nat : c = consumed + n
    BY <1>2, <2>4
  <2>6. /\ consumed' = c /\ consumed <= c /\ c <= HeaderLen + conn.size
        /\ ~(HeaderLen > consumed)
    BY <1>2, <2>2, <2>3, <2>4, <2>5
  <2> QED BY <1>0, <2>1, <2>2, <2>3, <2>5, <2>6, OneRead
<1>9. CASE ReadFollow
  <2>1. /\ pc = "loop" /\ pc' = "check"
        /\ UNCHANGED <<tail_output, buffered, conn, conns>>
    BY <1>9 DEF ReadFollow, Reading, tailbuf, world
  <2>2. tail_output /\ ~broken /\ stdout = Wanted /\ AllOfTailRead /\ conns > 0 /\ conn.ok
    <3>1. tail_output /\ ~broken
      BY <1>1, <1>9, <2>1 DEF ReadFollow, TailFirst, BrokenInv
    <3> QED BY <1>1, <3>1 DEF TailPrinted, AllOfTailRead
  <2>3. PICK n \in Nat \ {0} : \E k \in 0..n :
          LET part == SubSeq(Bytes(consumed, consumed + n), 1, k) IN
          /\ consumed' = consumed + n /\ consumed + n <= conn.sent
          /\ consumed >= HeaderLen + conn.size
          /\ stdout' = stdout \o part
          /\ part \in Seq(1..MaxBytes) /\ Len(part) = k
          /\ \A i \in 1..k : part[i] = conn.cut + (consumed - HeaderLen - conn.size) + i
          /\ \/ k = n /\ UNCHANGED <<broken, error>>
             \/ broken' = TRUE /\ error' = TRUE
    BY <1>9, ReadFollowIs
  <2>4. PICK k \in 0..n :
          LET part == SubSeq(Bytes(consumed, consumed + n), 1, k) IN
          /\ consumed' = consumed + n /\ consumed + n <= conn.sent
          /\ consumed >= HeaderLen + conn.size
          /\ stdout' = stdout \o part
          /\ part \in Seq(1..MaxBytes) /\ Len(part) = k
          /\ \A i \in 1..k : part[i] = conn.cut + (consumed - HeaderLen - conn.size) + i
          /\ \/ k = n /\ UNCHANGED <<broken, error>>
             \/ broken' = TRUE /\ error' = TRUE
    BY <2>3
  <2> DEFINE bytes == Bytes(consumed, consumed + n)
             part == SubSeq(bytes, 1, k)
  <2>5. /\ consumed' = consumed + n /\ consumed + n <= conn.sent
        /\ consumed >= HeaderLen + conn.size /\ consumed + n >= HeaderLen + conn.size
        /\ consumed <= consumed + n /\ consumed + n \in Nat /\ HeaderLen + conn.size \in Nat
    BY <1>2, <2>4
  <2>6. /\ stdout' = stdout \o part /\ part \in Seq(1..MaxBytes) /\ Len(part) = k
        /\ \A i \in 1..k : part[i] = conn.cut + (consumed - HeaderLen - conn.size) + i
        /\ \/ k = n /\ UNCHANGED broken
           \/ broken' = TRUE
    BY <2>4
  <2> HIDE DEF part
  <2>7. /\ bytes \in Seq(1..MaxBytes) /\ Len(bytes) = n
        /\ \A i \in 1..n : bytes[i] = conn.cut + (consumed - HeaderLen - conn.size) + i
    <3>1. (consumed + n) - consumed = n
      BY <1>2
    <3> QED BY <1>1, <1>2, <2>5, <3>1, LaterBytes
  <2>8. Wanted \o bytes = OfferedTail \o Bytes(HeaderLen + conn.size, consumed + n)
    <3>1. Bytes(HeaderLen + conn.size, consumed) \o bytes
            = Bytes(HeaderLen + conn.size, consumed + n)
      BY <1>1, <1>2, <2>5, BytesJoin
    <3>2. OfferedTail \in Seq(1..MaxBytes)
      BY <1>1, OfferedTailType
    <3>3. Bytes(HeaderLen + conn.size, consumed) \in Seq(1..MaxBytes)
      <4>1. consumed <= conn.sent /\ HeaderLen + conn.size <= HeaderLen + conn.size
        BY <1>2, <2>5
      <4> QED BY <1>1, <1>2, <2>5, <4>1, LaterBytes
    <3> DEFINE follows == Bytes(HeaderLen + conn.size, consumed)
    <3> HIDE DEF bytes, follows
    <3>4. (OfferedTail \o follows) \o bytes = OfferedTail \o (follows \o bytes)
      BY <2>7, <3>2, <3>3, ConcatAssociative DEF follows
    <3> QED BY <3>1, <3>4 DEF Wanted, follows
  <2> HIDE DEF bytes
  <2>9. PICK c \in Nat : c = consumed + n
    BY <2>5
  <2>10. /\ Bytes(HeaderLen, Least(consumed, HeaderLen + conn.size))'
              = Bytes(HeaderLen, Least(c, HeaderLen + conn.size))
         /\ Wanted' = OfferedTail \o Bytes(HeaderLen + conn.size, c)
         /\ AllOfTailRead' <=> conns > 0 /\ conn.ok /\ c >= HeaderLen + conn.size
    BY <1>0, <2>1, <2>5, <2>9, SameOffer
  <2>11. Wanted' = Wanted \o bytes /\ AllOfTailRead'
    BY <2>2, <2>5, <2>8, <2>9, <2>10
  <2>12. OneConn'
    <3>1. Least(c, HeaderLen + conn.size) = Least(consumed, HeaderLen + conn.size)
      BY <1>2, <2>5, <2>9 DEF Least
    <3>2. buffered = Bytes(HeaderLen, Least(consumed, HeaderLen + conn.size))
      BY <1>1, <2>1, <2>2 DEF OneConn
    <3>3. ~(conns = 0)
      BY <1>3, <2>2
    <3> QED BY <2>1, <2>10, <3>1, <3>2, <3>3 DEF OneConn
  <2>13. TailPrinted'
    <3>1. Wanted \in Seq(1..MaxBytes)
      BY <1>1, <2>2 DEF TypeOK, DataTypes
    <3>2. IsPrefix(Wanted \o part, Wanted \o bytes)
      <4>1. k \in 0..Len(bytes) /\ \A i \in 1..k : i \in 1..n
        BY <2>7
      <4>2. \A i \in 1..k : part[i] = bytes[i]
        BY <2>6, <2>7, <4>1
      <4> QED BY <2>6, <2>7, <3>1, <4>1, <4>2, PrefixOfMore
    <3>3. CASE broken'
      BY <2>2, <2>6, <2>11, <3>2, <3>3 DEF TailPrinted
    <3>4. CASE ~broken'
      <4>1. k = n
        BY <2>6, <3>4
      <4>2. part = bytes
        BY <2>6, <2>7, <4>1, SeqEqual
      <4> QED BY <2>2, <2>6, <2>11, <3>4, <4>2 DEF TailPrinted
    <3> QED BY <3>3, <3>4
  <2> QED BY <2>1, <2>2, <2>12, <2>13 DEF OneInv, TailPending
<1>10. CASE Check
  <2>1. /\ pc = "check" /\ pc' \in {"retry", "loop"}
        /\ UNCHANGED <<server_buffer_size_known, server_buffer_size_remain, buffered, conn,
                       conns, consumed>>
    BY <1>10 DEF Check, parser, tailbuf, world
  <2>2. /\ Bytes(HeaderLen, Least(consumed, HeaderLen + conn.size))'
             = Bytes(HeaderLen, Least(consumed, HeaderLen + conn.size))
        /\ Wanted' = Wanted
        /\ AllOfTailRead' <=> AllOfTailRead
    <3>1. PICK c : c = consumed
      OBVIOUS
    <3>2. /\ Bytes(HeaderLen, Least(consumed, HeaderLen + conn.size))'
               = Bytes(HeaderLen, Least(c, HeaderLen + conn.size))
          /\ Wanted' = OfferedTail \o Bytes(HeaderLen + conn.size, c)
          /\ AllOfTailRead' <=> conns > 0 /\ conn.ok /\ c >= HeaderLen + conn.size
      BY <1>0, <2>1, <3>1, SameOffer
    <3> QED BY <3>1, <3>2 DEF Wanted, AllOfTailRead
  <2>3. OneConn'
    BY <1>1, <2>1, <2>2 DEF OneConn
  <2>4. CASE /\ ~clientconn_is_all_server_buffer_read \/ tail_output
             /\ UNCHANGED <<tail_output, broken, stdout>>
    <3>1. ~tail_output => ~AllOfTailRead
      <4> SUFFICES ASSUME ~tail_output, AllOfTailRead
                   PROVE  FALSE
        OBVIOUS
      <4>1. server_buffer_size_known /\ consumed = HeaderLen + conn.size
        BY <1>1, <2>1 DEF TailPending
      <4>2. server_buffer_size_remain = 0
        BY <1>1, <1>2, <4>1 DEF ParserInv
      <4> QED BY <2>4, <4>1, <4>2 DEF clientconn_is_all_server_buffer_read
    <3>2. TailPending'
      BY <2>2, <2>4, <3>1 DEF TailPending
    <3>3. TailPrinted'
      BY <1>1, <2>2, <2>4 DEF TailPrinted
    <3> QED BY <2>3, <3>2, <3>3 DEF OneInv
  <2>5. CASE /\ clientconn_is_all_server_buffer_read /\ ~tail_output /\ tail_output' = TRUE
             /\ \E k \in 0..Len(LastUnits(buffered)) :
                  LET part == SubSeq(LastUnits(buffered), 1, k) IN
                  /\ stdout' = stdout \o part
                  /\ part \in Seq(1..MaxBytes) /\ Len(part) = k
                  /\ \A i \in 1..k : part[i] = LastUnits(buffered)[i]
                  /\ \/ k = Len(LastUnits(buffered)) /\ UNCHANGED <<broken, error>>
                     \/ broken' = TRUE /\ error' = TRUE
    <3>1. conns > 0 /\ conn.ok /\ consumed >= HeaderLen + conn.size
      <4>1. /\ server_buffer_size_known /\ server_buffer_size_remain = 0
            /\ conns > 0 /\ conn.ok
            /\ server_buffer_size_remain = IF consumed > HeaderLen + conn.size
                                           THEN 0 ELSE HeaderLen + conn.size - consumed
        BY <1>1, <2>5 DEF ParserInv, clientconn_is_all_server_buffer_read
      <4> QED BY <1>2, <4>1
    <3>2. AllOfTailRead /\ consumed = HeaderLen + conn.size
      BY <1>1, <2>5, <3>1 DEF AllOfTailRead, TailPending
    <3>3. LastUnits(buffered) = OfferedTail
      <4>1. buffered = Bytes(HeaderLen, Least(consumed, HeaderLen + conn.size))
        BY <1>1, <2>1, <3>1 DEF OneConn
      <4>2. Least(consumed, HeaderLen + conn.size) = HeaderLen + conn.size
        BY <3>2 DEF Least
      <4> QED BY <4>1, <4>2 DEF OfferedTail
    <3>4. OfferedTail \in Seq(1..MaxBytes)
      BY <1>1, OfferedTailType
    <3>5. Wanted = OfferedTail
      <4>1. Bytes(HeaderLen + conn.size, consumed) = <<>>
        BY <1>1, <1>2, <3>2, NoBytes
      <4> QED BY <3>4, <4>1, ConcatEmptySeq DEF Wanted
    <3>6. stdout = <<>> /\ ~broken
      BY <1>1, <2>5 DEF TailFirst
    <3>7. PICK k \in 0..Len(OfferedTail), part \in Seq(1..MaxBytes) :
            /\ stdout' = <<>> \o part /\ Len(part) = k
            /\ \A i \in 1..k : part[i] = OfferedTail[i]
            /\ \/ k = Len(OfferedTail) /\ UNCHANGED broken
               \/ broken' = TRUE
      BY <2>5, <3>3, <3>6
    <3>8. stdout' = part
      BY <3>7, ConcatEmptySeq
    <3>9. TailPrinted'
      <4>1. IsPrefix(part, OfferedTail)
        <5>1. Len(OfferedTail) \in Nat
          BY <3>4, LenProperties
        <5>2. Len(part) <= Len(OfferedTail)
          BY <3>7, <5>1
        <5> QED BY <3>4, <3>7, <5>2, PrefixByElements
      <4>2. CASE broken'
        BY <2>2, <3>2, <3>5, <3>8, <4>1, <4>2 DEF TailPrinted
      <4>3. CASE ~broken'
        <5>1. part = OfferedTail
          BY <3>4, <3>7, <4>3, SeqEqual
        <5> QED BY <2>2, <3>2, <3>5, <3>8, <4>3, <5>1 DEF TailPrinted
      <4> QED BY <4>2, <4>3
    <3> QED BY <2>3, <2>5, <3>9 DEF OneInv, TailPending
  <2> QED BY <1>10, <2>4, <2>5, CheckIs
<1> QED BY <1>4, <1>5, <1>6, <1>7, <1>8, <1>9, <1>10 DEF Next, ClientStep

LEMMA OneAlways == Spec => []OneInv
<1>1. Init => OneInv
  BY DEF Init, OneInv, OneConn, TailPending, TailPrinted, AllOfTailRead
<1>2. ReadInv /\ OneInv /\ [Next]_vars => OneInv'
  BY OneStep
<1> QED BY <1>1, <1>2, ReadAlways, PTL DEF Spec

\* Without -F tailclient prints the last n_units of the tail its server offered, once it
\* has all of it, and then all that it reads, unless stdout breaks
\* (unix_sock_readable_cb).
THEOREM PrintsTheTailAndWhatFollows == Spec => []PrintsWhatItReads
<1>1. ReadInv /\ OneInv => PrintsWhatItReads
  <2> SUFFICES ASSUME OneInv, ReadInv, ~reopen_file, ~path_too_long, pc \notin {"check", "crashed"}
               PROVE  IF AllOfTailRead
                      THEN IF broken THEN IsPrefix(stdout, Wanted) ELSE stdout = Wanted
                      ELSE stdout = <<>>
    BY DEF PrintsWhatItReads, Wanted
  <2>1. TailPending /\ TailPrinted /\ TailFirst /\ tail_output \in BOOLEAN
    BY DEF OneInv, ReadInv, TypeOK, FlagTypes
  <2>2. CASE tail_output
    BY <2>1, <2>2 DEF TailPrinted
  <2>3. CASE ~tail_output
    BY <2>1, <2>3 DEF TailPending, TailFirst
  <2> QED BY <2>2, <2>3
<1> QED BY <1>1, ReadAlways, OneAlways, PTL
=================================================================================
