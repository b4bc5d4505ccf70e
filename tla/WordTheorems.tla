---------------------------- MODULE WordTheorems ----------------------------
(***************************************************************************)
(* Facts about machine words and alignment: where the arithmetic does not  *)
(* wrap it is the arithmetic of the naturals, and where align_up does not  *)
(* wrap it goes up by less than the alignment.  And and SumTo are          *)
(* recursions, so what is said of them is shown by induction.              *)
(***************************************************************************)
EXTENDS Words, Integers, FiniteSetTheorems, WellFoundedInduction, TLAPS

----------------------------------------------------------------------------
\* Induction over the natural numbers, in the form of sets: a predicate is the
\* set of the numbers it holds of.

\* What holds of 0 and of n + 1 whenever of n holds of every number: the set
\* of those it does not hold of has no least element.
LEMMA SetInduction ==
    ASSUME NEW S, 0 \in S, \A n \in Nat : n \in S => n + 1 \in S
    PROVE  \A n \in Nat : n \in S
<1> DEFINE T == Nat \ S
           R == OpToRel(<, Nat)
<1>1. SUFFICES ASSUME T # {} PROVE FALSE
  OBVIOUS
<1>2. \A x, y \in Nat : x < y => <<x, y>> \in R
  BY DEF OpToRel
<1>3. IsWellFoundedOn(R, Nat)
  BY NatLessThanWellFounded
<1> HIDE DEF R
<1>4. PICK m \in T : \A y \in T : ~(<<y, m>> \in R)
  BY <1>1, <1>3, WFMin
<1>5. m \in Nat /\ m # 0
  OBVIOUS
<1>6. m - 1 \in Nat /\ (m - 1) + 1 = m /\ m - 1 < m
  BY <1>5
<1>7. m - 1 \in S
  BY <1>2, <1>4, <1>5, <1>6
<1> QED
  BY <1>6, <1>7

----------------------------------------------------------------------------
\* Words and alignment.

\* A remainder is below the divisor and no larger than the dividend.
LEMMA ModRange ==
    ASSUME NEW x \in Nat, NEW a \in Nat \ {0}
    PROVE  x % a \in 0 .. a - 1 /\ x % a <= x
OBVIOUS

\* Addition and subtraction of words yield words.
LEMMA WordClosed ==
    ASSUME NEW a \in Word, NEW b \in Word
    PROVE  Add(a, b) \in Word /\ Sub(a, b) \in Word
BY WordAssumption, ModRange DEF Word, Add, Sub

\* A sum below 2^64 does not wrap.
LEMMA AddExact ==
    ASSUME NEW a \in Nat, NEW b \in Nat, a + b < WORD
    PROVE  Add(a, b) = a + b
BY WordAssumption DEF Add

\* A difference of a word and a smaller one does not wrap.
LEMMA SubExact ==
    ASSUME NEW a \in Word, NEW b \in Nat, b <= a
    PROVE  Sub(a, b) = a - b
<1>1. a - b \in Nat /\ a - b < WORD
  BY WordAssumption DEF Word
<1>2. a + WORD - b = (a - b) + WORD
  BY WordAssumption DEF Word
<1>3. ((a - b) + WORD) % WORD = (a - b) % WORD
  BY <1>1, WordAssumption
<1> QED
  BY <1>1, <1>2, <1>3, WordAssumption DEF Sub

\* align_down yields a word no larger than its argument.
LEMMA AlignDownBound ==
    ASSUME NEW v \in Word, NEW a \in Nat \ {0}
    PROVE  AlignDown(v, a) \in Word /\ AlignDown(v, a) <= v
<1>1. v \in Nat /\ v < WORD
  BY WordAssumption DEF Word
<1>2. v % a \in 0 .. a - 1 /\ v % a <= v
  BY <1>1, ModRange
<1> QED
  BY <1>1, <1>2, WordAssumption DEF Word, AlignDown

\* align_up of words is a word.
LEMMA AlignUpWord ==
    ASSUME NEW v \in Word, NEW a \in Word \ {0}
    PROVE  AlignUp(v, a) \in Word
<1>1. 1 \in Word
  BY WordAssumption DEF Word
<1>2. Sub(a, 1) \in Word
  BY <1>1, WordClosed
<1>3. Add(v, Sub(a, 1)) \in Word
  BY <1>2, WordClosed
<1> QED
  BY <1>3, AlignDownBound DEF AlignUp, Word

\* Where it does not wrap, align_up goes up by less than the alignment.
LEMMA AlignUpBound ==
    ASSUME NEW v \in Word, NEW a \in Word \ {0}, v + a <= WORD
    PROVE  v <= AlignUp(v, a) /\ AlignUp(v, a) < v + a
<1>1. Sub(a, 1) = a - 1
  BY SubExact, WordAssumption DEF Word
<1>2. Add(v, a - 1) = v + (a - 1)
  BY AddExact, WordAssumption DEF Word
<1>3. (v + (a - 1)) % a \in 0 .. a - 1
  BY ModRange, WordAssumption DEF Word
<1> QED
  BY <1>1, <1>2, <1>3, WordAssumption DEF Word, AlignUp, AlignDown

\* A dividend is the quotient's multiple of the divisor and the remainder.
LEMMA Division ==
    ASSUME NEW x \in Nat, NEW a \in Nat \ {0}
    PROVE  x \div a \in Nat /\ x = (a * (x \div a)) + (x % a)
OBVIOUS

\* What is added to a multiple, and is less than the divisor, is the remainder.
LEMMA RemainderOf ==
    ASSUME NEW q \in Nat, NEW a \in Nat \ {0}, NEW c \in 0 .. a - 1
    PROVE  ((a * q) + c) % a = c
OBVIOUS

\* A difference with a smaller number is no larger than the number, whether it
\* is a word or not.
LEMMA SubBound ==
    ASSUME NEW a \in Nat, NEW b \in 0 .. a
    PROVE  Sub(a, b) \in Nat /\ Sub(a, b) <= a
<1>1. PICK d \in Nat : d = a - b /\ d <= a
  OBVIOUS
<1>2. PICK w \in Nat \ {0} : w = WORD
  BY WordAssumption
<1>3. PICK q \in Nat, r \in 0 .. w - 1 : q = d \div w /\ r = d % w /\ d = (w * q) + r
  BY <1>2, Division, ModRange
<1>4. r <= d
  BY <1>2, <1>3, ModRange
<1>5. PICK p \in Nat : p = q + 1 /\ a + w - b = (w * p) + r
  BY <1>1, <1>2, <1>3
<1>6. ((w * p) + r) % w = r
  BY RemainderOf
<1>7. Sub(a, b) = r
  BY <1>2, <1>5, <1>6 DEF Sub
<1> QED
  BY <1>1, <1>3, <1>4, <1>7

\* The sum of aligned values is aligned.
LEMMA SumAligned ==
    ASSUME NEW x \in Nat, NEW y \in Nat, NEW a \in Nat \ {0}, IsAligned(x, a), IsAligned(y, a)
    PROVE  IsAligned(x + y, a)
<1>1. x = a * (x \div a) /\ y = a * (y \div a)
  BY Division DEF IsAligned
<1>2. x \div a \in Nat /\ y \div a \in Nat
  BY Division
<1>3. x + y = a * ((x \div a) + (y \div a))
  BY <1>1, <1>2
<1>4. (a * ((x \div a) + (y \div a)) + 0) % a = 0
  BY <1>2, RemainderOf
<1> QED
  BY <1>2, <1>3, <1>4 DEF IsAligned

\* align_down aligns.
LEMMA AlignDownAligned ==
    ASSUME NEW v \in Nat, NEW a \in Nat \ {0}
    PROVE  IsAligned(AlignDown(v, a), a)
<1>1. v \div a \in Nat /\ v = (a * (v \div a)) + (v % a)
  BY Division
<1>2. v - (v % a) = (a * (v \div a)) + 0
  <2>1. v % a \in Nat /\ a * (v \div a) \in Nat
    BY <1>1, ModRange
  <2> QED
    BY <1>1, <2>1
<1>3. ((a * (v \div a)) + 0) % a = 0
  BY <1>1, RemainderOf
<1> QED
  BY <1>2, <1>3 DEF IsAligned, AlignDown

\* align_up aligns, even where it wraps.
LEMMA AlignUpAligned ==
    ASSUME NEW v \in Word, NEW a \in Word \ {0}
    PROVE  IsAligned(AlignUp(v, a), a)
<1>1. 1 \in Word
  BY WordAssumption DEF Word
<1>2. Add(v, Sub(a, 1)) \in Word
  BY <1>1, WordClosed
<1> QED
  BY <1>2, AlignDownAligned DEF AlignUp, Word

\* align_up leaves an aligned word where it is.
LEMMA AlignUpStays ==
    ASSUME NEW v \in Word, NEW a \in Word \ {0}, v + a <= WORD, IsAligned(v, a)
    PROVE  AlignUp(v, a) = v
<1>1. Sub(a, 1) = a - 1 /\ a - 1 \in 0 .. a - 1 /\ a \in Nat \ {0} /\ v \in Nat
  BY SubExact, WordAssumption DEF Word
<1>2. Add(v, a - 1) = v + (a - 1)
  BY AddExact, WordAssumption DEF Word
<1>3. v = a * (v \div a) /\ v \div a \in Nat
  BY <1>1, Division DEF IsAligned
<1>4. (v + (a - 1)) % a = a - 1
  BY <1>1, <1>3, RemainderOf
<1>5. AlignUp(v, a) = (v + (a - 1)) - (a - 1)
  BY <1>1, <1>2, <1>4 DEF AlignUp, AlignDown
<1> QED
  BY <1>1, <1>5

----------------------------------------------------------------------------
\* The bits: & and the mask.

\* One step of the recursion that defines &.
AndOf(f, a, b) ==
    IF a = 0 \/ b = 0 THEN 0 ELSE 2 * f[a \div 2][b \div 2] + (a % 2) * (b % 2)

\* f is & for left operands up to n.
AndUpTo(f, n) == \A a \in 0 .. n, b \in Nat : f[a][b] = AndOf(f, a, b)

\* The half of a number is a number, and a smaller one but for 0.
LEMMA Half ==
    ASSUME NEW a \in Nat
    PROVE  /\ a \div 2 \in Nat /\ a % 2 \in {0, 1} /\ a = 2 * (a \div 2) + (a % 2)
           /\ a # 0 => a \div 2 < a
OBVIOUS

\* The recursion can be followed as far as need be.
LEMMA AndExistsUpTo == \A n \in Nat : \E f : AndUpTo(f, n)
<1> DEFINE S == {n \in Nat : \E f : AndUpTo(f, n)}
<1>1. 0 \in S
  <2> DEFINE f == [a \in Nat |-> [b \in Nat |-> 0]]
  <2>1. AndUpTo(f, 0)
    BY DEF AndUpTo, AndOf
  <2> QED
    BY <2>1
<1>2. ASSUME NEW n \in Nat, n \in S PROVE n + 1 \in S
  <2>1. PICK f : AndUpTo(f, n)
    BY <1>2
  <2> DEFINE g == [a \in Nat |-> [b \in Nat |-> IF a <= n THEN f[a][b] ELSE AndOf(f, a, b)]]
  <2>2. ASSUME NEW a \in 0 .. n + 1, NEW b \in Nat PROVE g[a][b] = AndOf(g, a, b)
    <3>1. g[a][b] = AndOf(f, a, b)
      BY <2>1 DEF AndUpTo
    <3>2. CASE a = 0
      BY <3>1, <3>2 DEF AndOf
    <3>3. CASE a # 0
      <4>1. a \div 2 \in 0 .. n /\ b \div 2 \in Nat /\ a \in Nat
        BY <3>3, Half
      <4>2. g[a \div 2][b \div 2] = f[a \div 2][b \div 2]
        BY <4>1
      <4> HIDE DEF g
      <4>3. AndOf(g, a, b) = AndOf(f, a, b)
        BY <4>2 DEF AndOf
      <4> QED
        BY <3>1, <4>3
    <3> QED
      BY <3>2, <3>3
  <2>3. AndUpTo(g, n + 1)
    BY <2>2 DEF AndUpTo
  <2> QED
    BY <2>3
<1> HIDE DEF S
<1>3. \A n \in Nat : n \in S
  BY <1>1, <1>2, SetInduction
<1> QED
  BY <1>3 DEF S

\* However far it is followed, the results are the same.
LEMMA AndUnique ==
    ASSUME NEW f, NEW g, NEW n \in Nat, NEW m \in Nat, AndUpTo(f, n), AndUpTo(g, m)
    PROVE  \A a \in Nat : a <= n /\ a <= m => \A b \in Nat : f[a][b] = g[a][b]
<1> DEFINE S == {k \in Nat : \A a \in 0 .. k :
                    a <= n /\ a <= m => \A b \in Nat : f[a][b] = g[a][b]}
<1>1. ASSUME NEW a \in Nat, a <= n, a <= m, NEW b \in Nat,
             a # 0 => f[a \div 2][b \div 2] = g[a \div 2][b \div 2]
      PROVE  f[a][b] = g[a][b]
  <2>1. f[a][b] = AndOf(f, a, b) /\ g[a][b] = AndOf(g, a, b)
    BY <1>1 DEF AndUpTo
  <2> QED
    BY <2>1, <1>1 DEF AndOf
<1>2. 0 \in S
  BY <1>1
<1>3. ASSUME NEW k \in Nat, k \in S PROVE k + 1 \in S
  <2>1. SUFFICES ASSUME NEW a \in 0 .. k + 1, a <= n, a <= m, NEW b \in Nat
                 PROVE  f[a][b] = g[a][b]
    OBVIOUS
  <2>2. a \in Nat /\ b \div 2 \in Nat
    BY Half
  <2>3. a # 0 => a \div 2 \in 0 .. k /\ a \div 2 <= n /\ a \div 2 <= m
    BY <2>1, <2>2, Half
  <2>4. a # 0 => f[a \div 2][b \div 2] = g[a \div 2][b \div 2]
    BY <1>3, <2>2, <2>3
  <2> QED
    BY <1>1, <2>1, <2>2, <2>4
<1> HIDE DEF S
<1>4. \A k \in Nat : k \in S
  BY <1>2, <1>3, SetInduction
<1> TAKE a \in Nat
<1>5. a \in S /\ a \in 0 .. a
  BY <1>4
<1> QED
  BY <1>5 DEF S

\* & is what its recursion says.
LEMMA AndStep == \A a, b \in Nat : And[a][b] = AndOf(And, a, b)
<1> DEFINE IsAnd(f) == f = [a \in Nat |-> [b \in Nat |->
               IF a = 0 \/ b = 0 THEN 0 ELSE 2 * f[a \div 2][b \div 2] + (a % 2) * (b % 2)]]
           Prefix(n) == CHOOSE f : AndUpTo(f, n)
           F == [a \in Nat |-> [b \in Nat |-> Prefix(a)[a][b]]]
<1>1. \A n \in Nat : AndUpTo(Prefix(n), n)
  BY AndExistsUpTo
<1> HIDE DEF Prefix
<1>2. ASSUME NEW a \in Nat, NEW b \in Nat
      PROVE  F[a][b] = IF a = 0 \/ b = 0 THEN 0 ELSE 2 * F[a \div 2][b \div 2] + (a % 2) * (b % 2)
  <2> DEFINE h == a \div 2
             c == b \div 2
  <2>1. h \in Nat /\ c \in Nat /\ h <= a
    BY Half
  <2>2. Prefix(a)[a][b] = AndOf(Prefix(a), a, b)
    BY <1>1 DEF AndUpTo
  <2> HIDE DEF h, c
  <2>3. Prefix(h)[h][c] = Prefix(a)[h][c]
    BY <1>1, <2>1, AndUnique
  <2>4. F[a][b] = Prefix(a)[a][b] /\ F[h][c] = Prefix(h)[h][c]
    BY <2>1
  <2> HIDE DEF F
  <2> QED
    BY <2>2, <2>3, <2>4 DEF AndOf, h, c
<1>3. IsAnd(F)
  BY <1>2, ZenonT(60)
<1>4. IsAnd(CHOOSE f : IsAnd(f))
  <2> HIDE DEF IsAnd, F
  <2> QED
    BY <1>3
<1>5. And = CHOOSE f : IsAnd(f)
  BY DEF And
<1>6. IsAnd(And)
  <2> HIDE DEF IsAnd
  <2> QED
    BY <1>4, <1>5
<1>7. \A a \in Nat, b \in Nat :
         And[a][b] = IF a = 0 \/ b = 0 THEN 0 ELSE 2 * And[a \div 2][b \div 2] + (a % 2) * (b % 2)
  BY <1>6
<1> QED
  BY <1>7 DEF AndOf

\* What & yields is no larger than either operand.
LEMMA AndBound ==
    ASSUME NEW a \in Nat, NEW b \in Nat
    PROVE  And[a][b] \in Nat /\ And[a][b] <= a /\ And[a][b] <= b
<1> DEFINE Bounded(x, y) == And[x][y] \in Nat /\ And[x][y] <= x /\ And[x][y] <= y
           S == {k \in Nat : \A x \in 0 .. k, y \in Nat : Bounded(x, y)}
<1>1. ASSUME NEW x \in Nat, NEW y \in Nat, x # 0 => Bounded(x \div 2, y \div 2)
      PROVE  Bounded(x, y)
  <2>1. And[x][y] = AndOf(And, x, y)
    BY AndStep
  <2>2. CASE x = 0 \/ y = 0
    BY <2>1, <2>2 DEF AndOf
  <2>3. CASE ~(x = 0 \/ y = 0)
    <3> DEFINE h == x \div 2
               c == y \div 2
               r == x % 2
               s == y % 2
               v == And[h][c]
    <3>1. /\ h \in Nat /\ r \in {0, 1} /\ x = 2 * h + r
          /\ c \in Nat /\ s \in {0, 1} /\ y = 2 * c + s
      BY Half
    <3>2. v \in Nat /\ v <= h /\ v <= c
      BY <1>1, <2>3
    <3>3. And[x][y] = 2 * v + r * s
      BY <2>1, <2>3 DEF AndOf
    <3> HIDE DEF h, c, r, s, v
    <3>4. r * s \in {0, 1} /\ r * s <= r /\ r * s <= s
      BY <3>1
    <3> QED
      BY <3>1, <3>2, <3>3, <3>4
  <2> QED
    BY <2>2, <2>3
<1> HIDE DEF Bounded
<1>2. 0 \in S
  BY <1>1
<1>3. ASSUME NEW k \in Nat, k \in S PROVE k + 1 \in S
  <2>1. SUFFICES ASSUME NEW x \in 0 .. k + 1, NEW y \in Nat PROVE Bounded(x, y)
    OBVIOUS
  <2>2. x \in Nat /\ y \div 2 \in Nat /\ (x # 0 => x \div 2 \in 0 .. k)
    BY Half
  <2> QED
    BY <1>1, <1>3, <2>2
<1> HIDE DEF S
<1>4. \A k \in Nat : k \in S
  BY <1>2, <1>3, SetInduction
<1>5. a \in S /\ a \in 0 .. a
  BY <1>4
<1>6. Bounded(a, b)
  BY <1>5 DEF S
<1> QED
  BY <1>6 DEF Bounded

\* A power of two other than 1 is twice a power of two.
LEMMA PowerHalved ==
    ASSUME NEW a \in Nat, IsPowerOfTwo(a), a # 1
    PROVE  a % 2 = 0 /\ a \div 2 \in Nat \ {0} /\ IsPowerOfTwo(a \div 2)
<1> DEFINE h == a \div 2
<1>1. a > 1 /\ a % a = 0
  BY DEF IsPowerOfTwo
<1>2. a % 2 = 0
  BY <1>1 DEF IsPowerOfTwo
<1>3. h \in Nat \ {0} /\ a = 2 * h
  BY <1>1, <1>2, Half
<1> HIDE DEF h
<1>4. ASSUME NEW d \in 2 .. h, h % d = 0 PROVE d % 2 = 0
  <2> DEFINE q == h \div d
  <2>1. q \in Nat /\ h = d * q
    BY <1>3, <1>4, Division
  <2> HIDE DEF q
  <2>2. a = (d * (2 * q)) + 0 /\ 2 * q \in Nat
    BY <1>3, <2>1
  <2>3. d \in Nat \ {0} /\ 0 \in 0 .. d - 1
    BY <1>3
  <2>4. ((d * (2 * q)) + 0) % d = 0
    BY <2>2, <2>3, RemainderOf
  <2>5. a % d = 0
    BY <2>2, <2>4
  <2>6. d \in 2 .. a
    BY <1>3
  <2> QED
    BY <2>5, <2>6 DEF IsPowerOfTwo
<1> QED
  BY <1>2, <1>3, <1>4 DEF IsPowerOfTwo, h

\* Masking with one less than a power of two yields the remainder.
LEMMA MaskIsRemainder ==
    ASSUME NEW x \in Nat, NEW a \in Nat, IsPowerOfTwo(a)
    PROVE  And[x][a - 1] = x % a
<1> DEFINE S == {k \in Nat : \A c \in 1 .. k :
                    IsPowerOfTwo(c) => \A y \in Nat : And[y][c - 1] = y % c}
<1>1. 0 \in S
  OBVIOUS
<1>2. ASSUME NEW k \in Nat, k \in S PROVE k + 1 \in S
  <2>1. SUFFICES ASSUME NEW c \in 1 .. k + 1, IsPowerOfTwo(c), NEW y \in Nat
                 PROVE  And[y][c - 1] = y % c
    OBVIOUS
  <2>2. CASE c = 1
    <3>1. And[y][0] = 0
      BY AndStep DEF AndOf
    <3> QED
      BY <2>2, <3>1
  <2>3. CASE c # 1
    <3> DEFINE h == c \div 2
               z == y \div 2
               r == y % 2
    <3>1. h \in Nat \ {0} /\ IsPowerOfTwo(h) /\ c = 2 * h
      BY <2>1, <2>3, PowerHalved, Half
    <3>2. z \in Nat /\ r \in {0, 1} /\ y = 2 * z + r
      BY Half
    <3>3. c - 1 \in Nat /\ (c - 1) \div 2 = h - 1 /\ (c - 1) % 2 = 1
      <4> HIDE DEF h
      <4> QED
        BY <3>1
    <3>4. And[z][h - 1] = z % h
      <4>1. h \in 1 .. k
        <5> HIDE DEF h
        <5> QED
          BY <3>1
      <4> QED
        BY <1>2, <3>1, <3>2, <4>1
    <3>5. And[y][c - 1] = 2 * (z % h) + r
      <4>1. And[y][c - 1] = AndOf(And, y, c - 1)
        BY <3>3, AndStep
      <4>2. CASE y = 0
        <5>1. z = 0 /\ r = 0 /\ And[y][c - 1] = 0
          BY <4>1, <4>2 DEF AndOf
        <5> HIDE DEF h, z, r
        <5>2. z % h = 0
          BY <3>1, <5>1
        <5> QED
          BY <5>1, <5>2
      <4>3. CASE y # 0
        <5>1. c - 1 # 0
          <6> HIDE DEF h
          <6> QED
            BY <3>1
        <5>2. And[y][c - 1] = 2 * And[z][h - 1] + r * 1
          BY <4>1, <4>3, <5>1, <3>3 DEF AndOf
        <5> HIDE DEF h, z, r
        <5> QED
          BY <5>2, <3>2, <3>4
      <4> QED
        BY <4>2, <4>3
    <3> HIDE DEF h, z, r
    <3>6. z % h \in 0 .. h - 1 /\ z \div h \in Nat /\ z = (h * (z \div h)) + (z % h)
      BY <3>1, <3>2, ModRange, Division
    <3> DEFINE q == z \div h
               t == z % h
    <3> HIDE DEF q, t
    <3>7. t \in 0 .. h - 1 /\ q \in Nat /\ z = (h * q) + t
      BY <3>6 DEF q, t
    <3>8. y = (c * q) + (2 * t + r) /\ 2 * t + r \in 0 .. c - 1 /\ c \in Nat \ {0}
      <4>1. 2 * z = (2 * h) * q + 2 * t
        BY <3>1, <3>7
      <4> QED
        BY <4>1, <3>1, <3>2, <3>7
    <3>9. ((c * q) + (2 * t + r)) % c = 2 * t + r
      BY <3>7, <3>8, RemainderOf
    <3>10. y % c = 2 * t + r
      BY <3>8, <3>9
    <3> QED
      BY <3>5, <3>10 DEF t
  <2> QED
    BY <2>2, <2>3
<1> HIDE DEF S
<1>3. \A k \in Nat : k \in S
  BY <1>1, <1>2, SetInduction
<1>4. a \in S /\ a \in 1 .. a
  BY <1>3 DEF IsPowerOfTwo
<1> QED
  BY <1>4 DEF S

\* align_up masks, and for a power of two that is what AlignUp says.
THEOREM MaskUpAligns ==
    ASSUME NEW v \in Word, NEW a \in Word, IsPowerOfTwo(a)
    PROVE  MaskUp(v, a) = AlignUp(v, a)
<1>1. a > 0 /\ 1 \in Word /\ a \in Nat
  BY WordAssumption DEF IsPowerOfTwo, Word
<1>2. Sub(a, 1) = a - 1
  BY <1>1, SubExact
<1>3. Add(v, a - 1) \in Nat
  <2>1. Sub(a, 1) \in Word
    BY <1>1, WordClosed
  <2> QED
    BY <1>2, <2>1, WordClosed DEF Word
<1> QED
  BY <1>1, <1>2, <1>3, MaskIsRemainder DEF MaskUp, AlignUp, AlignDown

\* Where it does not wrap, masking goes up by less than the alignment, be it
\* a power of two or not.
LEMMA MaskUpBound ==
    ASSUME NEW v \in Word, NEW a \in Word \ {0}, v + a <= WORD
    PROVE  MaskUp(v, a) \in Word /\ v <= MaskUp(v, a) /\ MaskUp(v, a) < v + a
<1> DEFINE x == v + (a - 1)
<1>1. Sub(a, 1) = a - 1 /\ a - 1 \in Nat /\ x \in Nat /\ v \in Nat /\ a \in Nat
  BY SubExact, WordAssumption DEF Word
<1>2. Add(v, a - 1) = x
  BY AddExact, WordAssumption DEF Word
<1> HIDE DEF x
<1>3. And[x][a - 1] \in Nat /\ And[x][a - 1] <= x /\ And[x][a - 1] <= a - 1
  BY <1>1, AndBound
<1>4. MaskUp(v, a) = x - And[x][a - 1]
  BY <1>1, <1>2 DEF MaskUp
<1> QED
  BY <1>1, <1>3, <1>4, WordAssumption DEF Word, x

----------------------------------------------------------------------------
\* Sums, for the counters.

\* S has the sums of the first members of f.
IsSums(S, f, n) == S = [k \in 0 .. n |-> IF k = 0 THEN 0 ELSE f[k] + S[k - 1]]

\* The same, number by number.
LEMMA SumsParts ==
    ASSUME NEW n \in Nat, NEW f, NEW S
    PROVE  IsSums(S, f, n) => S[0] = 0 /\ \A k \in 1 .. n : S[k] = f[k] + S[k - 1]
BY DEF IsSums

\* There are such sums.
LEMMA SumsExist == ASSUME NEW f PROVE \A n \in Nat : \E S : IsSums(S, f, n)
<1> DEFINE N == {n \in Nat : \E S : IsSums(S, f, n)}
<1>1. 0 \in N
  <2> DEFINE S == [k \in 0 .. 0 |-> 0]
  <2>1. IsSums(S, f, 0)
    BY DEF IsSums
  <2> QED
    BY <2>1
<1>2. ASSUME NEW n \in Nat, n \in N PROVE n + 1 \in N
  <2>1. PICK S : IsSums(S, f, n)
    BY <1>2
  <2> DEFINE R == [k \in 0 .. n + 1 |-> IF k = n + 1 THEN f[n + 1] + S[n] ELSE S[k]]
  <2>2. S[0] = 0 /\ \A k \in 1 .. n : S[k] = f[k] + S[k - 1]
    BY <2>1, SumsParts
  <2>3. ASSUME NEW k \in 0 .. n + 1
        PROVE  R[k] = IF k = 0 THEN 0 ELSE f[k] + R[k - 1]
    <3>1. CASE k = 0
      BY <3>1, <2>2
    <3>2. CASE k \in 1 .. n
      <4>1. k # n + 1 /\ k - 1 # n + 1 /\ k - 1 \in 0 .. n + 1 /\ k # 0
        BY <3>2
      <4> QED
        BY <3>2, <4>1, <2>2
    <3>3. CASE k = n + 1
      <4>1. k - 1 = n /\ n # n + 1 /\ n \in 0 .. n + 1 /\ k # 0
        BY <3>3
      <4> QED
        BY <3>3, <4>1
    <3>4. k = 0 \/ k \in 1 .. n \/ k = n + 1
      OBVIOUS
    <3> QED
      BY <3>1, <3>2, <3>3, <3>4
  <2>4. R = [k \in 0 .. n + 1 |-> R[k]]
    OBVIOUS
  <2> HIDE DEF R
  <2>5. IsSums(R, f, n + 1)
    BY <2>3, <2>4 DEF IsSums
  <2> QED
    BY <2>5
<1> HIDE DEF N
<1>3. \A n \in Nat : n \in N
  BY <1>1, <1>2, SetInduction
<1> QED
  BY <1>3 DEF N

\* They depend on nothing but the members added.
LEMMA SumsUnique ==
    ASSUME NEW f, NEW g, NEW n \in Nat, NEW m \in Nat, NEW S, NEW R,
           IsSums(S, f, n), IsSums(R, g, m),
           NEW l \in Nat, l <= n, l <= m, \A k \in 1 .. l : f[k] = g[k]
    PROVE  S[l] = R[l]
<1> DEFINE N == {k \in Nat : k <= l => S[k] = R[k]}
<1>1. S[0] = 0 /\ \A k \in 1 .. n : S[k] = f[k] + S[k - 1]
  BY SumsParts
<1>2. R[0] = 0 /\ \A k \in 1 .. m : R[k] = g[k] + R[k - 1]
  BY SumsParts
<1>3. 0 \in N
  BY <1>1, <1>2
<1>4. ASSUME NEW k \in Nat, k \in N PROVE k + 1 \in N
  <2>1. SUFFICES ASSUME k + 1 <= l PROVE S[k + 1] = R[k + 1]
    OBVIOUS
  <2>2. /\ S[k] = R[k] /\ (k + 1) - 1 = k
        /\ k + 1 \in 1 .. l /\ k + 1 \in 1 .. n /\ k + 1 \in 1 .. m
    BY <1>4, <2>1
  <2> QED
    BY <2>2, <1>1, <1>2
<1> HIDE DEF N
<1>5. \A k \in Nat : k \in N
  BY <1>3, <1>4, SetInduction
<1> QED
  BY <1>5 DEF N

\* SumTo is the last of the sums.
LEMMA SumIs ==
    ASSUME NEW f, NEW n \in Nat
    PROVE  \E S : IsSums(S, f, n) /\ SumTo(f, n) = S[n]
<1> DEFINE S == CHOOSE T : IsSums(T, f, n)
<1>1. SumTo(f, n) = S[n]
  BY DEF SumTo, IsSums
<1>2. IsSums(S, f, n)
  BY SumsExist
<1> QED
  BY <1>1, <1>2

\* The sum of one member more.
LEMMA SumStep ==
    ASSUME NEW f, NEW n \in Nat
    PROVE  SumTo(f, 0) = 0 /\ SumTo(f, n + 1) = f[n + 1] + SumTo(f, n)
<1>1. PICK S : IsSums(S, f, n) /\ SumTo(f, n) = S[n]
  BY SumIs
<1>2. PICK R : IsSums(R, f, n + 1) /\ SumTo(f, n + 1) = R[n + 1]
  BY SumIs
<1>3. PICK T : IsSums(T, f, 0) /\ SumTo(f, 0) = T[0]
  BY SumIs
<1>4. R[n] = S[n]
  BY <1>1, <1>2, SumsUnique
<1>5. n + 1 \in 1 .. n + 1 /\ (n + 1) - 1 = n
  OBVIOUS
<1>6. R[n + 1] = f[n + 1] + R[n]
  BY <1>2, <1>5, SumsParts
<1>7. T[0] = 0
  BY <1>3, SumsParts
<1> QED
  BY <1>1, <1>2, <1>3, <1>4, <1>6, <1>7

\* Equal members have equal sums.
LEMMA SumSame ==
    ASSUME NEW f, NEW g, NEW n \in Nat, \A k \in 1 .. n : f[k] = g[k]
    PROVE  SumTo(f, n) = SumTo(g, n)
<1>1. PICK S : IsSums(S, f, n) /\ SumTo(f, n) = S[n]
  BY SumIs
<1>2. PICK R : IsSums(R, g, n) /\ SumTo(g, n) = R[n]
  BY SumIs
<1> QED
  BY <1>1, <1>2, SumsUnique

\* Members that are natural numbers.
Numbers(f, n) == \A k \in 1 .. n : f[k] \in Nat

\* A sum of natural numbers is one, and no member exceeds it.
LEMMA SumTyped ==
    ASSUME NEW f, NEW n \in Nat, Numbers(f, n)
    PROVE  SumTo(f, n) \in Nat /\ \A k \in 1 .. n : f[k] <= SumTo(f, n)
<1> DEFINE N == {m \in Nat : m <= n => SumTo(f, m) \in Nat
                                       /\ \A k \in 1 .. m : f[k] <= SumTo(f, m)}
<1>1. 0 \in N
  BY SumStep
<1>2. ASSUME NEW m \in Nat, m \in N PROVE m + 1 \in N
  <2>1. SUFFICES ASSUME m + 1 <= n
                 PROVE  SumTo(f, m + 1) \in Nat
                        /\ \A k \in 1 .. m + 1 : f[k] <= SumTo(f, m + 1)
    OBVIOUS
  <2>2. SumTo(f, m) \in Nat /\ \A k \in 1 .. m : f[k] <= SumTo(f, m)
    BY <1>2, <2>1
  <2>3. SumTo(f, m + 1) = f[m + 1] + SumTo(f, m)
    BY SumStep
  <2>4. \A k \in 1 .. m + 1 : f[k] \in Nat
    BY <2>1 DEF Numbers
  <2>5. f[m + 1] \in Nat
    BY <2>4
  <2>6. \A k \in 1 .. m + 1 : k \in 1 .. m \/ k = m + 1
    OBVIOUS
  <2> QED
    BY <2>2, <2>3, <2>4, <2>5, <2>6
<1> HIDE DEF N
<1>3. \A m \in Nat : m \in N
  BY <1>1, <1>2, SetInduction
<1> QED
  BY <1>3 DEF N

\* Two sums whose members differ in one place differ by that.
LEMMA SumChanged ==
    ASSUME NEW f, NEW g, NEW n \in Nat, Numbers(f, n), Numbers(g, n), NEW i \in 1 .. n,
           \A k \in 1 .. n : k # i => f[k] = g[k]
    PROVE  SumTo(g, n) + f[i] = SumTo(f, n) + g[i]
<1> DEFINE N == {m \in Nat : m <= n /\ i <= m => SumTo(g, m) + f[i] = SumTo(f, m) + g[i]}
<1>1. 0 \in N
  OBVIOUS
<1>2. ASSUME NEW m \in Nat, m \in N PROVE m + 1 \in N
  <2>1. SUFFICES ASSUME m + 1 <= n, i <= m + 1
                 PROVE  SumTo(g, m + 1) + f[i] = SumTo(f, m + 1) + g[i]
    OBVIOUS
  <2>2. /\ SumTo(f, m + 1) = f[m + 1] + SumTo(f, m)
        /\ SumTo(g, m + 1) = g[m + 1] + SumTo(g, m)
    BY SumStep
  <2>3. SumTo(f, m) \in Nat /\ SumTo(g, m) \in Nat
    <3>1. Numbers(f, m) /\ Numbers(g, m)
      BY <2>1 DEF Numbers
    <3> QED
      BY <3>1, SumTyped
  <2>4. f[m + 1] \in Nat /\ g[m + 1] \in Nat /\ f[i] \in Nat /\ g[i] \in Nat
    BY <2>1 DEF Numbers
  <2>5. CASE i = m + 1
    <3>1. \A k \in 1 .. m : f[k] = g[k]
      BY <2>1, <2>5
    <3>2. SumTo(f, m) = SumTo(g, m)
      BY <3>1, SumSame
    <3> QED
      BY <3>2, <2>2, <2>3, <2>4, <2>5
  <2>6. CASE i # m + 1
    <3>1. f[m + 1] = g[m + 1]
      BY <2>1, <2>6
    <3>2. SumTo(g, m) + f[i] = SumTo(f, m) + g[i]
      BY <1>2, <2>1, <2>6
    <3> QED
      BY <3>1, <3>2, <2>2, <2>3, <2>4
  <2> QED
    BY <2>5, <2>6
<1> HIDE DEF N
<1>3. \A m \in Nat : m \in N
  BY <1>1, <1>2, SetInduction
<1> QED
  BY <1>3 DEF N

\* The numbers of the k-th of some intervals, and of the first n of them.
Interval(base, len, k) == base[k] .. base[k] + len[k] - 1
Covered(base, len, n) == UNION {Interval(base, len, k) : k \in 1 .. n}

\* Disjoint intervals below w are no longer, all together, than w.
LEMMA SumDisjoint ==
    ASSUME NEW base, NEW len, NEW n \in Nat, NEW w \in Nat,
           Numbers(base, n), Numbers(len, n), \A k \in 1 .. n : base[k] + len[k] <= w,
           \A j, k \in 1 .. n : j < k => \/ base[j] + len[j] <= base[k]
                                         \/ base[k] + len[k] <= base[j]
    PROVE  SumTo(len, n) <= w
<1> DEFINE N == {m \in Nat : m <= n => /\ IsFiniteSet(Covered(base, len, m))
                                       /\ Cardinality(Covered(base, len, m)) = SumTo(len, m)}
<1>1. 0 \in N
  <2>1. Covered(base, len, 0) = {}
    BY DEF Covered
  <2> QED
    BY <2>1, SumStep, FS_EmptySet
<1>2. ASSUME NEW m \in Nat, m \in N PROVE m + 1 \in N
  <2>1. SUFFICES ASSUME m + 1 <= n
                 PROVE  /\ IsFiniteSet(Covered(base, len, m + 1))
                        /\ Cardinality(Covered(base, len, m + 1)) = SumTo(len, m + 1)
    OBVIOUS
  <2> DEFINE C == Covered(base, len, m)
             I == Interval(base, len, m + 1)
  <2>2. IsFiniteSet(C) /\ Cardinality(C) = SumTo(len, m)
    BY <1>2, <2>1
  <2>3. /\ m + 1 \in 1 .. n /\ \A k \in 1 .. m : k \in 1 .. n /\ k < m + 1
        /\ \A k \in 1 .. m + 1 : k \in 1 .. m \/ k = m + 1
    BY <2>1
  <2>4. Covered(base, len, m + 1) = C \cup I
    BY <2>3 DEF Covered
  <2>5. base[m + 1] \in Nat /\ len[m + 1] \in Nat
    BY <2>3 DEF Numbers
  <2>6. IsFiniteSet(I) /\ Cardinality(I) = len[m + 1]
    <3> DEFINE lo == base[m + 1]
               hi == base[m + 1] + len[m + 1] - 1
    <3>1. lo \in Int /\ hi \in Int /\ I = lo .. hi /\ hi = lo + len[m + 1] - 1
      BY <2>5 DEF Interval
    <3> HIDE DEF lo, hi, I
    <3>2. /\ IsFiniteSet(lo .. hi)
          /\ Cardinality(lo .. hi) = IF lo > hi THEN 0 ELSE hi - lo + 1
      BY <3>1, FS_Interval
    <3> QED
      BY <2>5, <3>1, <3>2, SMTT(60)
  <2>7. C \cap I = {}
    <3> SUFFICES ASSUME NEW k \in 1 .. m, NEW x \in Interval(base, len, k), x \in I PROVE FALSE
      BY DEF Covered
    <3>1. base[k] \in Nat /\ len[k] \in Nat
      BY <2>3 DEF Numbers
    <3>2. \/ base[k] + len[k] <= base[m + 1]
          \/ base[m + 1] + len[m + 1] <= base[k]
      BY <2>3
    <3> QED
      BY <2>5, <3>1, <3>2 DEF Interval
  <2> HIDE DEF C, I
  <2>8. IsFiniteSet(C \cup I)
        /\ Cardinality(C \cup I) = Cardinality(C) + Cardinality(I) - Cardinality(C \cap I)
    BY <2>2, <2>6, FS_Union
  <2>9. Cardinality(C \cup I) = SumTo(len, m) + len[m + 1]
    <3>1. SumTo(len, m) \in Nat
      <4>1. Numbers(len, m)
        BY <2>3 DEF Numbers
      <4> QED
        BY <4>1, SumTyped
    <3> QED
      BY <3>1, <2>2, <2>5, <2>6, <2>7, <2>8, FS_EmptySet
  <2>10. SumTo(len, m + 1) = len[m + 1] + SumTo(len, m)
    BY SumStep
  <2>11. SumTo(len, m) \in Nat
    BY <2>2, FS_CardinalityType
  <2> QED
    BY <2>4, <2>5, <2>8, <2>9, <2>10, <2>11
<1> HIDE DEF N
<1>3. \A m \in Nat : m \in N
  BY <1>1, <1>2, SetInduction
<1>4. IsFiniteSet(Covered(base, len, n)) /\ Cardinality(Covered(base, len, n)) = SumTo(len, n)
  BY <1>3 DEF N
<1>5. Covered(base, len, n) \subseteq 0 .. w - 1
  <2> SUFFICES ASSUME NEW k \in 1 .. n, NEW x \in Interval(base, len, k)
               PROVE  x \in 0 .. w - 1
    BY DEF Covered
  <2>1. base[k] \in Nat /\ len[k] \in Nat /\ base[k] + len[k] <= w
    BY DEF Numbers
  <2> QED
    BY <2>1 DEF Interval
<1>6. IsFiniteSet(0 .. w - 1) /\ Cardinality(0 .. w - 1) = w
  <2>1. /\ IsFiniteSet(0 .. w - 1)
        /\ Cardinality(0 .. w - 1) = IF 0 > w - 1 THEN 0 ELSE (w - 1) - 0 + 1
    BY FS_Interval
  <2> QED
    BY <2>1
<1>7. Cardinality(Covered(base, len, n)) <= w
  BY <1>5, <1>6, FS_Subset
<1> QED
  BY <1>4, <1>7
=============================================================================
