----------------------------- MODULE BitProofs -----------------------------
(***************************************************************************)
(* Proofs about the words that bits are or-ed into.                        *)
(*                                                                         *)
(* Class error, for every set of codes and every number of pushes: what    *)
(* the shifts by one bit mix up never reads as success.                    *)
(*                                                                         *)
(* The page tables, for every set of pages, of addresses and of flags:     *)
(* tables are linked once and the pages that were mapped are those found.  *)
(***************************************************************************)
EXTENDS ErrorStack, Sv39, WordTheorems

----------------------------------------------------------------------------
\* Bits.  A fact about the bits below one, and that bit, holds of twice as
\* large a bit when it holds of this one.

\* x | c does not lose the bits of c that are below M, whatever x is.
KeepsBits(M) == \A x, c \in Nat : c % M # 0 => Or(x, c) % M # 0

\* Numbers below M are added to a multiple of M.
LeavesRoom(M) == \A x, b \in Nat : x % M = 0 /\ b < M => Or(x, b) = x + b

\* x & M is the bit M of x.
HasBit(M) == \A x \in Nat : And[x][M] = M * ((x \div M) % 2)

\* x | c is a number: x & c is no larger than either.
LEMMA OrNat == \A x, c \in Nat : Or(x, c) \in Nat
<1> SUFFICES ASSUME NEW x \in Nat, NEW c \in Nat PROVE Or(x, c) \in Nat
  OBVIOUS
<1>1. And[x][c] \in Nat /\ And[x][c] <= x
  BY AndBound
<1> QED
  BY <1>1 DEF Or

\* Nothing is or-ed.
LEMMA OrZero == ASSUME NEW x \in Nat PROVE Or(x, 0) = x
<1>1. And[x][0] = 0
  BY AndStep DEF AndOf
<1> QED
  BY <1>1 DEF Or

\* The bits of x | c are the lowest and those of the halves.
LEMMA OrHalf ==
    ASSUME NEW x \in Nat, NEW c \in Nat
    PROVE  \E t \in {0, 1} : /\ Or(x, c) = 2 * Or(x \div 2, c \div 2) + t
                             /\ t = 0 => c % 2 = 0
                             /\ x % 2 = 0 => t = c % 2
<1> DEFINE h == x \div 2
           r == x % 2
           d == c \div 2
           s == c % 2
           y == Or(h, d)
           t == r + s - r * s
<1>1. /\ h \in Nat /\ r \in {0, 1} /\ x = 2 * h + r
      /\ d \in Nat /\ s \in {0, 1} /\ c = 2 * d + s
  BY Half
<1>2. And[x][c] = 2 * And[h][d] + r * s
  <2>1. And[x][c] = AndOf(And, x, c)
    BY AndStep
  <2>2. CASE x # 0 /\ c # 0
    BY <2>1, <2>2 DEF AndOf
  <2>3. CASE x = 0 \/ c = 0
    <3>1. (h = 0 /\ r = 0) \/ (d = 0 /\ s = 0)
      BY <2>3
    <3>2. And[h][d] = 0
      BY <1>1, <3>1, AndStep DEF AndOf
    <3>3. And[x][c] = 0
      BY <2>1, <2>3 DEF AndOf
    <3> HIDE DEF h, r, d, s
    <3> QED
      BY <1>1, <3>1, <3>2, <3>3
  <2> QED
    BY <2>2, <2>3
<1>3. Or(x, c) = 2 * y + t
  <2>1. PICK v \in Nat : v = And[h][d]
    BY <1>1, AndBound
  <2>2. Or(x, c) = x + c - (2 * v + r * s) /\ y = h + d - v
    BY <1>2, <2>1 DEF Or
  <2> HIDE DEF h, r, d, s, y
  <2>3. r * s \in {0, 1}
    BY <1>1
  <2> QED
    BY <1>1, <2>1, <2>2, <2>3
<1>4. t \in {0, 1} /\ (t = 0 => s = 0) /\ (r = 0 => t = s)
  <2> HIDE DEF h, r, d, s
  <2> QED
    BY <1>1
<1> HIDE DEF t
<1> QED
  BY <1>3, <1>4

\* One bit more is kept: the lowest itself, when c has it, and the others in
\* the halves.
LEMMA OneBitMore ==
    ASSUME NEW M \in Nat \ {0}, KeepsBits(M)
    PROVE  KeepsBits(2 * M)
<1> SUFFICES ASSUME NEW x \in Nat, NEW c \in Nat, c % (2 * M) # 0, Or(x, c) % (2 * M) = 0
             PROVE  FALSE
  BY DEF KeepsBits
<1> DEFINE h == x \div 2
           d == c \div 2
           y == Or(h, d)
<1>1. h \in Nat /\ d \in Nat /\ y \in Nat /\ c % 2 \in {0, 1} /\ c = 2 * d + (c % 2)
  BY Half, OrNat
<1>2. PICK t \in {0, 1} : Or(x, c) = 2 * y + t /\ (t = 0 => c % 2 = 0)
  BY OrHalf
<1> HIDE DEF h, d, y
<1>3. PICK n \in Nat \ {0} : n = 2 * M
  OBVIOUS
<1>4. PICK z \in Nat : z = 2 * y + t
  BY <1>1
<1>5. PICK q \in Nat : z = n * q
  <2>1. z % n = 0
    BY <1>2, <1>3, <1>4
  <2>2. z \div n \in Nat /\ z = n * (z \div n)
    BY <2>1, Division
  <2> QED
    BY <2>2
<1>6. PICK p \in Nat : p = M * q
  OBVIOUS
<1>7. n * q = 2 * p
  BY <1>3, <1>6
<1>8. t = 0 /\ y = p
  BY <1>1, <1>4, <1>5, <1>7
<1>9. y % M = 0
  <2>1. y = (M * q) + 0
    BY <1>1, <1>6, <1>8
  <2> QED
    BY <2>1, RemainderOf
<1>10. d % M = 0
  <2>1. Or(h, d) % M = 0
    BY <1>9 DEF y
  <2> QED
    BY <1>1, <2>1 DEF KeepsBits, h
<1>11. PICK k \in Nat : d = M * k
  <2>1. d \div M \in Nat /\ d = M * (d \div M)
    BY <1>1, <1>10, Division
  <2> QED
    BY <2>1
<1>12. c = (n * k) + 0
  <2>1. PICK j \in Nat : j = M * k
    OBVIOUS
  <2>2. n * k = 2 * j
    BY <1>3, <2>1
  <2> QED
    BY <1>1, <1>2, <1>8, <1>11, <2>1, <2>2
<1>13. c % n = 0
  BY <1>3, <1>12, RemainderOf
<1> QED
  BY <1>3, <1>13

\* Room for one bit more.
LEMMA OneBitMoreRoom ==
    ASSUME NEW M \in Nat \ {0}, LeavesRoom(M)
    PROVE  LeavesRoom(2 * M)
<1> SUFFICES ASSUME NEW x \in Nat, NEW b \in Nat, x % (2 * M) = 0, b < 2 * M
             PROVE  Or(x, b) = x + b
  BY DEF LeavesRoom
<1>1. PICK n \in Nat \ {0} : n = 2 * M
  OBVIOUS
<1>2. PICK a \in Nat : x = n * a
  <2>1. x % n = 0
    BY <1>1
  <2>2. x \div n \in Nat /\ x = n * (x \div n)
    BY <2>1, Division
  <2> QED
    BY <2>2
<1>3. PICK j \in Nat : j = M * a
  OBVIOUS
<1>4. x = 2 * j
  BY <1>1, <1>2, <1>3
<1>5. j % M = 0
  <2>1. j = (M * a) + 0
    BY <1>3
  <2> QED
    BY <2>1, RemainderOf
<1> DEFINE d == b \div 2
           s == b % 2
<1>6. d \in Nat /\ s \in {0, 1} /\ b = 2 * d + s
  BY Half
<1> HIDE DEF d, s
<1>7. x \div 2 = j /\ x % 2 = 0
  BY <1>4
<1>8. Or(x, b) = 2 * Or(j, d) + s
  <2>1. PICK t \in {0, 1} : /\ Or(x, b) = 2 * Or(x \div 2, b \div 2) + t
                            /\ t = 0 => b % 2 = 0
                            /\ x % 2 = 0 => t = b % 2
    BY OrHalf, Zenon
  <2>2. t = s /\ Or(x, b) = 2 * Or(j, b \div 2) + t
    BY <1>7, <2>1 DEF s
  <2> QED
    BY <2>2 DEF d
<1>9. d < M
  BY <1>6
<1>10. Or(j, d) = j + d
  BY <1>3, <1>5, <1>6, <1>9, SMT DEF LeavesRoom
<1> QED
  BY <1>4, <1>6, <1>8, <1>10

\* The next bit is the bit of the half.
LEMMA NextBit ==
    ASSUME NEW M \in Nat \ {0}, HasBit(M)
    PROVE  HasBit(2 * M)
<1> SUFFICES ASSUME NEW x \in Nat
             PROVE  And[x][2 * M] = (2 * M) * ((x \div (2 * M)) % 2)
  BY DEF HasBit
<1>1. PICK n \in Nat \ {0} : n = 2 * M /\ n \div 2 = M /\ n % 2 = 0
  OBVIOUS
<1> DEFINE h == x \div 2
           r == x % 2
           q == h \div M
           t == h % M
<1>2. h \in Nat /\ r \in {0, 1} /\ x = 2 * h + r
  BY Half
<1>3. q \in Nat /\ t \in 0 .. M - 1 /\ h = (M * q) + t
  <2> HIDE DEF h
  <2> QED
    BY <1>2, Division, ModRange
<1>4. And[x][n] = 2 * And[h][M]
  <2>1. And[x][n] = AndOf(And, x, n)
    BY AndStep
  <2>2. CASE x # 0
    <3>1. And[x][n] = 2 * And[h][n \div 2] + r * (n % 2)
      BY <1>1, <2>1, <2>2, Zenon DEF AndOf
    <3>2. PICK v \in Nat : v = And[h][M]
      BY <1>2, AndBound
    <3> HIDE DEF h, r
    <3>3. And[x][n] = 2 * v + r * 0
      BY <1>1, <3>1, <3>2
    <3> QED
      BY <1>2, <3>2, <3>3
  <2>3. CASE x = 0
    <3>1. h = 0
      BY <2>3
    <3>2. And[h][M] = 0
      BY <1>2, <3>1, AndStep DEF AndOf
    <3> QED
      BY <2>1, <2>3, <3>2 DEF AndOf
  <2> QED
    BY <2>2, <2>3
<1>5. And[h][M] = M * (q % 2)
  BY <1>2 DEF HasBit
<1> HIDE DEF h, r, q, t
<1>6. x \div n = q
  <2>1. PICK j \in Nat : j = M * q
    BY <1>3
  <2>2. n * q = 2 * j
    BY <1>1, <1>3, <2>1
  <2>3. x = (n * q) + (2 * t + r) /\ 2 * t + r \in 0 .. n - 1
    BY <1>1, <1>2, <1>3, <2>1, <2>2
  <2>4. PICK c \in 0 .. n - 1 : c = 2 * t + r /\ x = (n * q) + c
    BY <2>3
  <2>5. ((n * q) + c) \div n = q
    BY <1>1, <1>3
  <2> QED
    BY <2>4, <2>5
<1>7. q % 2 \in {0, 1}
  BY <1>3
<1>8. 2 * (M * (q % 2)) = n * (q % 2)
  BY <1>1, <1>7
<1>9. And[x][n] = n * ((x \div n) % 2)
  BY <1>4, <1>5, <1>6, <1>8
<1> QED
  BY <1>1, <1>9

\* The bits of a byte, and of a page's number in its address.
LEMMA KeepsByte == KeepsBits(8) /\ KeepsBits(256)
<1>1. KeepsBits(1)
  BY DEF KeepsBits
<1>2. \A M \in Nat \ {0} : KeepsBits(M) => KeepsBits(2 * M)
  BY OneBitMore
<1>3. KeepsBits(2) /\ KeepsBits(4) /\ KeepsBits(8)
  <2>1. KeepsBits(2 * 1)
    BY <1>1, <1>2
  <2>2. KeepsBits(2 * 2)
    BY <2>1, <1>2
  <2>3. KeepsBits(2 * 4)
    BY <2>2, <1>2
  <2> QED
    BY <2>1, <2>2, <2>3
<1>4. KeepsBits(16) /\ KeepsBits(32) /\ KeepsBits(64) /\ KeepsBits(128) /\ KeepsBits(256)
  <2>1. KeepsBits(2 * 8)
    BY <1>3, <1>2
  <2>2. KeepsBits(2 * 16)
    BY <2>1, <1>2
  <2>3. KeepsBits(2 * 32)
    BY <2>2, <1>2
  <2>4. KeepsBits(2 * 64)
    BY <2>3, <1>2
  <2>5. KeepsBits(2 * 128)
    BY <2>4, <1>2
  <2> QED
    BY <2>1, <2>2, <2>3, <2>4, <2>5
<1> QED
  BY <1>3, <1>4

\* What is or-ed with a code has a byte that is not 0.
LEMMA ByteKept ==
    ASSUME NEW x \in Nat, NEW c \in Nat, c % 256 # 0
    PROVE  Or(x, c) % 256 # 0
BY KeepsByte, SMT DEF KeepsBits

\* The flags of an entry are below its page number.
LEMMA RoomForFlags == LeavesRoom(1024)
<1>1. LeavesRoom(1)
  <2>1. \A b \in Nat : b < 1 => b = 0
    OBVIOUS
  <2> QED
    BY <2>1, OrZero DEF LeavesRoom
<1>2. \A M \in Nat \ {0} : LeavesRoom(M) => LeavesRoom(2 * M)
  BY OneBitMoreRoom
<1>3. LeavesRoom(2 * 1) /\ LeavesRoom(2 * 2) /\ LeavesRoom(2 * 4)
  <2>1. LeavesRoom(2 * 1)
    BY <1>1, <1>2
  <2>2. LeavesRoom(2 * 2)
    BY <2>1, <1>2
  <2> QED
    BY <2>1, <2>2, <1>2
<1>4. LeavesRoom(2 * 8) /\ LeavesRoom(2 * 16) /\ LeavesRoom(2 * 32)
  <2>1. LeavesRoom(2 * 8)
    BY <1>3, <1>2
  <2>2. LeavesRoom(2 * 16)
    BY <2>1, <1>2
  <2> QED
    BY <2>1, <2>2, <1>2
<1>5. LeavesRoom(2 * 64) /\ LeavesRoom(2 * 128) /\ LeavesRoom(2 * 256)
  <2>1. LeavesRoom(2 * 64)
    BY <1>4, <1>2
  <2>2. LeavesRoom(2 * 128)
    BY <2>1, <1>2
  <2> QED
    BY <2>1, <2>2, <1>2
<1>6. LeavesRoom(2 * 512)
  BY <1>5, <1>2
<1> QED
  BY <1>6

\* The bit that is joined to a translation is the lowest of the page number.
LEMMA PageBit == HasBit(PAGE_SIZE)
<1>1. HasBit(1)
  <2> SUFFICES ASSUME NEW x \in Nat PROVE And[x][1] = x % 2
    BY DEF HasBit
  <2>1. And[x][1] = AndOf(And, x, 1)
    BY AndStep
  <2>2. And[x \div 2][0] = 0
    BY Half, AndStep DEF AndOf
  <2> QED
    BY <2>1, <2>2 DEF AndOf
<1>2. \A M \in Nat \ {0} : HasBit(M) => HasBit(2 * M)
  BY NextBit
<1>3. HasBit(2 * 1) /\ HasBit(2 * 2) /\ HasBit(2 * 4)
  <2>1. HasBit(2 * 1)
    BY <1>1, <1>2
  <2>2. HasBit(2 * 2)
    BY <2>1, <1>2
  <2> QED
    BY <2>1, <2>2, <1>2
<1>4. HasBit(2 * 8) /\ HasBit(2 * 16) /\ HasBit(2 * 32)
  <2>1. HasBit(2 * 8)
    BY <1>3, <1>2
  <2>2. HasBit(2 * 16)
    BY <2>1, <1>2
  <2> QED
    BY <2>1, <2>2, <1>2
<1>5. HasBit(2 * 64) /\ HasBit(2 * 128) /\ HasBit(2 * 256)
  <2>1. HasBit(2 * 64)
    BY <1>4, <1>2
  <2>2. HasBit(2 * 128)
    BY <2>1, <1>2
  <2> QED
    BY <2>1, <2>2, <1>2
<1>6. HasBit(2 * 512) /\ HasBit(2 * 1024) /\ HasBit(2 * 2048)
  <2>1. HasBit(2 * 512)
    BY <1>5, <1>2
  <2>2. HasBit(2 * 1024)
    BY <2>1, <1>2
  <2> QED
    BY <2>1, <2>2, <1>2
<1> QED
  BY <1>6 DEF PAGE_SIZE

----------------------------------------------------------------------------
\* Entries of page tables.

\* An entry that links a table, and one that maps a page.
Link(p) == table_entry(p, TEF_VALID)
LeafEntry(pa, flags) == table_entry(pa, Or(flags, TEF_VALID))

\* The flags of an entry are added to its page number.
LEMMA FlagsFit ==
    ASSUME NEW x \in Nat, x % 1024 = 0, NEW b \in Nat, b < 1024
    PROVE  Or(x, b) = x + b
BY RoomForFlags, SMT DEF LeavesRoom

\* A link is valid, is no leaf and holds the address of its page.
LEMMA LinkFacts ==
    ASSUME NEW p \in Pages
    PROVE  /\ Link(p) \in Nat /\ is_valid(Link(p)) /\ ~is_leaf(Link(p))
           /\ get_address(Link(p)) = p
<1> DEFINE a == p \div 4096
<1>1. p \in Nat /\ p % 4096 = 0
  BY Sv39Assumption DEF PAGE_SIZE
<1>2. a \in Nat /\ p = 4096 * a /\ p \div 4 = 1024 * a
  BY <1>1
<1>3. Link(p) = Or(1024 * a, 1)
  BY <1>2 DEF Link, table_entry, TEF_VALID
<1> HIDE DEF a
<1>4. PICK x \in Nat : x = 1024 * a /\ x % 1024 = 0
  BY <1>2
<1>5. PICK e \in Nat : e = Link(p) /\ e = 1024 * a + 1
  <2>1. Or(x, 1) = x + 1
    BY <1>4, FlagsFit
  <2> QED
    BY <1>3, <1>4, <2>1
<1>6. e % 2 = 1 /\ (e \div 2) % 8 = 0 /\ e \div 1024 = a
  BY <1>2, <1>5
<1>7. is_valid(e) /\ ~is_leaf(e)
  BY <1>6 DEF is_valid, is_leaf, TEF_VALID
<1>8. get_address(e) = p
  BY <1>2, <1>6 DEF get_address, PAGE_SIZE
<1> QED
  BY <1>5, <1>7, <1>8

\* The flags of a mapping with the bit that makes it valid.
LEMMA FlagFacts ==
    ASSUME NEW f \in Flags
    PROVE  /\ Or(f, TEF_VALID) \in 0 .. 255 /\ Or(f, TEF_VALID) % 2 = 1
           /\ (Or(f, TEF_VALID) \div 2) % 8 # 0
<1>1. f \in 0 .. 255 /\ f \in Nat /\ (f \div 2) % 8 # 0
  BY Sv39Assumption
<1>2. PICK t \in {0, 1} : Or(f, 1) = 2 * Or(f \div 2, 1 \div 2) + t /\ (t = 0 => 1 % 2 = 0)
  BY <1>1, OrHalf
<1>3. Or(f \div 2, 0) = f \div 2
  BY <1>1, Half, OrZero
<1>4. Or(f, 1) = 2 * (f \div 2) + 1
  BY <1>2, <1>3
<1>5. PICK c \in Nat : c = Or(f, 1) /\ c = 2 * (f \div 2) + 1
  BY <1>1, <1>4
<1>6. c \div 2 = f \div 2 /\ c % 2 = 1 /\ c \in 0 .. 255
  BY <1>1, <1>5
<1> QED
  BY <1>1, <1>5, <1>6 DEF TEF_VALID

\* The entry of a mapping is a valid leaf, whatever address is mapped: what an
\* address inside a page spills into the flags clears none of them.
LEMMA LeafFacts ==
    ASSUME NEW pa \in PAs, NEW f \in Flags
    PROVE  /\ LeafEntry(pa, f) \in Nat /\ is_valid(LeafEntry(pa, f))
           /\ is_leaf(LeafEntry(pa, f))
<1> DEFINE x == pa \div 4
           c == Or(f, TEF_VALID)
<1>1. x \in Nat /\ c \in Nat /\ c % 2 = 1 /\ (c \div 2) % 8 # 0
  <2>1. pa \in Nat
    BY Sv39Assumption
  <2> QED
    BY <2>1, FlagFacts
<1>2. LeafEntry(pa, f) = Or(x, c)
  BY DEF LeafEntry, table_entry
<1> HIDE DEF x, c
<1> DEFINE y == Or(x \div 2, c \div 2)
<1>3. x \div 2 \in Nat /\ c \div 2 \in Nat /\ y \in Nat
  BY <1>1, Half, OrNat
<1>4. y % 8 # 0
  BY <1>1, <1>3, KeepsByte DEF KeepsBits
<1>5. Or(x, c) = 2 * y + 1
  BY <1>1, OrHalf
<1> HIDE DEF y
<1>6. PICK e \in Nat : e = Or(x, c) /\ e % 2 = 1 /\ e \div 2 = y
  BY <1>3, <1>5
<1> QED
  BY <1>2, <1>4, <1>6 DEF is_valid, is_leaf, TEF_VALID

\* That of a page holds its address and the flags asked for.
LEMMA PageLeaf ==
    ASSUME NEW pa \in PAs, NEW f \in Flags, pa % PAGE_SIZE = 0
    PROVE  /\ get_address(LeafEntry(pa, f)) = pa
           /\ FlagBits(LeafEntry(pa, f)) = Or(f, TEF_VALID)
<1> DEFINE a == pa \div 4096
           c == Or(f, TEF_VALID)
<1>1. a \in Nat /\ pa = 4096 * a /\ pa \div 4 = 1024 * a
  <2>1. pa \in Nat /\ pa % 4096 = 0
    BY Sv39Assumption DEF PAGE_SIZE
  <2> QED
    BY <2>1
<1>2. c \in 0 .. 255
  BY FlagFacts
<1>3. LeafEntry(pa, f) = Or(1024 * a, c)
  BY <1>1 DEF LeafEntry, table_entry
<1> HIDE DEF a, c
<1>4. c \in Nat /\ c < 1024
  BY <1>2
<1>5. PICK x \in Nat : x = 1024 * a /\ x % 1024 = 0
  BY <1>1
<1>6. PICK e \in Nat : e = LeafEntry(pa, f) /\ e = 1024 * a + c
  <2>1. Or(x, c) = x + c
    BY <1>4, <1>5, FlagsFit
  <2> QED
    BY <1>3, <1>4, <1>5, <2>1
<1>7. e \div 1024 = a /\ e % 1024 = c
  BY <1>1, <1>2, <1>6
<1> QED
  BY <1>1, <1>6, <1>7 DEF get_address, FlagBits, PAGE_SIZE, c

\* No entry is valid that was not written.
LEMMA NoEntry == ~is_valid(0)
BY DEF is_valid, TEF_VALID

\* The address in an entry is that of a page.
LEMMA AddressFacts ==
    ASSUME NEW e \in Nat
    PROVE  get_address(e) \in Nat /\ get_address(e) % PAGE_SIZE = 0
<1>1. e \div 1024 \in Nat
  OBVIOUS
<1> QED
  BY <1>1 DEF get_address, PAGE_SIZE

\* An index is one of a table, and an address has the indices of its page.
LEMMA IndexFacts ==
    ASSUME NEW va \in Nat, NEW level \in 0 .. 2
    PROVE  /\ vpn(va, level) \in 0 .. 511
           /\ Page(va) \in Nat /\ vpn(Page(va), level) = vpn(va, level)
<1>1. PICK p \in Nat : p = Page(va) /\ p <= va /\ va < p + 4096 /\ p % 4096 = 0
  <2>1. va - (va % 4096) \in Nat /\ va < (va - (va % 4096)) + 4096 /\ (va - (va % 4096)) % 4096 = 0
    BY SMT
  <2> QED
    BY <2>1, SMT DEF Page, PAGE_SIZE
<1>2. ASSUME NEW q \in Nat PROVE q % 512 \in 0 .. 511
  BY SMT
<1>3. CASE level = 0
  <2>1. PICK q \in Nat : q = va \div 4096 /\ q = p \div 4096
    BY <1>1, SMT
  <2>2. vpn(va, 0) = q % 512 /\ vpn(p, 0) = q % 512
    BY <2>1, SMT DEF vpn, PAGE_SIZE, TABLE_ENTRY_COUNT
  <2> QED
    BY <1>1, <1>2, <1>3, <2>2, SMT
<1>4. CASE level = 1
  <2>1. PICK q \in Nat : q = va \div 2097152 /\ q = p \div 2097152
    BY <1>1, SMT
  <2>2. vpn(va, 1) = q % 512 /\ vpn(p, 1) = q % 512
    BY <2>1, SMT DEF vpn, MEGAPAGE_SIZE, TABLE_ENTRY_COUNT
  <2> QED
    BY <1>1, <1>2, <1>4, <2>2, SMT
<1>5. CASE level = 2
  <2>1. PICK q \in Nat : q = va \div 1073741824 /\ q = p \div 1073741824
    BY <1>1, SMT
  <2>2. vpn(va, 2) = q % 512 /\ vpn(p, 2) = q % 512
    BY <2>1, SMT DEF vpn, GIGAPAGE_SIZE, TABLE_ENTRY_COUNT
  <2> QED
    BY <1>1, <1>2, <1>5, <2>2, SMT
<1> QED
  BY <1>3, <1>4, <1>5, SMT

----------------------------------------------------------------------------
\* The tables m that link the pages g.

\* The tables the root links, and the entries of these and of the root.
SecondTables(m) == {get_address(m[s]) : s \in {s \in DOMAIN m : s[1] = ROOT}}
IsUpper(m, t) == t \in SecondTables(m) \cup {ROOT}
Upper(m) == {s \in DOMAIN m : IsUpper(m, s[1])}

IsSlot(s, tables) == \E t \in tables, i \in 0 .. 511 : s = <<t, i>>
UpperSlot(m, s) == IsSlot(s, SecondTables(m) \cup {ROOT})
LowerSlot(m, g, s) == IsSlot(s, {t \in g : ~IsUpper(m, t)})

\* An entry is in a table; those of the upper tables link granted pages, no
\* page twice and every page once; those of the others map pages.
TablesOK(m, g) ==
    /\ g \subseteq Pages
    /\ \A s \in DOMAIN m : IsSlot(s, g \cup {ROOT})
    /\ \A s \in Upper(m) : \E p \in g : m[s] = Link(p)
    /\ \A s, t \in Upper(m) : get_address(m[s]) = get_address(m[t]) => s = t
    /\ \A p \in g : \E s \in Upper(m) : get_address(m[s]) = p
    /\ \A s \in DOMAIN m \ Upper(m) : \E pa \in PAs, f \in Flags : m[s] = LeafEntry(pa, f)

\* The entries of upper tables are valid and hold the pages of tables; the
\* others are valid leaves.
LEMMA UpperEntry ==
    ASSUME NEW m, NEW g, TablesOK(m, g), NEW s \in Upper(m)
    PROVE  /\ m[s] \in Nat /\ is_valid(m[s]) /\ ~is_leaf(m[s]) /\ get_address(m[s]) \in g
           /\ m[s] = Link(get_address(m[s]))
<1>1. PICK p \in g : m[s] = Link(p)
  BY DEF TablesOK
<1>2. p \in Pages
  BY DEF TablesOK
<1> QED
  BY <1>1, <1>2, LinkFacts

LEMMA LowerEntry ==
    ASSUME NEW m, NEW g, TablesOK(m, g), NEW s \in DOMAIN m \ Upper(m)
    PROVE  m[s] \in Nat /\ is_valid(m[s]) /\ is_leaf(m[s])
<1>1. PICK pa \in PAs, f \in Flags : m[s] = LeafEntry(pa, f)
  BY DEF TablesOK
<1> QED
  BY <1>1, LeafFacts

\* An entry is valid where one was written, and a number anyway.
LEMMA EntryValid ==
    ASSUME NEW m, NEW g, TablesOK(m, g), NEW s
    PROVE  Entry(m, s) \in Nat /\ (is_valid(Entry(m, s)) <=> s \in DOMAIN m)
<1>1. CASE s \notin DOMAIN m
  BY <1>1, NoEntry DEF Entry
<1>2. CASE s \in DOMAIN m
  BY <1>2, UpperEntry, LowerEntry DEF Entry
<1> QED
  BY <1>1, <1>2

\* A table the root links is a granted page, and no table is the root.
LEMMA SecondGranted ==
    ASSUME NEW m, NEW g, TablesOK(m, g)
    PROVE  SecondTables(m) \subseteq g /\ ROOT \notin g
<1>1. \A s \in DOMAIN m : s[1] = ROOT => s \in Upper(m)
  BY DEF Upper, IsUpper
<1>2. SecondTables(m) \subseteq g
  BY <1>1, UpperEntry DEF SecondTables
<1> QED
  BY <1>2, Sv39Assumption DEF TablesOK

\* The table that an upper table other than the root links is not an upper
\* table: the page would be linked twice.
LEMMA LeafTable ==
    ASSUME NEW m, NEW g, TablesOK(m, g), NEW s \in DOMAIN m, s[1] \in SecondTables(m)
    PROVE  get_address(m[s]) \in g /\ ~IsUpper(m, get_address(m[s]))
<1>1. s \in Upper(m)
  BY DEF Upper, IsUpper
<1>2. get_address(m[s]) \in g /\ s[1] # ROOT /\ get_address(m[s]) # ROOT
  BY <1>1, UpperEntry, SecondGranted
<1>3. SUFFICES ASSUME get_address(m[s]) \in SecondTables(m) PROVE FALSE
  BY <1>2 DEF IsUpper
<1>4. PICK r \in DOMAIN m : r[1] = ROOT /\ get_address(m[r]) = get_address(m[s])
  BY <1>3 DEF SecondTables
<1>5. r \in Upper(m)
  BY <1>4 DEF Upper, IsUpper
<1>6. r = s
  BY <1>1, <1>4, <1>5 DEF TablesOK
<1> QED
  BY <1>2, <1>4, <1>6

\* A fresh page may be linked in an upper table.
LEMMA LinkTables ==
    ASSUME NEW m, NEW g, TablesOK(m, g), NEW s, UpperSlot(m, s), s \notin DOMAIN m,
           NEW p \in Pages \ g
    PROVE  TablesOK(Write(m, s, Link(p)), g \cup {p})
<1> DEFINE n == Write(m, s, Link(p))
           h == g \cup {p}
<1> PICK t \in SecondTables(m) \cup {ROOT}, i \in 0 .. 511 : s = <<t, i>>
  BY DEF UpperSlot, IsSlot
<1>1. /\ DOMAIN n = DOMAIN m \cup {s} /\ n[s] = Link(p)
      /\ \A x \in DOMAIN m : n[x] = m[x]
  <2>1. /\ DOMAIN n = DOMAIN m \cup {s} /\ n[s] = Link(p)
        /\ \A x \in DOMAIN m : x # s => n[x] = m[x]
    BY DEF Write
  <2> HIDE DEF n
  <2> QED
    BY <2>1
<1>2. p \in Pages /\ p # ROOT /\ get_address(Link(p)) = p /\ s[1] = t
  BY LinkFacts, Sv39Assumption
<1>3. t # p /\ t \in g \cup {ROOT}
  BY <1>2, SecondGranted
<1>4. \A x \in DOMAIN m : x[1] # p
  <2> SUFFICES ASSUME NEW x \in DOMAIN m PROVE x[1] # p
    OBVIOUS
  <2>1. PICK q \in g \cup {ROOT}, k \in 0 .. 511 : x = <<q, k>>
    BY DEF TablesOK, IsSlot
  <2> QED
    BY <1>2, <2>1
<1> HIDE DEF n
<1>5. SecondTables(n) = SecondTables(m) \cup (IF t = ROOT THEN {p} ELSE {})
  BY <1>1, <1>2 DEF SecondTables
<1>6. Upper(n) = Upper(m) \cup {s}
  <2>1. \A x \in DOMAIN m : IsUpper(n, x[1]) <=> IsUpper(m, x[1])
    BY <1>4, <1>5 DEF IsUpper
  <2>2. IsUpper(n, s[1])
    BY <1>2, <1>5 DEF IsUpper
  <2> QED
    BY <1>1, <2>1, <2>2 DEF Upper
<1>7. s \notin DOMAIN m /\ s \notin Upper(m) /\ Upper(m) \subseteq DOMAIN m
  BY DEF Upper
<1>8. \A x \in Upper(m) : n[x] = m[x] /\ get_address(n[x]) \in g
  BY <1>1, <1>7, UpperEntry
<1>9. TablesOK(n, h)
  <2>1. h \subseteq Pages
    BY DEF TablesOK
  <2>2. \A x \in DOMAIN n : IsSlot(x, h \cup {ROOT})
    <3>1. IsSlot(s, h \cup {ROOT})
      BY <1>3 DEF IsSlot
    <3>2. ASSUME NEW x \in DOMAIN m PROVE IsSlot(x, h \cup {ROOT})
      <4>1. PICK q \in g \cup {ROOT}, k \in 0 .. 511 : x = <<q, k>>
        BY DEF TablesOK, IsSlot
      <4> QED
        BY <4>1 DEF IsSlot
    <3> QED
      BY <1>1, <3>1, <3>2
  <2>3. \A x \in Upper(n) : \E q \in h : n[x] = Link(q)
    BY <1>1, <1>6, <1>8 DEF TablesOK
  <2>4. \A x, y \in Upper(n) : get_address(n[x]) = get_address(n[y]) => x = y
    BY <1>1, <1>2, <1>6, <1>8 DEF TablesOK
  <2>5. \A q \in h : \E x \in Upper(n) : get_address(n[x]) = q
    BY <1>1, <1>2, <1>6, <1>8 DEF TablesOK
  <2>6. \A x \in DOMAIN n \ Upper(n) : \E pa \in PAs, f \in Flags : n[x] = LeafEntry(pa, f)
    <3>1. \A x \in DOMAIN n \ Upper(n) : x \in DOMAIN m \ Upper(m) /\ n[x] = m[x]
      BY <1>1, <1>6
    <3> QED
      BY <3>1 DEF TablesOK
  <2> QED
    BY <2>1, <2>2, <2>3, <2>4, <2>5, <2>6 DEF TablesOK
<1> QED
  BY <1>9 DEF n

\* A page may be mapped in a table that is none of the upper ones.
LEMMA LeafTables ==
    ASSUME NEW m, NEW g, TablesOK(m, g), NEW s, LowerSlot(m, g, s), s \notin DOMAIN m,
           NEW pa \in PAs, NEW f \in Flags
    PROVE  TablesOK(Write(m, s, LeafEntry(pa, f)), g)
<1> DEFINE n == Write(m, s, LeafEntry(pa, f))
<1> PICK t \in {t \in g : ~IsUpper(m, t)}, i \in 0 .. 511 : s = <<t, i>>
  BY DEF LowerSlot, IsSlot
<1>1. /\ DOMAIN n = DOMAIN m \cup {s} /\ n[s] = LeafEntry(pa, f)
      /\ \A x \in DOMAIN m : n[x] = m[x]
  <2>1. /\ DOMAIN n = DOMAIN m \cup {s} /\ n[s] = LeafEntry(pa, f)
        /\ \A x \in DOMAIN m : x # s => n[x] = m[x]
    BY DEF Write
  <2> HIDE DEF n
  <2> QED
    BY <2>1
<1>2. s[1] = t /\ t \in g /\ t # ROOT /\ ~IsUpper(m, t)
  BY DEF IsUpper
<1> HIDE DEF n
<1>3. SecondTables(n) = SecondTables(m)
  BY <1>1, <1>2 DEF SecondTables
<1>4. Upper(n) = Upper(m) /\ s \notin Upper(n) /\ Upper(m) \subseteq DOMAIN m
  BY <1>1, <1>2, <1>3 DEF Upper, IsUpper
<1>5. \A x \in Upper(m) : n[x] = m[x]
  BY <1>1, <1>4
<1>6. TablesOK(n, g)
  <2>1. g \subseteq Pages
    BY DEF TablesOK
  <2>2. \A x \in DOMAIN n : IsSlot(x, g \cup {ROOT})
    <3>1. IsSlot(s, g \cup {ROOT})
      BY <1>2 DEF IsSlot
    <3>2. \A x \in DOMAIN m : IsSlot(x, g \cup {ROOT})
      BY DEF TablesOK
    <3> QED
      BY <1>1, <3>1, <3>2
  <2>3. /\ \A x \in Upper(n) : \E q \in g : n[x] = Link(q)
        /\ \A x, y \in Upper(n) : get_address(n[x]) = get_address(n[y]) => x = y
        /\ \A q \in g : \E x \in Upper(n) : get_address(n[x]) = q
    BY <1>4, <1>5 DEF TablesOK
  <2>4. \A x \in DOMAIN n \ Upper(n) : \E a \in PAs, e \in Flags : n[x] = LeafEntry(a, e)
    BY <1>1, <1>4 DEF TablesOK
  <2> QED
    BY <2>1, <2>2, <2>3, <2>4 DEF TablesOK
<1> QED
  BY <1>6 DEF n

----------------------------------------------------------------------------
\* The pages h that were mapped, and the entries that are found for them.

SecondSlot(va) == Slot(ROOT, va, 2)
FirstSlot(m, va) == Slot(TableAt(m, SecondSlot(va)), va, 1)
LeafSlot(m, va) == Slot(TableAt(m, FirstSlot(m, va)), va, 0)

Linked(m, va) == SecondSlot(va) \in DOMAIN m /\ FirstSlot(m, va) \in DOMAIN m
Found(m, va) == Linked(m, va) /\ LeafSlot(m, va) \in DOMAIN m

\* What was first asked for a page is what its entry holds, and nothing is
\* found for a page that was never mapped.
Asked(m, h, va) ==
    /\ Found(m, va) <=> Page(va) \in DOMAIN h
    /\ Found(m, va) => m[LeafSlot(m, va)] = LeafEntry(h[Page(va)].pa, h[Page(va)].flags)

MapsOK(m, h) ==
    /\ \A page \in DOMAIN h : h[page].pa \in PAs /\ h[page].flags \in Flags
    /\ \A va \in VAs : Asked(m, h, va)

\* A slot is one of the table it names.
LEMMA SlotFacts ==
    ASSUME NEW t, NEW va \in VAs
    PROVE  /\ Slot(t, va, 0) = <<t, vpn(va, 0)>> /\ Slot(t, va, 0)[1] = t
           /\ Slot(t, va, 1) = <<t, vpn(va, 1)>> /\ Slot(t, va, 1)[1] = t
           /\ Slot(t, va, 2) = <<t, vpn(va, 2)>> /\ Slot(t, va, 2)[1] = t
           /\ vpn(va, 0) \in 0 .. 511 /\ vpn(va, 1) \in 0 .. 511 /\ vpn(va, 2) \in 0 .. 511
<1>1. va \in Nat /\ 0 \in 0 .. 2 /\ 1 \in 0 .. 2 /\ 2 \in 0 .. 2
  BY Sv39Assumption
<1>2. vpn(va, 0) \in 0 .. 511 /\ vpn(va, 1) \in 0 .. 511 /\ vpn(va, 2) \in 0 .. 511
  BY <1>1, IndexFacts
<1> QED
  BY <1>2 DEF Slot

\* What is linked on the way of an address: entries of upper tables, and a
\* table that is none.
LEMMA LinkedFacts ==
    ASSUME NEW m, NEW g, TablesOK(m, g), NEW va \in VAs
    PROVE  /\ SecondSlot(va) \in DOMAIN m =>
                 /\ SecondSlot(va) \in Upper(m)
                 /\ TableAt(m, SecondSlot(va)) = get_address(m[SecondSlot(va)])
                 /\ TableAt(m, SecondSlot(va)) \in SecondTables(m)
           /\ Linked(m, va) =>
                 /\ FirstSlot(m, va) \in Upper(m)
                 /\ TableAt(m, FirstSlot(m, va)) = get_address(m[FirstSlot(m, va)])
                 /\ TableAt(m, FirstSlot(m, va)) \in g
                 /\ ~IsUpper(m, TableAt(m, FirstSlot(m, va)))
<1> DEFINE a == SecondSlot(va)
           b == FirstSlot(m, va)
<1>1. a[1] = ROOT
  BY SlotFacts DEF SecondSlot
<1>2. b[1] = TableAt(m, a)
  BY SlotFacts DEF FirstSlot
<1>3. Linked(m, va) <=> a \in DOMAIN m /\ b \in DOMAIN m
  BY DEF Linked
<1> HIDE DEF a, b
<1>4. ASSUME a \in DOMAIN m
      PROVE  a \in Upper(m) /\ TableAt(m, a) = get_address(m[a]) /\ TableAt(m, a) \in SecondTables(m)
  <2>1. TableAt(m, a) = get_address(m[a])
    BY <1>4 DEF TableAt, Entry
  <2> QED
    BY <1>1, <1>4, <2>1 DEF Upper, IsUpper, SecondTables
<1>5. ASSUME a \in DOMAIN m, b \in DOMAIN m
      PROVE  /\ b \in Upper(m) /\ TableAt(m, b) = get_address(m[b])
             /\ TableAt(m, b) \in g /\ ~IsUpper(m, TableAt(m, b))
  <2>1. b[1] \in SecondTables(m)
    BY <1>2, <1>4, <1>5
  <2>2. TableAt(m, b) = get_address(m[b])
    BY <1>5 DEF TableAt, Entry
  <2>3. b \in Upper(m)
    BY <1>5, <2>1 DEF Upper, IsUpper
  <2> QED
    BY <1>5, <2>1, <2>2, <2>3, LeafTable
<1> QED
  BY <1>3, <1>4, <1>5 DEF a, b

\* Entries that stay where they are leave the way of an address as it is.
LEMMA WayKept ==
    ASSUME NEW m, NEW n, NEW va,
           \A s \in DOMAIN m : s \in DOMAIN n /\ n[s] = m[s]
    PROVE  /\ SecondSlot(va) \in DOMAIN m => FirstSlot(n, va) = FirstSlot(m, va)
           /\ Linked(m, va) => Linked(n, va) /\ LeafSlot(n, va) = LeafSlot(m, va)
<1>1. \A s \in DOMAIN m : TableAt(n, s) = TableAt(m, s)
  BY DEF TableAt, Entry
<1>2. SecondSlot(va) \in DOMAIN m => FirstSlot(n, va) = FirstSlot(m, va)
  BY <1>1 DEF FirstSlot
<1>3. ASSUME Linked(m, va) PROVE Linked(n, va) /\ LeafSlot(n, va) = LeafSlot(m, va)
  <2>1. SecondSlot(va) \in DOMAIN m /\ FirstSlot(m, va) \in DOMAIN m
    BY <1>3 DEF Linked
  <2>2. Linked(n, va)
    BY <1>2, <2>1 DEF Linked
  <2>3. TableAt(n, FirstSlot(n, va)) = TableAt(m, FirstSlot(m, va))
    BY <1>1, <1>2, <2>1
  <2> QED
    BY <2>2, <2>3 DEF LeafSlot
<1> QED
  BY <1>2, <1>3

\* A page that is linked has no entries yet: what is found is what was.
LEMMA LinkFinds ==
    ASSUME NEW m, NEW g, TablesOK(m, g), NEW s, UpperSlot(m, s), s \notin DOMAIN m,
           NEW p \in Pages \ g, NEW h, MapsOK(m, h)
    PROVE  MapsOK(Write(m, s, Link(p)), h)
<1> DEFINE n == Write(m, s, Link(p))
<1> PICK t \in SecondTables(m) \cup {ROOT}, i \in 0 .. 511 : s = <<t, i>>
  BY DEF UpperSlot, IsSlot
<1>1. /\ DOMAIN n = DOMAIN m \cup {s} /\ n[s] = Link(p)
      /\ \A x \in DOMAIN m : n[x] = m[x]
  <2>1. /\ DOMAIN n = DOMAIN m \cup {s} /\ n[s] = Link(p)
        /\ \A x \in DOMAIN m : x # s => n[x] = m[x]
    BY DEF Write
  <2> HIDE DEF n
  <2> QED
    BY <2>1
<1>2. p # ROOT /\ get_address(Link(p)) = p /\ s[1] = t /\ IsUpper(m, t)
  BY LinkFacts, Sv39Assumption DEF IsUpper
<1>3. t # p
  BY <1>2, SecondGranted
<1> HIDE DEF n
<1>4. \A x \in DOMAIN n : x[1] # p
  <2>1. ASSUME NEW x \in DOMAIN m PROVE x[1] # p
    <3>1. PICK q \in g \cup {ROOT}, k \in 0 .. 511 : x = <<q, k>>
      BY DEF TablesOK, IsSlot
    <3> QED
      BY <1>2, <3>1
  <2> QED
    BY <1>1, <1>2, <1>3, <2>1
<1>5. \A x \in DOMAIN m : x \in DOMAIN n /\ n[x] = m[x]
  BY <1>1
<1>6. TableAt(n, s) = p
  BY <1>1, <1>2 DEF TableAt, Entry
<1>7. ASSUME NEW va \in VAs PROVE Asked(n, h, va)
  <2>1. Asked(m, h, va)
    BY DEF MapsOK
  <2>2. CASE Linked(m, va)
    <3>1. Linked(n, va) /\ LeafSlot(n, va) = LeafSlot(m, va)
      BY <1>5, <2>2, WayKept
    <3>2. LeafSlot(m, va) # s
      <4>1. LeafSlot(m, va)[1] = TableAt(m, FirstSlot(m, va))
        BY SlotFacts DEF LeafSlot
      <4> QED
        BY <1>2, <2>2, <4>1, LinkedFacts
    <3>3. Found(n, va) <=> Found(m, va)
      BY <1>1, <2>2, <3>1, <3>2 DEF Found
    <3>4. Found(m, va) => n[LeafSlot(n, va)] = m[LeafSlot(m, va)]
      BY <1>5, <3>1 DEF Found
    <3> QED
      BY <2>1, <3>3, <3>4 DEF Asked
  <2>3. CASE ~Linked(m, va)
    <3>1. ~Found(n, va)
      <4>1. SUFFICES ASSUME Found(n, va) PROVE FALSE
        OBVIOUS
      <4>2. /\ SecondSlot(va) \in DOMAIN n /\ FirstSlot(n, va) \in DOMAIN n
            /\ LeafSlot(n, va) \in DOMAIN n
        BY <4>1 DEF Found, Linked
      <4>3. /\ FirstSlot(n, va)[1] = TableAt(n, SecondSlot(va))
            /\ LeafSlot(n, va)[1] = TableAt(n, FirstSlot(n, va))
        BY SlotFacts DEF FirstSlot, LeafSlot
      <4>4. SecondSlot(va) # s /\ FirstSlot(n, va) # s
        BY <1>4, <1>6, <4>2, <4>3
      <4>5. SecondSlot(va) \in DOMAIN m
        BY <1>1, <4>2, <4>4
      <4>6. FirstSlot(n, va) = FirstSlot(m, va)
        BY <1>5, <4>5, WayKept
      <4>7. Linked(m, va)
        BY <1>1, <4>2, <4>4, <4>5, <4>6 DEF Linked
      <4> QED
        BY <2>3, <4>7
    <3>2. ~Found(m, va)
      BY <2>3 DEF Found
    <3> QED
      BY <2>1, <3>1, <3>2 DEF Asked
  <2> QED
    BY <2>2, <2>3
<1>8. MapsOK(n, h)
  BY <1>7 DEF MapsOK
<1> QED
  BY <1>8 DEF n

\* Two addresses that are found in one place are of one page.
LEMMA OnePlace ==
    ASSUME NEW m, NEW g, TablesOK(m, g), NEW va \in VAs, NEW w \in VAs,
           Linked(m, va), Linked(m, w), LeafSlot(m, va) = LeafSlot(m, w)
    PROVE  Page(va) = Page(w)
<1> DEFINE Way(v) == <<SecondSlot(v), FirstSlot(m, v), LeafSlot(m, v)>>
<1>1. \A v \in VAs : /\ SecondSlot(v) = <<ROOT, vpn(v, 2)>>
                     /\ FirstSlot(m, v) = <<TableAt(m, SecondSlot(v)), vpn(v, 1)>>
                     /\ LeafSlot(m, v) = <<TableAt(m, FirstSlot(m, v)), vpn(v, 0)>>
  BY DEF SecondSlot, FirstSlot, LeafSlot, Slot
<1>2. /\ TableAt(m, FirstSlot(m, va)) = TableAt(m, FirstSlot(m, w))
      /\ vpn(va, 0) = vpn(w, 0)
  BY <1>1
<1>3. FirstSlot(m, va) = FirstSlot(m, w)
  <2>1. /\ FirstSlot(m, va) \in Upper(m) /\ FirstSlot(m, w) \in Upper(m)
        /\ get_address(m[FirstSlot(m, va)]) = get_address(m[FirstSlot(m, w)])
    BY <1>2, LinkedFacts
  <2> QED
    BY <2>1 DEF TablesOK
<1>4. /\ TableAt(m, SecondSlot(va)) = TableAt(m, SecondSlot(w))
      /\ vpn(va, 1) = vpn(w, 1)
  BY <1>1, <1>3
<1>5. SecondSlot(va) = SecondSlot(w)
  <2>1. /\ SecondSlot(va) \in Upper(m) /\ SecondSlot(w) \in Upper(m)
        /\ get_address(m[SecondSlot(va)]) = get_address(m[SecondSlot(w)])
    BY <1>4, LinkedFacts DEF Linked
  <2> QED
    BY <2>1 DEF TablesOK
<1>6. vpn(va, 2) = vpn(w, 2)
  BY <1>1, <1>5
<1>7. \A level \in 0 .. 2 : vpn(va, level) = vpn(w, level)
  <2>1. \A level \in 0 .. 2 : level = 0 \/ level = 1 \/ level = 2
    OBVIOUS
  <2> QED
    BY <1>2, <1>4, <1>6, <2>1
<1> QED
  BY <1>7, Sv39Assumption

\* A page that was not found is mapped, and no other mapping changes.
LEMMA LeafFinds ==
    ASSUME NEW m, NEW g, TablesOK(m, g), NEW h, MapsOK(m, h), NEW va \in VAs,
           Linked(m, va), ~Found(m, va), NEW pa \in PAs, NEW f \in Flags
    PROVE  /\ Page(va) \notin DOMAIN h
           /\ TablesOK(Write(m, LeafSlot(m, va), LeafEntry(pa, f)), g)
           /\ MapsOK(Write(m, LeafSlot(m, va), LeafEntry(pa, f)),
                     Write(h, Page(va), [pa |-> pa, flags |-> f]))
<1> DEFINE s == LeafSlot(m, va)
           n == Write(m, s, LeafEntry(pa, f))
           page == Page(va)
           new == [pa |-> pa, flags |-> f]
           k == Write(h, page, new)
<1>1. s \notin DOMAIN m
  BY DEF Found
<1>2. page \notin DOMAIN h
  BY DEF MapsOK, Asked
<1>3. TablesOK(n, g)
  <2>1. s = <<TableAt(m, FirstSlot(m, va)), vpn(va, 0)>>
    BY DEF LeafSlot, Slot
  <2>2. TableAt(m, FirstSlot(m, va)) \in {t \in g : ~IsUpper(m, t)}
    BY LinkedFacts
  <2> HIDE DEF s
  <2>3. LowerSlot(m, g, s)
    <3>1. vpn(va, 0) \in 0 .. 511
      BY SlotFacts, ZenonT(60)
    <3> QED
      BY <2>1, <2>2, <3>1 DEF LowerSlot, IsSlot
  <2> QED
    BY <1>1, <2>3, LeafTables
<1> HIDE DEF s
<1>4. /\ DOMAIN n = DOMAIN m \cup {s} /\ n[s] = LeafEntry(pa, f)
      /\ \A x \in DOMAIN m : x # s => n[x] = m[x]
  BY DEF Write
<1> HIDE DEF page, new
<1>5. /\ DOMAIN k = DOMAIN h \cup {page} /\ k[page] = new
      /\ \A x \in DOMAIN h : x # page => k[x] = h[x]
  BY DEF Write
<1> HIDE DEF n, k
<1>6. new.pa = pa /\ new.flags = f
  BY DEF new
<1>7. \A x \in DOMAIN m : x \in DOMAIN n /\ n[x] = m[x]
  BY <1>1, <1>4
<1>8. ASSUME NEW x \in DOMAIN k PROVE k[x].pa \in PAs /\ k[x].flags \in Flags
  BY <1>2, <1>5, <1>6 DEF MapsOK
<1>9. ASSUME NEW w \in VAs PROVE Asked(n, k, w)
  <2>1. Asked(m, h, w)
    BY DEF MapsOK
  <2>2. s[1] = TableAt(m, FirstSlot(m, va))
    BY SlotFacts DEF s, LeafSlot
  <2>3. ~IsUpper(m, s[1]) /\ s[1] # ROOT
    BY <2>2, LinkedFacts DEF IsUpper
  <2>4. Linked(n, w) <=> Linked(m, w)
    <3>1. Linked(m, w) => Linked(n, w)
      BY <1>7, WayKept
    <3>2. SUFFICES ASSUME Linked(n, w) PROVE Linked(m, w)
      BY <3>1
    <3>3. SecondSlot(w) \in DOMAIN n /\ FirstSlot(n, w) \in DOMAIN n
      BY <3>2 DEF Linked
    <3>4. SecondSlot(w) \in DOMAIN m
      <4>1. SecondSlot(w)[1] = ROOT
        BY SlotFacts DEF SecondSlot
      <4> QED
        BY <1>4, <2>3, <3>3, <4>1
    <3>5. FirstSlot(n, w) = FirstSlot(m, w)
      BY <1>7, <3>4, WayKept
    <3>6. FirstSlot(m, w)[1] = TableAt(m, SecondSlot(w))
      BY SlotFacts DEF FirstSlot
    <3>7. IsUpper(m, FirstSlot(m, w)[1])
      BY <3>4, <3>6, LinkedFacts DEF IsUpper
    <3>8. FirstSlot(m, w) \in DOMAIN m
      BY <1>4, <2>3, <3>3, <3>5, <3>7
    <3> QED
      BY <3>4, <3>8 DEF Linked
  <2>5. Linked(m, w) => LeafSlot(n, w) = LeafSlot(m, w)
    BY <1>7, WayKept
  <2>6. CASE Page(w) = page
    <3>1. \A level \in 0 .. 2 : vpn(w, level) = vpn(va, level)
      <4> SUFFICES ASSUME NEW level \in 0 .. 2 PROVE vpn(w, level) = vpn(va, level)
        OBVIOUS
      <4>1. va \in Nat /\ w \in Nat
        BY Sv39Assumption
      <4>2. vpn(Page(w), level) = vpn(w, level) /\ vpn(Page(va), level) = vpn(va, level)
        BY <4>1, IndexFacts
      <4> QED
        BY <2>6, <4>2 DEF page
    <3>2. vpn(w, 0) = vpn(va, 0) /\ vpn(w, 1) = vpn(va, 1) /\ vpn(w, 2) = vpn(va, 2)
      <4>1. 0 \in 0 .. 2 /\ 1 \in 0 .. 2 /\ 2 \in 0 .. 2
        OBVIOUS
      <4> QED
        BY <3>1, <4>1
    <3>3. SecondSlot(w) = SecondSlot(va)
      BY <3>2 DEF SecondSlot, Slot
    <3>4. FirstSlot(m, w) = FirstSlot(m, va)
      BY <3>2, <3>3 DEF FirstSlot, Slot
    <3>5. LeafSlot(m, w) = s /\ Linked(m, w)
      BY <3>2, <3>3, <3>4 DEF LeafSlot, Slot, s, Linked
    <3>6. Found(n, w) /\ n[LeafSlot(n, w)] = LeafEntry(pa, f)
      BY <1>4, <2>4, <2>5, <3>5 DEF Found
    <3> QED
      BY <1>5, <1>6, <2>6, <3>6 DEF Asked
  <2>7. CASE Page(w) # page
    <3>1. Page(w) \in DOMAIN k <=> Page(w) \in DOMAIN h
      BY <1>5, <2>7
    <3>2. Page(w) \in DOMAIN h => k[Page(w)] = h[Page(w)]
      BY <1>5, <2>7
    <3>3. Linked(m, w) => LeafSlot(m, w) # s
      BY <2>7, OnePlace DEF s, page
    <3>4. Found(n, w) <=> Found(m, w)
      BY <1>4, <2>4, <2>5, <3>3 DEF Found
    <3>5. Found(m, w) => n[LeafSlot(n, w)] = m[LeafSlot(m, w)]
      BY <1>7, <2>5 DEF Found
    <3> QED
      BY <2>1, <3>1, <3>2, <3>4, <3>5 DEF Asked
  <2> QED
    BY <2>6, <2>7
<1>10. MapsOK(n, k)
  BY <1>8, <1>9 DEF MapsOK
<1> QED
  BY <1>2, <1>3, <1>10 DEF n, k, s, page, new

\* The tables after a missing one was put into a slot of an upper one: the
\* slot is taken and what was there is as it was.
LEMMA TablesStep ==
    ASSUME NEW m, NEW g, TablesOK(m, g), NEW h, MapsOK(m, h), NEW s, UpperSlot(m, s),
           NEW u \in Tables(m, g, s)
    PROVE  /\ TablesOK(u.m, u.g) /\ MapsOK(u.m, h)
           /\ s \in DOMAIN u.m
           /\ \A x \in DOMAIN m : x \in DOMAIN u.m /\ u.m[x] = m[x]
<1>1. is_valid(Entry(m, s)) <=> s \in DOMAIN m
  BY EntryValid
<1>2. CASE s \in DOMAIN m
  <2>1. u = [m |-> m, g |-> g]
    BY <1>1, <1>2 DEF Tables
  <2>2. u.m = m /\ u.g = g
    BY <2>1
  <2> QED
    BY <1>2, <2>2
<1>3. CASE s \notin DOMAIN m
  <2>1. PICK p \in Pages \ g : u = [m |-> Write(m, s, Link(p)), g |-> g \cup {p}]
    <3>1. u \in {[m |-> Write(m, s, Link(p)), g |-> g \cup {p}] : p \in Pages \ g}
      BY <1>1, <1>3, Zenon DEF Tables, Link
    <3> QED
      BY <3>1
  <2>2. u.m = Write(m, s, Link(p)) /\ u.g = g \cup {p}
    BY <2>1
  <2>3. TablesOK(u.m, u.g) /\ MapsOK(u.m, h)
    <3>1. TablesOK(Write(m, s, Link(p)), g \cup {p})
      BY <1>3, LinkTables
    <3>2. MapsOK(Write(m, s, Link(p)), h)
      BY <1>3, LinkFinds
    <3> QED
      BY <2>2, <3>1, <3>2
  <2>4. /\ DOMAIN u.m = DOMAIN m \cup {s}
        /\ \A x \in DOMAIN m : x # s => u.m[x] = m[x]
    BY <2>2 DEF Write
  <2>5. s \in DOMAIN u.m /\ \A x \in DOMAIN m : x \in DOMAIN u.m /\ u.m[x] = m[x]
    BY <1>3, <2>4
  <2> QED
    BY <2>3, <2>5
<1> QED
  BY <1>2, <1>3

----------------------------------------------------------------------------
PagingResult ==
    result \in {"none", "SUCCESS", "PAGING_UNALIGNED_ADDR", "PAGING_ALLOC_FAILED",
                "PAGING_MAP_EXISTS"}

PagingInv == TablesOK(entries, granted) /\ MapsOK(entries, mapped) /\ PagingResult

\* No table is linked and nothing is mapped.
LEMMA PagingStart == Init => PagingInv
<1> SUFFICES ASSUME Init PROVE PagingInv
  OBVIOUS
<1>1. entries = <<>> /\ granted = {} /\ mapped = <<>> /\ DOMAIN entries = {} /\ DOMAIN mapped = {}
  BY DEF Init
<1>2. TablesOK(entries, granted)
  BY <1>1 DEF TablesOK, Upper
<1>3. MapsOK(entries, mapped)
  BY <1>1 DEF MapsOK, Asked, Found, Linked
<1> QED
  BY <1>2, <1>3 DEF Init, PagingInv, PagingResult

\* The second level is there, or was missing and is a page just granted.
LEMMA SecondStep ==
    ASSUME PagingInv, NEW va \in VAs, NEW t \in Tables(entries, granted, SecondSlot(va))
    PROVE  /\ TablesOK(t.m, t.g) /\ MapsOK(t.m, mapped)
           /\ SecondSlot(va) \in DOMAIN t.m
<1>1. UpperSlot(entries, SecondSlot(va))
  BY SlotFacts DEF SecondSlot, UpperSlot, IsSlot
<1>2. TablesOK(entries, granted) /\ MapsOK(entries, mapped)
  BY DEF PagingInv
<1> QED
  BY <1>1, <1>2, TablesStep

\* So is the first.
LEMMA FirstStep ==
    ASSUME NEW m, NEW g, TablesOK(m, g), NEW h, MapsOK(m, h), NEW va \in VAs,
           SecondSlot(va) \in DOMAIN m, NEW u \in Tables(m, g, FirstSlot(m, va))
    PROVE  /\ TablesOK(u.m, u.g) /\ MapsOK(u.m, h)
           /\ Linked(u.m, va) /\ FirstSlot(u.m, va) = FirstSlot(m, va)
<1>1. UpperSlot(m, FirstSlot(m, va))
  <2>1. TableAt(m, SecondSlot(va)) \in SecondTables(m)
    BY LinkedFacts
  <2> QED
    BY <2>1, SlotFacts DEF FirstSlot, UpperSlot, IsSlot
<1>2. /\ TablesOK(u.m, u.g) /\ MapsOK(u.m, h) /\ FirstSlot(m, va) \in DOMAIN u.m
      /\ \A s \in DOMAIN m : s \in DOMAIN u.m /\ u.m[s] = m[s]
  BY <1>1, TablesStep
<1>3. FirstSlot(u.m, va) = FirstSlot(m, va)
  BY <1>2, WayKept
<1> QED
  BY <1>2, <1>3 DEF Linked

\* No call of map_small_page disturbs the tables, whatever it is asked and
\* wherever it is refused.
LEMMA PagingStep == PagingInv /\ [Next]_vars => PagingInv'
<1> SUFFICES ASSUME PagingInv, [Next]_vars PROVE PagingInv'
  OBVIOUS
<1>1. ASSUME NEW va \in VAs, NEW pa \in PAs, Unaligned(va, pa) PROVE PagingInv'
  BY <1>1 DEF Unaligned, PagingInv, PagingResult
<1>2. ASSUME NEW va \in VAs, NEW pa \in PAs, NoSecondLevel(va, pa) PROVE PagingInv'
  BY <1>2 DEF NoSecondLevel, PagingInv, PagingResult
<1>3. ASSUME NEW va \in VAs, NEW pa \in PAs, NoFirstLevel(va, pa) PROVE PagingInv'
  <2>1. PICK t \in Tables(entries, granted, SecondSlot(va)) : entries' = t.m /\ granted' = t.g
    BY <1>3 DEF NoFirstLevel, SecondSlot
  <2>2. mapped' = mapped /\ PagingResult'
    BY <1>3 DEF NoFirstLevel, PagingResult
  <2>3. TablesOK(t.m, t.g) /\ MapsOK(t.m, mapped)
    BY SecondStep
  <2> QED
    BY <2>1, <2>2, <2>3 DEF PagingInv
<1>4. ASSUME NEW va \in VAs, NEW pa \in PAs, NEW flags \in Flags, Walked(va, pa, flags)
      PROVE  PagingInv'
  <2>1. PICK t \in Tables(entries, granted, SecondSlot(va)) :
           \E u \in Tables(t.m, t.g, FirstSlot(t.m, va)) :
              LET leaf == Slot(TableAt(u.m, FirstSlot(t.m, va)), va, 0)
              IN  /\ granted' = u.g
                  /\ IF Taken(Entry(u.m, leaf))
                     THEN /\ entries' = u.m
                          /\ result' = "PAGING_MAP_EXISTS"
                          /\ UNCHANGED mapped
                     ELSE /\ entries' = Write(u.m, leaf, LeafEntry(pa, flags))
                          /\ result' = "SUCCESS"
                          /\ mapped' = IF Page(va) \in DOMAIN mapped THEN mapped
                                       ELSE Write(mapped, Page(va), [pa |-> pa, flags |-> flags])
    BY <1>4 DEF Walked, SecondSlot, FirstSlot, LeafEntry
  <2>2. PICK u \in Tables(t.m, t.g, FirstSlot(t.m, va)) :
              LET leaf == Slot(TableAt(u.m, FirstSlot(t.m, va)), va, 0)
              IN  /\ granted' = u.g
                  /\ IF Taken(Entry(u.m, leaf))
                     THEN /\ entries' = u.m
                          /\ result' = "PAGING_MAP_EXISTS"
                          /\ UNCHANGED mapped
                     ELSE /\ entries' = Write(u.m, leaf, LeafEntry(pa, flags))
                          /\ result' = "SUCCESS"
                          /\ mapped' = IF Page(va) \in DOMAIN mapped THEN mapped
                                       ELSE Write(mapped, Page(va), [pa |-> pa, flags |-> flags])
    BY <2>1
  <2>3. TablesOK(t.m, t.g) /\ MapsOK(t.m, mapped) /\ SecondSlot(va) \in DOMAIN t.m
    BY SecondStep
  <2>4. /\ TablesOK(u.m, u.g) /\ MapsOK(u.m, mapped)
        /\ Linked(u.m, va) /\ FirstSlot(u.m, va) = FirstSlot(t.m, va)
    BY <2>3, FirstStep
  <2> DEFINE leaf == LeafSlot(u.m, va)
  <2>5. leaf = Slot(TableAt(u.m, FirstSlot(t.m, va)), va, 0)
    BY <2>4 DEF LeafSlot
  <2>6. is_valid(Entry(u.m, leaf)) <=> leaf \in DOMAIN u.m
    BY <2>4, EntryValid
  <2>7. CASE leaf \in DOMAIN u.m
    <3>1. /\ granted' = u.g /\ entries' = u.m
          /\ result' = "PAGING_MAP_EXISTS" /\ mapped' = mapped
      BY <2>2, <2>5, <2>6, <2>7 DEF Taken
    <3> QED
      BY <2>4, <3>1 DEF PagingInv, PagingResult
  <2>8. CASE leaf \notin DOMAIN u.m
    <3>1. ~Found(u.m, va)
      BY <2>8 DEF Found
    <3>2. /\ Page(va) \notin DOMAIN mapped
          /\ TablesOK(Write(u.m, leaf, LeafEntry(pa, flags)), u.g)
          /\ MapsOK(Write(u.m, leaf, LeafEntry(pa, flags)),
                    Write(mapped, Page(va), [pa |-> pa, flags |-> flags]))
      BY <2>4, <3>1, LeafFinds
    <3>3. /\ granted' = u.g /\ entries' = Write(u.m, leaf, LeafEntry(pa, flags))
          /\ result' = "SUCCESS"
          /\ mapped' = Write(mapped, Page(va), [pa |-> pa, flags |-> flags])
      BY <2>2, <2>5, <2>6, <2>8, <3>2 DEF Taken
    <3> QED
      BY <3>2, <3>3 DEF PagingInv, PagingResult
  <2> QED
    BY <2>7, <2>8
<1>5. CASE UNCHANGED vars
  BY <1>5 DEF vars, PagingInv, PagingResult
<1> QED
  BY <1>1, <1>2, <1>3, <1>4, <1>5 DEF Next, map_small_page

\* The invariant holds in every reachable state.
LEMMA PagingInvariant == Spec => []PagingInv
<1>1. Init => PagingInv
  BY PagingStart
<1>2. PagingInv /\ [Next]_vars => PagingInv'
  BY PagingStep
<1> QED
  BY <1>1, <1>2, PTL DEF Spec

\* The sets of the properties are those of the invariant.
LEMMA SecondIs == SecondLevel = SecondTables(entries)
BY DEF SecondLevel, LinkedFrom, SecondTables

LEMMA FirstIs ==
    FirstLevel = {get_address(entries[s]) : s \in {s \in DOMAIN entries : s[1] \in SecondLevel}}
BY DEF FirstLevel, LinkedFrom

\* A table is in a page that was granted, and so is what an upper one links
\* (sv39.h:33-72).
THEOREM TablesTyped == Spec => []TypeOK
<1>1. PagingInv => TypeOK
  <2> SUFFICES ASSUME PagingInv PROVE TypeOK
    OBVIOUS
  <2>1. TablesOK(entries, granted) /\ PagingResult
    BY DEF PagingInv
  <2>2. ASSUME NEW s \in DOMAIN entries
        PROVE  s[1] \in granted \cup {ROOT} /\ s[2] < TABLE_ENTRY_COUNT
    <3>1. PICK t \in granted \cup {ROOT}, i \in 0 .. 511 : s = <<t, i>>
      BY <2>1 DEF TablesOK, IsSlot
    <3>2. i < 512
      OBVIOUS
    <3> QED
      BY <3>1, <3>2 DEF TABLE_ENTRY_COUNT
  <2>3. SecondLevel \subseteq granted
    BY <2>1, SecondIs, SecondGranted
  <2>4. FirstLevel \subseteq granted
    <3> SUFFICES ASSUME NEW s \in DOMAIN entries, s[1] \in SecondLevel
                 PROVE  get_address(entries[s]) \in granted
      BY FirstIs
    <3> QED
      BY <2>1, SecondIs, LeafTable
  <2> QED
    BY <2>1, <2>2, <2>3, <2>4 DEF TypeOK, TablesOK, PagingResult
<1> QED
  BY <1>1, PagingInvariant, PTL

\* A page that was granted is linked in one place, however often a mapping
\* failed half way (sv39.cpp:25-41).
THEOREM LinkedOnce == Spec => []TablesLinkedOnce
<1>1. PagingInv => TablesLinkedOnce
  <2> SUFFICES ASSUME PagingInv PROVE TablesLinkedOnce
    OBVIOUS
  <2> DEFINE upper == {s \in DOMAIN entries : s[1] \in SecondLevel \cup {ROOT}}
             At(p) == {s \in upper : get_address(entries[s]) = p}
  <2>1. TablesOK(entries, granted)
    BY DEF PagingInv
  <2>2. upper = Upper(entries)
    BY SecondIs DEF Upper, IsUpper
  <2> HIDE DEF upper
  <2>3. ASSUME NEW p \in granted PROVE Cardinality(At(p)) = 1
    <3>1. PICK s \in upper : get_address(entries[s]) = p
      BY <2>1, <2>2 DEF TablesOK
    <3>2. \A r \in upper : get_address(entries[r]) = p => r = s
      BY <2>1, <2>2, <3>1 DEF TablesOK
    <3>3. At(p) = {s}
      BY <3>1, <3>2
    <3> HIDE DEF At
    <3> QED
      BY <3>3, FS_Singleton
  <2> QED
    BY <2>3 DEF TablesLinkedOnce, upper
<1> QED
  BY <1>1, PagingInvariant, PTL

----------------------------------------------------------------------------
\* The walk.

\* One turn of the loop, when what follows it yields below.
Turn(va, level, table, below) ==
    LET e == Entry(entries, Slot(table, va, level))
    IN  CASE ~is_valid(e) -> NotMapped
          [] is_valid(e) /\ is_leaf(e) -> PhysicalAddress(e, va, level)
          [] OTHER -> below

\* The table of the next turn.
Below(va, table, level) == get_address(Entry(entries, Slot(table, va, level)))

\* The recursion that is the loop.
IsWalk(walk, va) ==
    walk = [level \in 0 .. 2 |->
               [table \in Nat |->
                  LET e == Entry(entries, Slot(table, va, level))
                  IN  CASE ~is_valid(e) -> NotMapped
                        [] is_valid(e) /\ is_leaf(e) -> PhysicalAddress(e, va, level)
                        [] OTHER -> IF level = 0 THEN Unreachable
                                                 ELSE walk[level - 1][get_address(e)]]]

\* The recursion ends: it can be followed from the last level up.
LEMMA WalkIs ==
    ASSUME NEW va
    PROVE  \E walk : IsWalk(walk, va) /\ virt_to_phys(va) = walk[2][ROOT]
<1> DEFINE F0 == [table \in Nat |-> Turn(va, 0, table, Unreachable)]
           F1 == [table \in Nat |-> Turn(va, 1, table, F0[Below(va, table, 1)])]
           F2 == [table \in Nat |-> Turn(va, 2, table, F1[Below(va, table, 2)])]
           F == [level \in 0 .. 2 |-> IF level = 0 THEN F0 ELSE IF level = 1 THEN F1 ELSE F2]
           Rest(level, table) == IF level = 0 THEN Unreachable
                                 ELSE F[level - 1][Below(va, table, level)]
           G == [level \in 0 .. 2 |-> [table \in Nat |-> Turn(va, level, table, Rest(level, table))]]
<1> HIDE DEF F0, F1, F2
<1>1. F[0] = F0 /\ F[1] = F1 /\ F[2] = F2
  BY 0 \in 0 .. 2, 1 \in 0 .. 2, 2 \in 0 .. 2
<1> HIDE DEF F
<1>2. \A table : Rest(0, table) = Unreachable
  OBVIOUS
<1>3. \A table : Rest(1, table) = F0[Below(va, table, 1)]
  BY <1>1
<1>4. \A table : Rest(2, table) = F1[Below(va, table, 2)]
  BY <1>1
<1> HIDE DEF Rest
<1>5. F = G
  <2>1. G[0] = F0
    BY <1>2, 0 \in 0 .. 2 DEF F0
  <2>2. G[1] = F1
    BY <1>3, 1 \in 0 .. 2 DEF F1
  <2>3. G[2] = F2
    BY <1>4, 2 \in 0 .. 2 DEF F2
  <2>4. F = [level \in 0 .. 2 |-> F[level]] /\ G = [level \in 0 .. 2 |-> G[level]]
    BY DEF F
  <2> HIDE DEF G
  <2>5. \A level \in 0 .. 2 : level = 0 \/ level = 1 \/ level = 2
    OBVIOUS
  <2>6. \A level \in 0 .. 2 : F[level] = G[level]
    BY <1>1, <2>1, <2>2, <2>3, <2>5
  <2> QED
    BY <2>4, <2>6, Zenon
<1>6. IsWalk(F, va)
  <2>1. F = [level \in 0 .. 2 |-> [table \in Nat |-> Turn(va, level, table,
               IF level = 0 THEN Unreachable ELSE F[level - 1][Below(va, table, level)])]]
    BY <1>5, Zenon DEF Rest
  <2> QED
    BY <2>1, Zenon DEF IsWalk, Turn, Below
<1>7. virt_to_phys(va) = (CHOOSE walk : IsWalk(walk, va))[2][ROOT]
  BY DEF virt_to_phys, IsWalk
<1>8. IsWalk(CHOOSE walk : IsWalk(walk, va), va)
  BY <1>6, Zenon
<1> QED
  BY <1>7, <1>8

\* The loop is three turns, each in the table the one before it found.
LEMMA ThreeTurns ==
    ASSUME TablesOK(entries, granted), NEW va \in VAs
    PROVE  virt_to_phys(va) =
             Turn(va, 2, ROOT,
               Turn(va, 1, TableAt(entries, SecondSlot(va)),
                 Turn(va, 0, TableAt(entries, FirstSlot(entries, va)), Unreachable)))
<1>1. PICK walk : IsWalk(walk, va) /\ virt_to_phys(va) = walk[2][ROOT]
  BY WalkIs
<1>2. ASSUME NEW level \in 0 .. 2, NEW table \in Nat
      PROVE  walk[level][table] = Turn(va, level, table,
                IF level = 0 THEN Unreachable ELSE walk[level - 1][Below(va, table, level)])
  <2>1. walk = [l \in 0 .. 2 |-> [t \in Nat |-> Turn(va, l, t,
                  IF l = 0 THEN Unreachable ELSE walk[l - 1][Below(va, t, l)])]]
    BY <1>1, Zenon DEF IsWalk, Turn, Below
  <2> HIDE DEF Below
  <2> DEFINE R(l, t) == Turn(va, l, t,
                  IF l = 0 THEN Unreachable ELSE walk[l - 1][Below(va, t, l)])
  <2>2. walk = [l \in 0 .. 2 |-> [t \in Nat |-> R(l, t)]]
    BY <2>1, Zenon
  <2> HIDE DEF R
  <2>3. walk[level][table] = R(level, table)
    BY <2>2
  <2> QED
    BY <2>3, Zenon DEF R
<1>3. /\ ROOT \in Nat /\ TableAt(entries, SecondSlot(va)) \in Nat
      /\ TableAt(entries, FirstSlot(entries, va)) \in Nat
  BY Sv39Assumption, EntryValid, AddressFacts DEF TableAt
<1>4. /\ Below(va, ROOT, 2) = TableAt(entries, SecondSlot(va))
      /\ Below(va, TableAt(entries, SecondSlot(va)), 1) = TableAt(entries, FirstSlot(entries, va))
  BY DEF Below, TableAt, SecondSlot, FirstSlot
<1> DEFINE a == TableAt(entries, SecondSlot(va))
           b == TableAt(entries, FirstSlot(entries, va))
<1> HIDE DEF a, b
<1>5. ROOT \in Nat /\ a \in Nat /\ b \in Nat /\ Below(va, ROOT, 2) = a /\ Below(va, a, 1) = b
  BY <1>3, <1>4 DEF a, b
<1>6. walk[2][ROOT] = Turn(va, 2, ROOT, walk[1][a])
  <2>1. walk[2][ROOT] = Turn(va, 2, ROOT,
            IF 2 = 0 THEN Unreachable ELSE walk[2 - 1][Below(va, ROOT, 2)])
    BY <1>2, <1>5, 2 \in 0 .. 2
  <2> QED
    BY <2>1, <1>5, 2 # 0, 2 - 1 = 1
<1>7. walk[1][a] = Turn(va, 1, a, walk[0][b])
  <2>1. walk[1][a] = Turn(va, 1, a,
            IF 1 = 0 THEN Unreachable ELSE walk[1 - 1][Below(va, a, 1)])
    BY <1>2, <1>5, 1 \in 0 .. 2
  <2> QED
    BY <2>1, <1>5, 1 # 0, 1 - 1 = 0
<1>8. walk[0][b] = Turn(va, 0, b, Unreachable)
  <2>1. walk[0][b] = Turn(va, 0, b,
            IF 0 = 0 THEN Unreachable ELSE walk[0 - 1][Below(va, b, 0)])
    BY <1>2, <1>5, 0 \in 0 .. 2
  <2> QED
    BY <2>1
<1> QED
  BY <1>1, <1>6, <1>7, <1>8 DEF a, b

\* What a turn finds.
LEMMA TurnFinds ==
    ASSUME NEW va, NEW level, NEW table, NEW below
    PROVE  LET e == Entry(entries, Slot(table, va, level))
           IN  /\ ~is_valid(e) => Turn(va, level, table, below) = NotMapped
               /\ is_valid(e) /\ is_leaf(e) =>
                     Turn(va, level, table, below) = PhysicalAddress(e, va, level)
               /\ is_valid(e) /\ ~is_leaf(e) => Turn(va, level, table, below) = below
BY Zenon DEF Turn

\* An address is translated by the entry that is found for it.
LEMMA Translated ==
    ASSUME PagingInv, NEW va \in VAs
    PROVE  virt_to_phys(va) = IF Found(entries, va)
                              THEN PhysicalAddress(entries[LeafSlot(entries, va)], va, 0)
                              ELSE NotMapped
<1> DEFINE a == SecondSlot(va)
           b == FirstSlot(entries, va)
           c == LeafSlot(entries, va)
           T0 == Turn(va, 0, TableAt(entries, b), Unreachable)
           T1 == Turn(va, 1, TableAt(entries, a), T0)
           T2 == Turn(va, 2, ROOT, T1)
<1>1. TablesOK(entries, granted)
  BY DEF PagingInv
<1>2. virt_to_phys(va) = T2
  BY <1>1, ThreeTurns
<1>3. /\ a = Slot(ROOT, va, 2) /\ b = Slot(TableAt(entries, a), va, 1)
      /\ c = Slot(TableAt(entries, b), va, 0)
  BY DEF SecondSlot, FirstSlot, LeafSlot
<1>4. Found(entries, va) <=> a \in DOMAIN entries /\ b \in DOMAIN entries /\ c \in DOMAIN entries
  BY DEF Found, Linked
<1>5. \A s : /\ is_valid(Entry(entries, s)) <=> s \in DOMAIN entries
             /\ s \in DOMAIN entries => Entry(entries, s) = entries[s]
  BY <1>1, EntryValid DEF Entry
<1>6. a \in DOMAIN entries => ~is_leaf(Entry(entries, a))
  <2>1. a \in DOMAIN entries => a \in Upper(entries)
    BY <1>1, LinkedFacts
  <2> QED
    BY <1>1, <1>5, <2>1, UpperEntry
<1>7. a \in DOMAIN entries /\ b \in DOMAIN entries => ~is_leaf(Entry(entries, b))
  <2>1. a \in DOMAIN entries /\ b \in DOMAIN entries => b \in Upper(entries)
    BY <1>1, LinkedFacts DEF Linked
  <2> QED
    BY <1>1, <1>5, <2>1, UpperEntry
<1>8. Found(entries, va) => is_leaf(Entry(entries, c))
  <2>1. SUFFICES ASSUME Found(entries, va) PROVE is_leaf(Entry(entries, c))
    OBVIOUS
  <2>2. c[1] = TableAt(entries, b)
    BY SlotFacts DEF LeafSlot
  <2>3. ~IsUpper(entries, TableAt(entries, b))
    BY <1>1, <2>1, LinkedFacts DEF Found
  <2>4. c \in DOMAIN entries \ Upper(entries)
    BY <1>4, <2>1, <2>2, <2>3 DEF Upper
  <2> QED
    BY <1>1, <1>5, <2>4, LowerEntry
<1>9. CASE a \notin DOMAIN entries
  <2>1. T2 = NotMapped
    BY <1>3, <1>5, <1>9, TurnFinds
  <2> QED
    BY <1>2, <1>4, <1>9, <2>1
<1>10. CASE a \in DOMAIN entries /\ b \notin DOMAIN entries
  <2>1. T2 = T1
    BY <1>3, <1>5, <1>6, <1>10, TurnFinds
  <2>2. T1 = NotMapped
    BY <1>3, <1>5, <1>10, TurnFinds
  <2> QED
    BY <1>2, <1>4, <1>10, <2>1, <2>2
<1>11. CASE a \in DOMAIN entries /\ b \in DOMAIN entries
  <2>1. T2 = T1
    BY <1>3, <1>5, <1>6, <1>11, TurnFinds
  <2>2. T1 = T0
    BY <1>3, <1>5, <1>7, <1>11, TurnFinds
  <2>3. c \notin DOMAIN entries => T0 = NotMapped
    BY <1>3, <1>5, TurnFinds
  <2>4. c \in DOMAIN entries => T0 = PhysicalAddress(entries[c], va, 0)
    BY <1>3, <1>4, <1>5, <1>8, <1>11, TurnFinds
  <2> QED
    BY <1>2, <1>4, <1>11, <2>1, <2>2, <2>3, <2>4
<1> QED
  BY <1>9, <1>10, <1>11

\* The bit of an address that is joined to a translation.
LEMMA JoinedBit ==
    ASSUME NEW va \in Nat
    PROVE  \/ And[va][PAGE_SIZE] = 0
           \/ And[va][PAGE_SIZE] = PAGE_SIZE /\ (Page(va) \div PAGE_SIZE) % 2 = 1
<1>1. And[va][PAGE_SIZE] = PAGE_SIZE * ((va \div PAGE_SIZE) % 2)
  BY PageBit DEF HasBit
<1>2. Page(va) \div PAGE_SIZE = va \div PAGE_SIZE
  BY SMT DEF Page, PAGE_SIZE
<1>3. PICK q \in Nat : q = va \div PAGE_SIZE
  BY SMT DEF PAGE_SIZE
<1>4. q % 2 = 0 \/ q % 2 = 1
  BY SMT
<1> QED
  BY <1>1, <1>2, <1>3, <1>4, SMT DEF PAGE_SIZE

\* It is added to the address of a page, or was there.
LEMMA Joined ==
    ASSUME NEW e \in Nat, NEW va \in Nat
    PROVE  \/ PhysicalAddress(e, va, 0) = get_address(e)
           \/ /\ PhysicalAddress(e, va, 0) = get_address(e) + PAGE_SIZE
              /\ (Page(va) \div PAGE_SIZE) % 2 = 1
<1> DEFINE x == get_address(e)
           bit == And[va][PAGE_SIZE]
<1>1. x \in Nat
  BY AddressFacts
<1>2. PhysicalAddress(e, va, 0) = Or(x, bit)
  BY SMT DEF PhysicalAddress
<1> HIDE DEF x, bit
<1>3. CASE bit = 0
  BY <1>1, <1>2, <1>3, OrZero DEF x
<1>4. CASE bit = PAGE_SIZE /\ (Page(va) \div PAGE_SIZE) % 2 = 1
  <2>1. PICK q \in Nat : q = (x \div PAGE_SIZE) % 2 /\ (q = 0 \/ q = 1)
    BY <1>1, SMT DEF PAGE_SIZE
  <2>2. And[x][PAGE_SIZE] = PAGE_SIZE * q
    BY <1>1, <2>1, PageBit DEF HasBit
  <2>3. Or(x, PAGE_SIZE) = x + PAGE_SIZE - PAGE_SIZE * q
    BY <2>2, Zenon DEF Or
  <2>4. Or(x, PAGE_SIZE) = x \/ Or(x, PAGE_SIZE) = x + PAGE_SIZE
    BY <1>1, <2>1, <2>3, SMT DEF PAGE_SIZE
  <2> QED
    BY <1>2, <1>4, <2>4 DEF x
<1> QED
  BY <1>3, <1>4, JoinedBit DEF bit

\* The entry of a page is the one found for an address in it.
LEMMA LeafIs ==
    ASSUME NEW va \in VAs
    PROVE  Leaf(Page(va)) = Entry(entries, LeafSlot(entries, va))
<1>1. va \in Nat /\ 0 \in 0 .. 2 /\ 1 \in 0 .. 2 /\ 2 \in 0 .. 2
  BY Sv39Assumption
<1>2. \A t : /\ Slot(t, Page(va), 0) = Slot(t, va, 0)
             /\ Slot(t, Page(va), 1) = Slot(t, va, 1)
             /\ Slot(t, Page(va), 2) = Slot(t, va, 2)
  BY <1>1, IndexFacts DEF Slot
<1> QED
  BY <1>2, Zenon DEF Leaf, LeafSlot, FirstSlot, SecondSlot

\* What is found for an address is what was first asked for its page.
LEMMA FoundFacts ==
    ASSUME PagingInv, NEW va \in VAs
    PROVE  /\ Found(entries, va) <=> Page(va) \in DOMAIN mapped
           /\ Found(entries, va) =>
                /\ mapped[Page(va)].pa \in PAs /\ mapped[Page(va)].flags \in Flags
                /\ entries[LeafSlot(entries, va)]
                     = LeafEntry(mapped[Page(va)].pa, mapped[Page(va)].flags)
                /\ Leaf(Page(va)) = entries[LeafSlot(entries, va)]
                /\ virt_to_phys(va) = PhysicalAddress(entries[LeafSlot(entries, va)], va, 0)
           /\ ~Found(entries, va) => virt_to_phys(va) = NotMapped
<1>1. MapsOK(entries, mapped) /\ Asked(entries, mapped, va)
  BY DEF PagingInv, MapsOK
<1>2. Found(entries, va) => Leaf(Page(va)) = entries[LeafSlot(entries, va)]
  BY LeafIs DEF Found, Entry
<1> QED
  BY <1>1, <1>2, Translated DEF MapsOK, Asked

\* A translation is found for the pages that were mapped and for no others,
\* with the access first asked for (sv39.cpp:43-50 and 63-83).
THEOREM MappingsKept == Spec => []MappedAsAsked
<1>1. PagingInv => MappedAsAsked
  <2> SUFFICES ASSUME PagingInv, NEW va \in VAs
               PROVE  LET page == Page(va)
                      IN  IF page \in DOMAIN mapped
                          THEN /\ virt_to_phys(va) \notin {NotMapped, Unreachable}
                               /\ mapped[page].pa % PAGE_SIZE = 0 =>
                                     FlagBits(Leaf(page)) = Or(mapped[page].flags, TEF_VALID)
                          ELSE virt_to_phys(va) = NotMapped
    BY Zenon DEF MappedAsAsked
  <2>1. CASE Page(va) \notin DOMAIN mapped
    BY <2>1, FoundFacts, Zenon
  <2>2. CASE Page(va) \in DOMAIN mapped
    <3> DEFINE pa == mapped[Page(va)].pa
               f == mapped[Page(va)].flags
               e == entries[LeafSlot(entries, va)]
    <3>1. /\ pa \in PAs /\ f \in Flags /\ e = LeafEntry(pa, f) /\ Leaf(Page(va)) = e
          /\ virt_to_phys(va) = PhysicalAddress(e, va, 0)
      BY <2>2, FoundFacts, Zenon
    <3> HIDE DEF pa, f, e
    <3>2. e \in Nat /\ va \in Nat
      BY <3>1, LeafFacts, Sv39Assumption
    <3>3. virt_to_phys(va) \notin {NotMapped, Unreachable}
      <4>1. PICK x \in Nat : x = get_address(e) /\ x % PAGE_SIZE = 0
        BY <3>2, AddressFacts
      <4>2. virt_to_phys(va) = x \/ virt_to_phys(va) = x + PAGE_SIZE
        BY <3>1, <3>2, <4>1, Joined
      <4> QED
        BY <4>1, <4>2, SMT DEF NotMapped, Unreachable, PAGE_SIZE
    <3>4. pa % PAGE_SIZE = 0 => FlagBits(Leaf(Page(va))) = Or(f, TEF_VALID)
      BY <3>1, PageLeaf
    <3> QED
      BY <2>2, <3>3, <3>4, Zenon DEF pa, f
  <2> QED
    BY <2>1, <2>2
<1> QED
  BY <1>1, PagingInvariant, PTL

\* The leaf of a page holds the physical page that was first asked for, and
\* the translation of an even page leads into it (sv39.cpp:43-50 and 60-83).
THEOREM PagesAreTranslated == Spec => []TranslatedPage
<1>1. PagingInv => TranslatedPage
  <2> SUFFICES ASSUME PagingInv, NEW va \in VAs, Page(va) \in DOMAIN mapped,
                      mapped[Page(va)].pa % PAGE_SIZE = 0
               PROVE  /\ get_address(Leaf(Page(va))) = mapped[Page(va)].pa
                      /\ (Page(va) \div PAGE_SIZE) % 2 = 0 =>
                            Page(virt_to_phys(va)) = mapped[Page(va)].pa
    BY Zenon DEF TranslatedPage
  <2> DEFINE pa == mapped[Page(va)].pa
             f == mapped[Page(va)].flags
             e == entries[LeafSlot(entries, va)]
  <2>1. /\ pa \in PAs /\ f \in Flags /\ e = LeafEntry(pa, f) /\ Leaf(Page(va)) = e
        /\ virt_to_phys(va) = PhysicalAddress(e, va, 0)
    BY FoundFacts, Zenon
  <2>2. pa % PAGE_SIZE = 0
    OBVIOUS
  <2> HIDE DEF pa, f, e
  <2>3. e \in Nat /\ va \in Nat /\ pa \in Nat
    BY <2>1, LeafFacts, Sv39Assumption
  <2>4. get_address(e) = pa
    BY <2>1, <2>2, PageLeaf
  <2>5. (Page(va) \div PAGE_SIZE) % 2 = 0 => virt_to_phys(va) = pa
    BY <2>1, <2>3, <2>4, Joined
  <2>6. Page(pa) = pa
    BY <2>2, <2>3 DEF Page
  <2>7. /\ get_address(Leaf(Page(va))) = pa
        /\ (Page(va) \div PAGE_SIZE) % 2 = 0 => Page(virt_to_phys(va)) = pa
    BY <2>1, <2>4, <2>5, <2>6
  <2> QED
    BY <2>7 DEF pa
<1> QED
  BY <1>1, PagingInvariant, PTL

----------------------------------------------------------------------------
\* Class error.

ErrorInv == m_stack \in Nat /\ OkMeansNoError

\* An error reads as success only when no error was ever pushed on it, be it
\* made from any code and pushed with any number of errors (error.h:138-155).
THEOREM ErrorsNeverCancel == ErrorSpec => []OkMeansNoError
<1>1. ErrorInit => ErrorInv
  BY DEF ErrorInit, ErrorInv, OkMeansNoError
<1>2. ErrorInv /\ [ErrorNext]_errorVars => ErrorInv'
  <2> SUFFICES ASSUME ErrorInv, [ErrorNext]_errorVars PROVE ErrorInv'
    OBVIOUS
  <2>1. ASSUME NEW code \in Codes, make(code) PROVE ErrorInv'
    <3>1. code \in 0 .. 255 /\ code \in Nat
      BY CodesAssumption
    <3>2. m_stack' = code /\ pushed' = <<code>>
      BY <2>1 DEF make
    <3>3. code % 256 = code
      BY <3>1
    <3> QED
      BY <3>1, <3>2, <3>3 DEF ErrorInv, OkMeansNoError, is_ok, top
  <2>2. ASSUME NEW code \in Codes \ {SUCCESS}, push(code) PROVE ErrorInv'
    <3> DEFINE shifted == (m_stack * ShiftFactor) % WORD
    <3>1. code \in 1 .. 256 - 1 /\ code \in Nat
      BY CodesAssumption DEF SUCCESS
    <3>2. shifted \in Nat
      BY WordAssumption, ModRange DEF ErrorInv, ShiftFactor
    <3>3. m_stack' = Or(shifted, code)
      BY <2>2 DEF push
    <3> HIDE DEF shifted
    <3>4. m_stack' \in Nat /\ m_stack' % 256 # 0
      <4>1. code % 256 # 0
        BY <3>1
      <4>2. Or(shifted, code) % 256 # 0 /\ Or(shifted, code) \in Nat
        BY <3>1, <3>2, <4>1, OrNat, ByteKept
      <4> QED
        BY <3>3, <4>2
    <3> QED
      BY <3>4 DEF ErrorInv, OkMeansNoError, is_ok, top, SUCCESS
  <2>3. CASE UNCHANGED errorVars
    BY <2>3 DEF errorVars, ErrorInv, OkMeansNoError, is_ok, top
  <2> QED
    BY <2>1, <2>2, <2>3 DEF ErrorNext, pop
<1> QED
  BY <1>1, <1>2, PTL DEF ErrorSpec, ErrorInv
=============================================================================
