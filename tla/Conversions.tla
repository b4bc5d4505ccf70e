---------------------------- MODULE Conversions ----------------------------
(***************************************************************************)
(* The helpers the parser and the printer are built from: mem::fill, copy, *)
(* cmp and strlen, str_view and byte_view, num::read_big_endian and the    *)
(* printers of numbers.  They work on a small memory of bytes; a call      *)
(* leaves its arguments and its answer in ret, and the answers are         *)
(* compared with what the memory says without loops.                       *)
(*                                                                         *)
(* byte_view is str_view with bytes for characters, subview for substr,    *)
(* and an advance and a shorten that also change the view they are called  *)
(* on, which no caller looks at again.  A printed character is its digit;  *)
(* the prefix 0x is left out, and print is always given put_char.          *)
(***************************************************************************)
EXTENDS Words, Integers, Sequences

CONSTANTS
    N,           \* the bytes of the memory
    BYTE,        \* the values of a byte, 256 in the build
    Widths,      \* the widths in bytes of the numbers read
    Steps        \* bound on the advances of a view

ASSUME ConversionsAssumption ==
    /\ N \in Nat \ {0} /\ BYTE \in Nat \ {0, 1}
    /\ Widths \subseteq 1 .. N /\ Steps \in Nat

VARIABLES bytes, ret
helperVars == <<bytes, ret>>

Addresses == 0 .. N - 1

\* The number of values of k bytes.
Values[k \in Nat] == IF k = 0 THEN 1 ELSE BYTE * Values[k - 1]

HelperInit ==
    /\ bytes \in [Addresses -> 0 .. BYTE - 1]
    /\ ret = [op |-> "none"]

\* The pieces [at, size] of the memory, which views and buffers cover.
Pieces == {v \in [at : 0 .. N, size : 0 .. N] : v.at + v.size <= N}

----------------------------------------------------------------------------
\* mem

\* The bytes are copied one by one from the first on.
Copied(src, dst, count) ==
    LET after[k \in 0 .. N] ==
            IF k = 0 THEN bytes
            ELSE [after[k - 1] EXCEPT ![dst + k - 1] = after[k - 1][src + k - 1]]
    IN  after[count]

copy(src, dst, count) ==
    /\ src + count <= N /\ dst + count <= N
    /\ bytes' = Copied(src, dst, count)
    /\ ret' = [op |-> "copy", src |-> src, dst |-> dst, count |-> count, before |-> bytes]

fill(dest, c, count) ==
    /\ dest + count <= N
    /\ bytes' = [a \in Addresses |-> IF a \in dest .. dest + count - 1 THEN c ELSE bytes[a]]
    /\ ret' = [op |-> "fill"]

\* Mutant: the byte at which the count runs out is not looked at.
cmp_Short(lhs, rhs, count) ==
    LET from[k \in 0 .. N] ==
            IF k < count /\ bytes[lhs + k] = bytes[rhs + k] THEN from[k + 1]
            ELSE IF k = count THEN 0 ELSE bytes[lhs + k] - bytes[rhs + k]
    IN  from[IF count = 0 THEN 0 ELSE 1]

\* The difference of the bytes at which the loop stops, the last at the
\* latest.
cmp(lhs, rhs, count) ==
    LET from[k \in 0 .. N] ==
            IF k < count - 1 /\ bytes[lhs + k] = bytes[rhs + k] THEN from[k + 1]
            ELSE bytes[lhs + k] - bytes[rhs + k]
    IN  IF lhs = rhs \/ count = 0 THEN 0 ELSE from[0]

\* Asked of memory that has a 0 from src on; nothing behind it is read.
strlen(src) ==
    LET from[k \in 0 .. N - src] ==
            IF src + k = N \/ bytes[src + k] = 0 THEN k ELSE from[k + 1]
    IN  from[0]

Terminated(src) == \E a \in src .. N - 1 : bytes[a] = 0

----------------------------------------------------------------------------
\* str_view and byte_view

sentinel == WORD - 1

At(v, i) == bytes[v.at + i]

compare(s1, s2) ==
    LET from[i \in 0 .. N] ==
            IF i < s1.size /\ i < s2.size
            THEN IF At(s1, i) # At(s2, i) THEN At(s1, i) - At(s2, i) ELSE from[i + 1]
            ELSE s1.size - s2.size
    IN  from[0]

find(v, c, start) ==
    LET from[i \in Nat] ==
            IF i < v.size THEN IF At(v, i) = c THEN i ELSE from[i + 1] ELSE sentinel
    IN  from[start]

minimum(a, b) == IF a < b THEN a ELSE b

\* Mutant: the rest is not what is left behind the start.
substr_Unclipped(v, start, len) ==
    IF start > v.size
    THEN [at |-> v.at + v.size, size |-> 0]
    ELSE [at |-> v.at + start, size |-> minimum(len, v.size)]

substr(v, start, len) ==
    IF start > v.size
    THEN [at |-> v.at + v.size, size |-> 0]
    ELSE [at |-> v.at + start, size |-> minimum(len, v.size - start)]

\* The size is kept, in both classes.
advance(v, n) == [v EXCEPT !.at = @ + n]

shorten(v, n) == [v EXCEPT !.size = Sub(@, n)]

from_null_term(src) == [at |-> src, size |-> strlen(src)]

----------------------------------------------------------------------------
\* num

\* The number whose bytes in memory, the lowest first, start at ptr.
Loaded(ptr, w) == SumTo([k \in 1 .. w |-> bytes[ptr + k - 1] * Values[k - 1]], w)

\* num shifted by k bytes, to the right when k is positive, in its width.
Shifted(num, k, w) ==
    IF k >= 0 THEN num \div Values[k] ELSE (num * Values[-k]) % Values[w]

\* The byte of num at place k, with zeros around it.
Masked(num, k) == ((num \div Values[k]) % BYTE) * Values[k]

\* Mutant: one byte is moved by one place too few.
flip_endianness_Shift(num, w) ==
    SumTo([k \in 1 .. w |-> Masked(Shifted(num, w - 1 - (k - 1), w), k - 1)], w)

\* Each byte is moved by 7, 5, 3, 1, -1, ... places of a u64, masked, and
\* or-ed with the others, with which it shares no bit; a u128 is reversed
\* byte by byte.
flip_endianness(num, w) ==
    SumTo([k \in 1 .. w |-> Masked(Shifted(num, w - 1 - 2 * (k - 1), w), k - 1)], w)

read_big_endian(ptr, w) == flip_endianness(Loaded(ptr, w), w)

----------------------------------------------------------------------------
\* fmt

\* The digits are taken from the low end and printed from the high one.
Digits(value, base) ==
    LET of[num \in Nat] == IF num = 0 THEN <<>> ELSE Append(of[num \div base], num % base)
    IN  IF value = 0 THEN <<0>> ELSE of[value]

\* A signed number is the word modulo its width, in two's complement.
SignedValue(n, w) == IF 2 * n >= Values[w] THEN n - Values[w] ELSE n

PrintUnsigned(n, base) == [minus |-> FALSE, base |-> base, digits |-> Digits(n, base)]

PrintSigned(n, w) ==
    IF SignedValue(n, w) < 0
    THEN [minus |-> TRUE, base |-> 10, digits |-> Digits((-SignedValue(n, w)) % Values[w], 10)]
    ELSE PrintUnsigned(n, 10)

----------------------------------------------------------------------------
Answers(r) == ret' = r /\ UNCHANGED bytes

Memory ==
    \/ \E s, d \in Addresses, n \in 0 .. N : copy(s, d, n)
    \/ \E d \in Addresses, c \in 0 .. BYTE - 1, n \in 0 .. N : fill(d, c, n)
    \/ \E a, b \in Addresses, n \in 0 .. N :
          /\ a + n <= N /\ b + n <= N
          /\ Answers([op |-> "cmp", lhs |-> a, rhs |-> b, count |-> n, answer |-> cmp(a, b, n)])

Compare ==
    \/ \E v, w \in Pieces :
          Answers([op |-> "compare", s1 |-> v, s2 |-> w, answer |-> compare(v, w)])
    \/ \E v \in Pieces, c \in 0 .. BYTE - 1, k \in 0 .. N :
          Answers([op |-> "find", v |-> v, c |-> c, start |-> k, answer |-> find(v, c, k)])

\* A view is made, and then made into others; advanced counts the bytes by
\* which advance has moved its start.
View(v, whole, advanced) ==
    [op |-> "view", v |-> v, whole |-> whole, advanced |-> advanced]

MakeView ==
    \/ \E a \in Addresses :
          Terminated(a) /\ Answers(View(from_null_term(a), from_null_term(a), 0))
    \/ \E v \in Pieces : Answers(View(v, v, 0))

ChangeView ==
    /\ ret.op = "view"
    /\ \/ \E k, n \in 0 .. N : Answers(View(substr(ret.v, k, n), ret.whole, ret.advanced))
       \/ \E n \in 0 .. ret.v.size : Answers(View(shorten(ret.v, n), ret.whole, ret.advanced))
       \/ \E n \in 1 .. Steps - ret.advanced :
             Answers(View(advance(ret.v, n), ret.whole, ret.advanced + n))

PrintNumber ==
    \E p \in Addresses, w \in Widths :
        /\ p + w <= N
        /\ LET n == read_big_endian(p, w)
               printed(out) == [op |-> "print", ptr |-> p, w |-> w, out |-> out]
           IN  \/ Answers(printed(PrintUnsigned(n, 10)))
               \/ Answers(printed(PrintUnsigned(n, 16)))
               \/ Answers(printed(PrintSigned(n, w)))

\* The answer of a call is dropped before the next call; a view is kept as
\* long as others are made of it.
Drop == ret.op # "none" /\ Answers([op |-> "none"])

HelperNext ==
    \/ ret.op = "none" /\ (Memory \/ Compare \/ MakeView \/ PrintNumber)
    \/ ChangeView
    \/ Drop

HelperSpec == HelperInit /\ [][HelperNext]_helperVars

----------------------------------------------------------------------------
\* a of n bytes is before b of m bytes in the order of words of bytes.
Before(a, n, b, m) ==
    \/ n < m /\ \A i \in 0 .. n - 1 : bytes[a + i] = bytes[b + i]
    \/ \E k \in 0 .. minimum(n, m) - 1 :
          /\ \A i \in 0 .. k - 1 : bytes[a + i] = bytes[b + i]
          /\ bytes[a + k] < bytes[b + k]

SignAgrees(answer, a, n, b, m) ==
    (answer < 0 <=> Before(a, n, b, m)) /\ (answer > 0 <=> Before(b, m, a, n))

\* The loops over bytes do what their names say: cmp and compare order by
\* the first difference and then by the length, find names the first
\* occurrence, and copy moves a block although it overlaps its copy, unless
\* the copy starts inside it (memory.cpp:13-39, str_view.h:104-126,
\* byte_view.h:81-103).
LoopsExact ==
    CASE ret.op = "cmp" -> SignAgrees(ret.answer, ret.lhs, ret.count, ret.rhs, ret.count)
      [] ret.op = "compare" ->
            SignAgrees(ret.answer, ret.s1.at, ret.s1.size, ret.s2.at, ret.s2.size)
      [] ret.op = "find" ->
            LET hits == {i \in ret.start .. ret.v.size - 1 : At(ret.v, i) = ret.c}
            IN  IF hits = {} THEN ret.answer = sentinel
                ELSE ret.answer \in hits /\ \A i \in hits : ret.answer <= i
      [] ret.op = "copy" /\ ret.dst \notin ret.src + 1 .. ret.src + ret.count - 1 ->
            \A a \in Addresses :
                bytes[a] = IF a \in ret.dst .. ret.dst + ret.count - 1
                           THEN ret.before[ret.src + (a - ret.dst)]
                           ELSE ret.before[a]
      [] OTHER -> TRUE

\* A view made from others by cutting and shortening alone lies inside the
\* first of them, and no view begins in front of it (str_view.h:90-102,
\* byte_view.h:66-79).
ViewsClipped ==
    ret.op = "view" =>
        /\ ret.whole.at <= ret.v.at
        /\ ret.advanced = 0 => ret.v.at + ret.v.size <= ret.whole.at + ret.whole.size

\* What byte_view.h:35 says of advance: it shrinks the view, so that a view
\* advanced by no more than there was stays inside what it was made from.  The
\* code moves the start and keeps the size (byte_view.h:62, str_view.h:87).
AdvanceShrinks ==
    ret.op = "view" /\ ret.advanced <= ret.whole.size =>
        /\ ret.whole.at <= ret.v.at
        /\ ret.v.at + ret.v.size <= ret.whole.at + ret.whole.size

\* The number whose n digits are f[1] to f[n], the highest first.
Horner(f, n, base) ==
    LET upto[k \in 0 .. n] == IF k = 0 THEN 0 ELSE upto[k - 1] * base + f[k] IN upto[n]

ReadBack(digits, base) == Horner(digits, Len(digits), base)

BigEndian(p, w) == Horner([k \in 1 .. w |-> bytes[p + k - 1]], w, BYTE)

\* What is printed for a number in the blob reads back as the value its
\* bytes have with the highest first, without leading zeros; for a signed
\* number modulo its width, the smallest included (number.h:87-130,
\* printer.h:22-70 and 98-127).
PrintsReadBack ==
    ret.op = "print" =>
        LET n == ReadBack(ret.out.digits, ret.out.base)
            m == Values[ret.w]
        IN  /\ BigEndian(ret.ptr, ret.w) = (IF ret.out.minus THEN m - n ELSE n)
            /\ ret.out.minus => 2 * n <= m /\ n > 0
            /\ Len(ret.out.digits) > 1 => ret.out.digits[1] # 0
=============================================================================
