------------------------------- MODULE Words -------------------------------
(***************************************************************************)
(* Machine words: size_t, u64, paddr_t and vaddr_t are unsigned and wrap.  *)
(* The operators below are the arithmetic the kernel does on them and the  *)
(* alignment helpers of include/types/number.h.                            *)
(***************************************************************************)
EXTENDS Naturals

CONSTANT WORD    \* the number of values of a size_t, 2^64 in the build

ASSUME WordAssumption == WORD \in Nat \ {0}

Word == 0 .. WORD - 1

Add(a, b) == (a + b) % WORD
Sub(a, b) == (a + WORD - b) % WORD

(***************************************************************************)
(* align_up, align_down and is_aligned.  The code masks with ~(a - 1); for *)
(* a power of two that clears the remainder modulo a, which is how it is   *)
(* written here.  The device tree aligns by other numbers too: for these    *)
(* MaskUp keeps the mask.                                                  *)
(***************************************************************************)
AlignDown(value, alignment) == value - (value % alignment)

\* Mutant: rounds towards zero.
AlignUp_Down(value, alignment) == AlignDown(value, alignment)

AlignUp(value, alignment) ==
    AlignDown(Add(value, Sub(alignment, 1)), alignment)

\* a & b
And[a \in Nat] ==
    [b \in Nat |-> IF a = 0 \/ b = 0 THEN 0
                   ELSE 2 * And[a \div 2][b \div 2] + (a % 2) * (b % 2)]

\* a | b: the bits that both have are counted once.
Or(a, b) == a + b - And[a][b]

\* (value + (alignment - 1)) & ~(alignment - 1)
MaskUp(value, alignment) ==
    LET v == Add(value, Sub(alignment, 1)) IN v - And[v][Sub(alignment, 1)]

IsAligned(value, alignment) == value % alignment = 0

\* a # 0 and (a & (a - 1)) = 0: no odd factor.
IsPowerOfTwo(a) == a > 0 /\ \A d \in 2 .. a : a % d = 0 => d % 2 = 0

\* f[1] + ... + f[n], for properties that say what a counter counts.
SumTo(f, n) ==
    LET Sum[k \in 0 .. n] == IF k = 0 THEN 0 ELSE f[k] + Sum[k - 1] IN Sum[n]
=============================================================================
