--------------------------- MODULE WordArithmetic ---------------------------
(***************************************************************************)
(* The arithmetic on single machine words that every multi-word operation  *)
(* of vvp is built on (vvp/vvp_net.h, vvp/vvp_net.cc).  C++ has no carry   *)
(* flag and no two-word product: the carry out is found by comparing, and  *)
(* the product is put together from the products of half words.            *)
(***************************************************************************)
EXTENDS Integers

CONSTANT BITS_PER_WORD     \* bits of an unsigned long; 64 in the real build

\* Words have two halves of equal length.
HalvesAssumption == BITS_PER_WORD \in Nat \ {0} /\ BITS_PER_WORD % 2 = 0

Base == 2 ^ BITS_PER_WORD
Half == 2 ^ (BITS_PER_WORD \div 2)
LowHalf(x) == x % Half
HighHalf(x) == (x \div Half) % Half

\* The sum of two words and a carry, and the carry out: three comparisons of
\* sums that may have wrapped find it.
add_with_carry(a, b, carry) ==
    LET tmp == (b + carry) % Base
        sum == (a + tmp) % Base
    IN  [sum |-> sum,
         carry |-> IF tmp < b \/ sum < tmp \/ sum < a THEN 1 ELSE 0]

\* high is not written back (mutant).
HighKept(a, b) == [low |-> (a * b) % Base, high |-> a]

\* The two words of a product: what a sum of half words has above its low
\* half is carried into the next.
multiply_with_carry(a, b) ==
    LET p00 == LowHalf(a) * LowHalf(b)
        p01 == LowHalf(a) * HighHalf(b)
        p10 == HighHalf(a) * LowHalf(b)
        p11 == HighHalf(a) * HighHalf(b)
        r1 == HighHalf(p00) + LowHalf(p01) + LowHalf(p10)
        r2 == HighHalf(r1) + HighHalf(p01) + HighHalf(p10) + LowHalf(p11)
        r3 == HighHalf(r2) + HighHalf(p11)
    IN  [low |-> LowHalf(r1) * Half + LowHalf(p00),
         high |-> LowHalf(r3) * Half + LowHalf(r2)]
=============================================================================
