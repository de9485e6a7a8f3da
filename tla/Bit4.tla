-------------------------------- MODULE Bit4 --------------------------------
(***************************************************************************)
(* Verilog's four-value bits as vvp encodes them (vvp/vvp_net.h), and the  *)
(* operations on bits, and on vectors bit by bit, that the functors share. *)
(* A vector is a function from 0 .. wid-1 to bits, bit 0 least significant.*)
(* How vvp packs a vector into words is the subject of Vector4.            *)
(***************************************************************************)
EXTENDS Integers, FiniteSets

BIT4_0 == 0
BIT4_1 == 1
BIT4_Z == 2
BIT4_X == 3

Bits == {BIT4_0, BIT4_1, BIT4_Z, BIT4_X}

bit4_is_xz(a) == a >= 2

\* The bit encoding makes X out of Z by setting its low bit.
bit4_z2x(a) == IF a >= 2 THEN BIT4_X ELSE a

NotBit(a) == bit4_z2x(IF a % 2 = 1 THEN a - 1 ELSE a + 1)

\* (int)a | (int)b when neither dominates: equal known bits, or X.
Merge(a, b) == IF a >= 2 \/ b >= 2 THEN BIT4_X
               ELSE IF a = BIT4_1 \/ b = BIT4_1 THEN BIT4_1 ELSE BIT4_0

OrBit(a, b) == IF a = BIT4_1 \/ b = BIT4_1 THEN BIT4_1 ELSE Merge(a, b)
AndBit(a, b) == IF a = BIT4_0 \/ b = BIT4_0 THEN BIT4_0 ELSE Merge(a, b)

\* The full adder: X in, X sum and X carry out.
add_with_carry(a, b, c) ==
    IF bit4_is_xz(a) \/ bit4_is_xz(b) \/ bit4_is_xz(c)
    THEN [sum |-> BIT4_X, carry |-> BIT4_X]
    ELSE [sum |-> (a + b + c) % 2, carry |-> (a + b + c) \div 2]

Vectors(n) == [0 .. n - 1 -> Bits]
Filled(n, b) == [i \in 0 .. n - 1 |-> b]
Wid(v) == Cardinality(DOMAIN v)
has_xz(v) == \E i \in DOMAIN v : bit4_is_xz(v[i])

\* The unsigned number a vector without X or Z stands for.
Value(v) ==
    LET sum[i \in 0 .. Wid(v)] ==
            IF i = 0 THEN 0 ELSE sum[i - 1] + v[i - 1] * 2 ^ (i - 1)
    IN  sum[Wid(v)]

\* The low n bits of an integer, negative ones in two's complement.
OfNumber(x, n) == [i \in 0 .. n - 1 |-> ((x % 2 ^ n) \div 2 ^ i) % 2]

\* The signed number a vector without X or Z stands for.
Signed(v) ==
    IF v[Wid(v) - 1] = BIT4_1 THEN Value(v) - 2 ^ Wid(v) ELSE Value(v)

(***************************************************************************)
(* compare_gtge and compare_gtge_signed, for vectors of one size.          *)
(***************************************************************************)

\* From the top bit down, the first difference decides.
compare_gtge(a, b, out_if_equal) ==
    IF Wid(a) = 0 \/ has_xz(a) \/ has_xz(b) THEN BIT4_X
    ELSE LET differ == {i \in DOMAIN a : a[i] # b[i]}
         IN  IF differ = {} THEN out_if_equal
             ELSE a[CHOOSE i \in differ : \A j \in differ : j <= i]

compare_gtge_signed(a, b, out_if_equal) ==
    LET top == Wid(a) - 1
    IN  IF bit4_is_xz(a[top]) \/ bit4_is_xz(b[top]) THEN BIT4_X
        ELSE IF a[top] = b[top] THEN compare_gtge(a, b, out_if_equal)
        ELSE IF has_xz(a) \/ has_xz(b) THEN BIT4_X
        ELSE NotBit(a[top])
=============================================================================
