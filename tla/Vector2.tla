------------------------------ MODULE Vector2 ------------------------------
(***************************************************************************)
(* The two-state vectors of the simulator kernel, vvp_vector2_t            *)
(* (vvp/vvp_net.cc): an unsigned number of wid bits packed, least          *)
(* significant word first, into machine words of BITS_PER_WORD bits.       *)
(* Wide continuous-assignment arithmetic is done on them.  The top word    *)
(* may hold bits above wid: some operations clear them and some do not,    *)
(* and the comparisons read whole words, so the words are kept as they     *)
(* are and `value' says which bits count.                                  *)
(*                                                                         *)
(* A word is a number below Base.  A shift by a whole word is undefined in *)
(* C++; the machines the kernel is built for use the count modulo the word *)
(* size, and so do Shl and Shr.                                            *)
(***************************************************************************)
EXTENDS Integers, Sequences

CONSTANT BITS_PER_WORD     \* bits of an unsigned long; 64 in the real build

\* multiply_long splits a word into halves.
WordAssumption == /\ BITS_PER_WORD \in Nat \ {0}
                  /\ BITS_PER_WORD % 2 = 0

Base == 2 ^ BITS_PER_WORD
ULONG_MAX == Base - 1

\* How many words hold n bits.
Words(n) == (n + BITS_PER_WORD - 1) \div BITS_PER_WORD

Shl(x, k) == (x * 2 ^ (k % BITS_PER_WORD)) % Base
Shr(x, k) == x \div 2 ^ (k % BITS_PER_WORD)

\* x & (2^n - 1).
LowBits(x, n) == x % 2 ^ n

\* The whole words read as one number, bits above wid included.
Raw(v) ==
    LET sum[i \in 0 .. Words(v.wid)] ==
            IF i = 0 THEN 0 ELSE sum[i - 1] + v.vec[i - 1] * Base ^ (i - 1)
    IN  sum[Words(v.wid)]

\* The n-bit vector with clean tail bits that stands for x.
Vec2(x, n) == [wid |-> n,
               vec |-> [i \in 0 .. Words(n) - 1 |->
                           (LowBits(x, n) \div Base ^ i) % Base]]

NaN == [wid |-> 0, vec |-> <<>>]
is_NaN(v) == v.wid = 0

bit(v, idx) ==
    IF idx >= v.wid THEN 0
    ELSE (v.vec[idx \div BITS_PER_WORD] \div 2 ^ (idx % BITS_PER_WORD)) % 2

\* vvp_vector2_t(unsigned long v, unsigned wid): the first word is v whole.
OfLong(x, n) == [wid |-> n,
                 vec |-> [i \in 0 .. Words(n) - 1 |-> IF i = 0 THEN x ELSE 0]]

\* vvp_vector2_t(that, newsize): words are copied or zero, never masked.
Resize(v, n) == [wid |-> n,
                 vec |-> [i \in 0 .. Words(n) - 1 |->
                             IF i < Words(v.wid) THEN v.vec[i] ELSE 0]]

is_zero(v) == \A i \in 0 .. Words(v.wid) - 1 : v.vec[i] = 0

\* The comparisons walk the words from the top, a missing word being 0.
Less(a, b) == Raw(a) < Raw(b)
LessEq(a, b) == Raw(a) <= Raw(b)
GreaterEq(a, b) == Raw(a) >= Raw(b)

(***************************************************************************)
(* operator <<= and operator >>=.                                          *)
(***************************************************************************)

\* &= with the mask of the bits the width leaves in the top word.
CleanTail(v) ==
    LET top == Words(v.wid) - 1
        mask == Shr(ULONG_MAX, BITS_PER_WORD - (v.wid % BITS_PER_WORD))
    IN  [v EXCEPT !.vec[top] = @ % (mask + 1)]

ShiftLeft(v, shift) ==
    LET words == Words(v.wid)
        wshift == shift \div BITS_PER_WORD
        oshift == shift % BITS_PER_WORD
        moved == [i \in 0 .. words - 1 |->
                     IF i >= wshift THEN v.vec[i - wshift] ELSE 0]
        fine == [i \in 0 .. words - 1 |->
                     Shl(moved[i], oshift)
                     + (IF i = 0 THEN 0
                        ELSE Shr(moved[i - 1], BITS_PER_WORD - oshift))]
    IN  CASE v.wid = 0 -> v
          [] v.wid # 0 /\ oshift = 0 -> [v EXCEPT !.vec = moved]
          [] OTHER -> CleanTail([v EXCEPT !.vec = fine])

ShiftRight(v, shift) ==
    LET words == Words(v.wid)
        wshift == shift \div BITS_PER_WORD
        oshift == shift % BITS_PER_WORD
        moved == [i \in 0 .. words - 1 |->
                     IF i + wshift < words THEN v.vec[i + wshift] ELSE 0]
        fine == [i \in 0 .. words - 1 |->
                     Shr(moved[i], oshift)
                     + (IF i = words - 1 THEN 0
                        ELSE Shl(moved[i + 1], BITS_PER_WORD - oshift))]
        \* High bits of the words that are cleared after the fine shift.
        cleared == ((BITS_PER_WORD - (v.wid % BITS_PER_WORD)) % BITS_PER_WORD)
                   + oshift
        kept == words * BITS_PER_WORD - cleared
        clean == [i \in 0 .. words - 1 |->
                     IF (i + 1) * BITS_PER_WORD <= kept THEN fine[i]
                     ELSE IF i * BITS_PER_WORD >= kept THEN 0
                     ELSE LowBits(fine[i], kept - i * BITS_PER_WORD)]
    IN  CASE v.wid = 0 -> v
          [] v.wid # 0 /\ oshift = 0 -> [v EXCEPT !.vec = moved]
          [] OTHER -> [v EXCEPT !.vec = clean]

(***************************************************************************)
(* operator +=, operator -=, unary minus and operator *.                   *)
(***************************************************************************)

\* The overflow of adding the carry itself goes unnoticed (mutant).
CarryInLost(a, b, carry) ==
    LET out == (carry + a) % Base
    IN  [sum |-> (out + b) % Base,
         carry |-> IF ULONG_MAX - out < b THEN 1 ELSE 0]

\* add_carry: the sum of two words and a carry, and the carry out, each
\* addition's overflow tested before it is made.
add_carry(a, b, carry) ==
    LET out == (carry + a) % Base
    IN  [sum |-> (out + b) % Base,
         carry |-> (IF ULONG_MAX - carry < a THEN 1 ELSE 0)
                   + (IF ULONG_MAX - out < b THEN 1 ELSE 0)]

\* Words a plus words b, rippling the carry from the lowest word.
RippleAdd(a, b, words, carry0) ==
    LET step[i \in 0 .. words - 1] ==
            add_carry(a[i], b[i], IF i = 0 THEN carry0 ELSE step[i - 1].carry)
    IN  [i \in 0 .. words - 1 |-> step[i].sum]

Complement(words) == [i \in DOMAIN words |-> ULONG_MAX - words[i]]

Add(a, b) ==
    CleanTail([a EXCEPT !.vec = RippleAdd(a.vec, b.vec, Words(a.wid), 0)])

\* The tail bits are left as the borrow made them.
Subtract(a, b) ==
    [a EXCEPT !.vec =
        RippleAdd(a.vec, Complement(b.vec), Words(a.wid), 1)]

Negate(v) == Add([v EXCEPT !.vec = Complement(v.vec)], OfLong(1, v.wid))

\* multiply_long: the two-word product of two words, by half words.
multiply_long(a, b) ==
    LET half == BITS_PER_WORD \div 2
        lo(x) == LowBits(x, half)
        hi(x) == LowBits(Shr(x, half), half)
        p00 == (lo(a) * lo(b)) % Base
        r1a == (Shr(p00, half) + hi(a) * lo(b)) % Base
        r1b == (lo(r1a) + lo(a) * hi(b)) % Base
        r2a == (Shr(r1a, half) + Shr(r1b, half)) % Base
        r2b == (lo(r2a) + hi(a) * hi(b)) % Base
        r3 == (Shr(r2a, half) + Shr(r2b, half)) % Base
    IN  [low |-> (Shl(lo(r1b), half) + lo(p00)) % Base,
         high |-> (Shl(r3, half) + lo(r2b)) % Base]

\* r plus the two words of p at word position pos, the carry running to the
\* top word and no further.
AddAt(r, words, pos, p) ==
    RippleAdd(r, [i \in 0 .. words - 1 |->
                    IF i = pos THEN p.low
                    ELSE IF i = pos + 1 THEN p.high ELSE 0], words, 0)

\* Schoolbook multiplication: every pair of words, b's in the outer loop.
\* The tail bits of the product are not cleared.
Multiply(a, b) ==
    LET words == Words(a.wid)
        acc[k \in 0 .. words * words] ==
            IF k = 0 THEN OfLong(0, a.wid).vec
            ELSE LET bdx == (k - 1) \div words
                     adx == (k - 1) % words
                     r == acc[k - 1]
                 IN  IF adx + bdx < words
                     THEN AddAt(r, words, adx + bdx,
                                multiply_long(a.vec[adx], b.vec[bdx]))
                     ELSE r
    IN  [wid |-> a.wid, vec |-> acc[words * words]]

\* pow: by squaring; the exponent is halved, or its low bit cleared.
Power(x, y) ==
    LET pow[n \in 0 .. Raw(y)] ==
            IF n = 0 THEN OfLong(1, x.wid)
            ELSE IF n % 2 = 1 THEN Multiply(x, pow[n - 1])
            ELSE LET z == pow[n \div 2] IN Multiply(z, z)
    IN  pow[Raw(y)]

(***************************************************************************)
(* div_mod: shift the divisor and a one-bit mask up until the divisor is   *)
(* not below the dividend, then down again, subtracting.  The dividend and *)
(* the shifted divisor have one bit more than the operands; the mask and   *)
(* the quotient do not.  The divisor is not zero.                          *)
(***************************************************************************)

div_mod(dividend, divisor) ==
    LET n == dividend.wid
        Up(s) == [s EXCEPT !.divtmp = ShiftLeft(@, 1), !.mask = ShiftLeft(@, 1)]
        Down(s) ==
            LET fits == LessEq(s.divtmp, s.dividend)
            IN  [dividend |-> IF fits THEN Subtract(s.dividend, s.divtmp)
                              ELSE s.dividend,
                 quotient |-> IF fits THEN Add(s.quotient, s.mask)
                              ELSE s.quotient,
                 divtmp |-> ShiftRight(s.divtmp, 1),
                 mask |-> ShiftRight(s.mask, 1)]
        start == [dividend |-> Resize(dividend, n + 1),
                  quotient |-> OfLong(0, n),
                  divtmp |-> Resize(divisor, n + 1),
                  mask |-> OfLong(1, n)]
        \* Neither loop can run more than n + 1 times.
        up[i \in 0 .. n + 1] ==
            IF i = 0 THEN start
            ELSE LET p == up[i - 1]
                 IN  IF Less(p.divtmp, p.dividend) THEN Up(p) ELSE p
        down[i \in 0 .. n + 2] ==
            IF i = 0 THEN up[n + 1]
            ELSE LET p == down[i - 1]
                 IN  IF GreaterEq(p.dividend, divisor) THEN Down(p) ELSE p
    IN  IF Less(dividend, divisor)
        THEN [quotient |-> OfLong(0, n), remainder |-> dividend]
        ELSE [quotient |-> down[n + 2].quotient,
              remainder |-> Resize(down[n + 2].dividend, n)]
=============================================================================
