------------------------------ MODULE Vector4 ------------------------------
(***************************************************************************)
(* vvp_vector4_t, the packed four-state vector every value of a simulation *)
(* is held in (vvp/vvp_net.h, vvp/vvp_net.cc).  Two planes of machine      *)
(* words hold the a and b bit of every position.  The bits of the last     *)
(* word above size_ are whatever the operations left there, so each        *)
(* operation that reads whole words has to mask them, and each that grows  *)
(* the vector has to overwrite them.                                       *)
(*                                                                         *)
(* A word is the set of its bits that are 1.  The object under test is v;  *)
(* bits is the plain vector it should stand for.  Every operation is       *)
(* applied to both, and the invariants compare the two.  mov and copy_bits *)
(* have no caller in the repository and are left out.                      *)
(***************************************************************************)
EXTENDS Bit4

CONSTANTS BITS_PER_WORD,   \* bits of an unsigned long; 64 in the real build
          MaxSize,         \* the widest vector
          Alphabet         \* the bits the operands are made of

Word == INSTANCE WordArithmetic

Vector4Assumption == /\ Word!HalvesAssumption
                     /\ MaxSize \in Nat
                     /\ Alphabet \subseteq Bits

VARIABLES v,       \* the packed vector: size, abits and bbits words
          bits,    \* the vector it stands for
          diff,    \* what the last set_vec returned
          differs  \* whether the last set_vec changed a bit

vars == <<v, bits, diff, differs>>

(***************************************************************************)
(* Words.  A shift by a whole word is undefined in C++; the machines vvp   *)
(* is built for use the count modulo the word size.                        *)
(***************************************************************************)

W == BITS_PER_WORD
All == 0 .. W - 1

\* (1UL << n) - 1
Ones(n) == 0 .. (n % W) - 1
Shl(x, k) == {i + (k % W) : i \in x} \cap All
Shr(x, k) == {i - (k % W) : i \in x} \cap All

\* The numbers the words of a plane hold.
Num(x) == LET sum[i \in 0 .. W] ==
                  IF i = 0 THEN 0
                  ELSE sum[i - 1] + (IF i - 1 \in x THEN 2 ^ (i - 1) ELSE 0)
          IN  sum[W]
Nums(p) == [w \in DOMAIN p |-> Num(p[w])]

Least(S) == CHOOSE x \in S : \A y \in S : x <= y

Cnt(n) == (n + W - 1) \div W

\* A vector of up to W bits lives in one word, an empty one included.
WordIdx(n) == 0 .. (IF n = 0 THEN 0 ELSE Cnt(n) - 1)

APad(bit) == IF bit \in {BIT4_1, BIT4_X} THEN All ELSE {}
BPad(bit) == IF bit \in {BIT4_Z, BIT4_X} THEN All ELSE {}

\* The constructor from a size and a bit: whole words, the tail included.
New(n, bit) == [size |-> n, a |-> [w \in WordIdx(n) |-> APad(bit)],
                            b |-> [w \in WordIdx(n) |-> BPad(bit)]]

value(x, idx) ==
    IF idx >= x.size THEN BIT4_X
    ELSE (IF idx % W \in x.a[idx \div W] THEN 1 ELSE 0)
         + (IF idx % W \in x.b[idx \div W] THEN 2 ELSE 0)

\* What a packed vector stands for.
Unpack(x) == [i \in 0 .. x.size - 1 |-> value(x, i)]

\* Every packed vector of n bits over Alphabet, with every tail.
Packed(n) ==
    LET Held == [{<<w, o>> : w \in WordIdx(n), o \in All} -> Alphabet]
        Plane(h, S) == [w \in WordIdx(n) |-> {o \in All : h[<<w, o>>] \in S}]
    IN  {[size |-> n, a |-> Plane(h, {BIT4_1, BIT4_X}),
                      b |-> Plane(h, {BIT4_Z, BIT4_X})] : h \in Held}

SetBit(x, idx, bit) ==
    LET Put(word, one) == IF one THEN word \cup {idx % W} ELSE word \ {idx % W}
    IN  [x EXCEPT !.a[idx \div W] = Put(@, bit \in {BIT4_1, BIT4_X}),
                  !.b[idx \div W] = Put(@, bit \in {BIT4_Z, BIT4_X})]

(***************************************************************************)
(* resize                                                                  *)
(***************************************************************************)

\* The old tail shows through when the vector grows (mutant).
PadOverTail(old, pad, fill) == old \cup Shl(pad, fill)

\* The last old word keeps its fill low bits and takes the pad above them.
PadTail(old, pad, fill) == (old \cap Ones(fill)) \cup Shl(pad, fill)

ResizePlane(p, size, n, pad) ==
    [w \in WordIdx(n) |->
        IF n <= size THEN p[w]
        ELSE IF w >= Cnt(size) THEN pad
        ELSE IF w = Cnt(size) - 1 /\ size % W # 0 THEN PadTail(p[w], pad, size)
        ELSE p[w]]

Resized(x, n, bit) ==
    IF x.size = n THEN x
    ELSE [size |-> n, a |-> ResizePlane(x.a, x.size, n, APad(bit)),
                      b |-> ResizePlane(x.b, x.size, n, BPad(bit))]

(***************************************************************************)
(* The part-select constructor, subvalue.                                  *)
(***************************************************************************)

\* A result of more than a word: each word is two shifted neighbours.
LongSelect(p, adr, wid) ==
    LET off == adr % W
        noff == W - off
    IN  [dst \in WordIdx(wid) |->
            LET ptr == dst + (adr \div W)
            IN  Shr(p[ptr] \ Ones(off), off)
                \cup (IF noff # W /\ dst * W + noff < wid
                      THEN Shl(p[ptr + 1] \cap Ones(off), noff) ELSE {})]

\* The word after the first is not masked to the bits still wanted (mutant).
SelectUnmasked(p, adr, wid) ==
    LET off == adr % W
        ptr == adr \div W
    IN  IF ptr + 1 \in DOMAIN p
        THEN Shr(p[ptr], off) \cup Shl(p[ptr + 1], off) ELSE Shr(p[ptr], off)

\* A result of at most a word, out of a source of more than one.
WordSelect(p, adr, wid) ==
    LET ptr == adr \div W
        off == adr % W
        trans == Least({W - off, wid})
        lmask == Shl(Ones(trans), off)
    IN  IF trans = W THEN p[ptr]
        ELSE Shr(p[ptr] \cap lmask, off)
             \cup (IF trans < wid
                   THEN Shl(p[ptr + 1] \cap Ones(wid - trans), trans) ELSE {})

SelectPlane(p, size, adr, wid) ==
    IF wid > W THEN LongSelect(p, adr, wid)
    ELSE IF size > W THEN [w \in {0} |-> WordSelect(p, adr, wid)]
    ELSE IF wid = W THEN [w \in {0} |-> p[0]]
    ELSE [w \in {0} |-> Shr(p[0] \cap Shl(Ones(wid), adr), adr)]

subvalue(that, adr, wid) ==
    LET bit[i \in 0 .. wid] ==
            IF i = 0 THEN New(wid, BIT4_X)
            ELSE LET x == bit[i - 1]
                 IN  SetBit(x, i - 1, value(that, adr + i - 1))
    IN  IF adr >= that.size THEN New(wid, BIT4_X)
        ELSE IF adr + wid > that.size THEN bit[that.size - adr]
        ELSE [size |-> wid, a |-> SelectPlane(that.a, that.size, adr, wid),
                            b |-> SelectPlane(that.b, that.size, adr, wid)]

(***************************************************************************)
(* subarray and setarray: the bits as an array of machine words, bit 0 of  *)
(* the array at bit adr of the vector.  Both walk the range in pieces that *)
(* cross neither a word of the vector nor a word of the array.             *)
(***************************************************************************)

NULL == "NULL"

\* Where the pieces of a transfer of wid bits begin.
Cuts(adr, wid) ==
    {d \in 0 .. wid - 1 : d = 0 \/ d % W = 0 \/ (adr + d) % W = 0}

\* How many bits the piece at d has.
Trans(adr, wid, d) == Least({W - ((adr + d) % W), W - (d % W), wid - d})

\* The low n bits of a word, n up to the whole of it.
Through(n) == IF n < W THEN Ones(n) ELSE All

subarray(x, adr, wid, xz_to_0) ==
    LET Piece(p, d) ==
            IF x.size <= W THEN Shr(p[0], adr) \cap Through(wid)
            ELSE Shr(p[(adr + d) \div W], adr + d)
                 \cap Through(Trans(adr, wid, d))
        pieces == IF x.size <= W THEN {0} ELSE Cuts(adr, wid)
    IN  IF ~xz_to_0 /\ \E d \in pieces : Piece(x.b, d) # {} THEN NULL
        ELSE [w \in 0 .. Cnt(wid) - 1 |->
                 UNION {Shl(Piece(x.a, d) \ Piece(x.b, d), d) :
                        d \in {e \in pieces : e \div W = w}}]

setarray(x, adr, wid, val) ==
    LET Off(d) == (adr + d) % W
        Mask(d) == LET top == Off(d) + Trans(adr, wid, d)
                       hmask == IF top < W THEN Shl(All, top) ELSE {}
                   IN  All \ (hmask \cup Ones(Off(d)))
        Moved(d) == Mask(d) \cap
                    (IF d % W >= Off(d)
                     THEN Shr(val[d \div W], (d % W) - Off(d))
                     ELSE Shl(val[d \div W], Off(d) - (d % W)))
        Into(w) == {d \in Cuts(adr, wid) : (adr + d) \div W = w}
        Cleared(p, w) == p[w] \ UNION {Mask(d) : d \in Into(w)}
    IN  [x EXCEPT !.a = [w \in DOMAIN x.a |->
                            Cleared(x.a, w) \cup UNION {Moved(d) : d \in Into(w)}],
                  !.b = [w \in DOMAIN x.b |-> Cleared(x.b, w)]]

(***************************************************************************)
(* set_vec, as the masked word writes it makes: word `to' takes, under the *)
(* mask, word `from' of that vector shifted left (or right, if negative).  *)
(***************************************************************************)

Write(to, mask, from, shift) ==
    [to |-> to, mask |-> mask, from |-> from, shift |-> shift]

\* At most a word of source, at bit doff of word dptr; it may spill over.
SmallWrites(dptr, doff, sptr, remain) ==
    LET hmask == IF doff + remain >= W THEN All ELSE Ones(doff + remain)
        tail == doff + remain - W
    IN  {Write(dptr, hmask \ Ones(doff), sptr, doff)}
        \cup (IF tail > 0
              THEN {Write(dptr + 1, IF tail >= W THEN All ELSE Ones(tail),
                          sptr, -(remain - tail))}
              ELSE {})

AlignedWrites(dptr, n) ==
    {Write(dptr + s, All, s, 0) : s \in 0 .. (n \div W) - 1}
    \cup (IF n % W # 0 THEN {Write(dptr + (n \div W), Ones(n), n \div W, 0)}
          ELSE {})

UnalignedWrites(dptr, doff, n) ==
    {Write(dptr + s, All \ Ones(doff), s, doff) : s \in 0 .. (n \div W) - 1}
    \cup {Write(dptr + s + 1, Ones(doff), s, -(W - doff)) :
          s \in 0 .. (n \div W) - 1}
    \cup (IF n % W # 0
          THEN SmallWrites(dptr + (n \div W), doff, n \div W, n % W) ELSE {})

SetVecWrites(x, adr, n) ==
    IF x.size <= W THEN {wr \in SmallWrites(0, adr, 0, n) : wr.to = 0}
    ELSE IF n <= W THEN SmallWrites(adr \div W, adr % W, 0, n)
    ELSE IF adr % W = 0 THEN AlignedWrites(adr \div W, n)
    ELSE UnalignedWrites(adr \div W, adr % W, n)

Written(wr, source) ==
    wr.mask \cap (IF wr.shift >= 0 THEN Shl(source[wr.from], wr.shift)
                  ELSE Shr(source[wr.from], -wr.shift))

SetVecPlane(p, source, writes) ==
    [w \in DOMAIN p |->
        (p[w] \ UNION {wr.mask : wr \in {u \in writes : u.to = w}})
        \cup UNION {Written(wr, source) : wr \in {u \in writes : u.to = w}}]

DiffFlag(x, that, writes) ==
    \E wr \in writes : \/ x.a[wr.to] \cap wr.mask # Written(wr, that.a)
                       \/ x.b[wr.to] \cap wr.mask # Written(wr, that.b)

(***************************************************************************)
(* add, sub and mul of vectors of one size.                                *)
(***************************************************************************)

\* The bits of word w that count, out of a vector of n bits.
Live(n, w) == IF w = n \div W THEN Ones(n) ELSE All

\* X or Z in an operand: the whole result is X.  A vector within a word
\* keeps its tail, a longer one has it cleared.
XOut(x) ==
    IF x.size < W THEN [x EXCEPT !.a[0] = @ \cup Ones(x.size),
                                 !.b[0] = @ \cup Ones(x.size)]
    ELSE LET xs == [w \in DOMAIN x.a |-> Live(x.size, w)]
         IN  [x EXCEPT !.a = xs, !.b = xs]

AnyXZ(x, that) ==
    \E w \in DOMAIN x.b : (x.b[w] \cup that.b[w]) \cap Live(x.size, w) # {}

\* The sum of two numbers in words, from the lowest word up.
Ripple(p, q, carry0) ==
    LET step[w \in DOMAIN p] ==
            Word!add_with_carry(p[w], q[w], IF w = 0 THEN carry0 ELSE step[w - 1].carry)
    IN  [w \in DOMAIN p |-> step[w].sum]

\* A number in words as the a plane of x, its tail clear.
ABits(x, p) == [w \in DOMAIN p |-> {i \in Live(x.size, w) : (p[w] \div 2 ^ i) % 2 = 1}]

add(x, that) ==
    IF AnyXZ(x, that) THEN XOut(x)
    ELSE [x EXCEPT !.a = ABits(x, Ripple(Nums(x.a), Nums(that.a), 0))]

\* Minus is plus the complement plus one.
sub(x, that) ==
    LET inverted == [w \in DOMAIN that.a |-> All \ that.a[w]]
    IN  IF AnyXZ(x, that) THEN XOut(x)
        ELSE [x EXCEPT !.a = ABits(x, Ripple(Nums(x.a), Nums(inverted), 1))]

\* The schoolbook product: every pair of words whose product starts inside
\* the result is added at its place, the carry running to the last word.  A
\* vector within a word uses the machine's product.
Product(x, that) ==
    LET n == Cardinality(DOMAIN x.a)
        Factor(p, w) == Num(p[w] \cap Live(x.size, w))
        res[k \in 0 .. n * n] ==
            IF k = 0 THEN [w \in DOMAIN x.a |-> 0]
            ELSE LET mul_a == (k - 1) \div n
                     mul_b == (k - 1) % n
                     p == Word!multiply_with_carry(Factor(x.a, mul_a), Factor(that.a, mul_b))
                     pair == [w \in DOMAIN x.a |->
                                 IF w = mul_a + mul_b THEN p.low
                                 ELSE IF w = mul_a + mul_b + 1 THEN p.high ELSE 0]
                 IN  IF mul_a + mul_b >= n THEN res[k - 1] ELSE Ripple(res[k - 1], pair, 0)
    IN  IF x.size <= W THEN [w \in {0} |-> (Num(x.a[0]) * Num(that.a[0])) % 2 ^ W]
        ELSE res[n * n]

mul(x, that) ==
    IF AnyXZ(x, that) THEN XOut(x) ELSE [x EXCEPT !.a = ABits(x, Product(x, that))]

(***************************************************************************)
(* Comparisons.                                                            *)
(***************************************************************************)

eeq(x, that) ==
    /\ x.size = that.size
    /\ \A w \in DOMAIN x.a :
          /\ x.a[w] \cap Live(x.size, w) = that.a[w] \cap Live(x.size, w)
          /\ x.b[w] \cap Live(x.size, w) = that.b[w] \cap Live(x.size, w)

\* Equal with X and Z the same: the a plane is compared with b or-ed in.
eq_xz(x, that) ==
    /\ x.size = that.size
    /\ \A w \in DOMAIN x.a :
          /\ (x.a[w] \cup x.b[w]) \cap Live(x.size, w)
                = (that.a[w] \cup that.b[w]) \cap Live(x.size, w)
          /\ x.b[w] \cap Live(x.size, w) = that.b[w] \cap Live(x.size, w)

HasXz(x) == \E w \in DOMAIN x.b : x.b[w] \cap Live(x.size, w) # {}

(***************************************************************************)
(* The operations that work on all the words, tail included.               *)
(***************************************************************************)

ChangeZ2X(x) == [x EXCEPT !.a = [w \in DOMAIN @ |-> @[w] \cup x.b[w]]]

\* The a plane is complemented, and X put back where b is set.
Invert(x) ==
    [x EXCEPT !.a = [w \in DOMAIN @ |->
                        ((All \ @[w]) \cap Live(x.size, w)) \cup x.b[w]]]

\* operator ~ copies and inverts at once, masking X bits of the tail too.
CopyInverted(that) ==
    [that EXCEPT !.a = [w \in DOMAIN @ |->
                           (that.b[w] \cup (All \ @[w])) \cap Live(that.size, w)]]

AndWith(x, that) ==
    LET One(y, w) == y.a[w] \cup y.b[w]
    IN  [x EXCEPT !.a = [w \in DOMAIN @ |-> One(x, w) \cap One(that, w)],
                  !.b = [w \in DOMAIN @ |->
                            (One(x, w) \cap that.b[w])
                            \cup (One(that, w) \cap x.b[w])]]

OrWith(x, that) ==
    LET Zero(y, w) == (All \ y.a[w]) \cup y.b[w]
    IN  [x EXCEPT !.a = [w \in DOMAIN @ |->
                            x.a[w] \cup x.b[w] \cup that.a[w] \cup that.b[w]],
                  !.b = [w \in DOMAIN @ |->
                            (Zero(x, w) \cap that.b[w])
                            \cup (Zero(that, w) \cap x.b[w])]]

\* Bit by bit, with an arithmetic right shift of the integer, until both
\* the integer and the carry are zero.
AddInt(x, num) ==
    LET step[idx \in 0 .. x.size] ==
            IF idx = 0 THEN [vec |-> x, that |-> num, carry |-> BIT4_0]
            ELSE LET s == step[idx - 1]
                     fa == add_with_carry(value(s.vec, idx - 1), s.that % 2, s.carry)
                 IN  IF s.that = 0 /\ s.carry = BIT4_0 THEN s
                     ELSE [vec |-> IF s.that % 2 = 0 /\ s.carry = BIT4_0
                                   THEN s.vec ELSE SetBit(s.vec, idx - 1, fa.sum),
                           that |-> s.that \div 2,
                           carry |-> IF s.that % 2 = 0 /\ s.carry = BIT4_0
                                     THEN BIT4_0 ELSE fa.carry]
    IN  IF HasXz(x) THEN New(x.size, BIT4_X) ELSE step[x.size].vec

(***************************************************************************)
(* One vector object and the calls made on it.  Its operands are vectors   *)
(* over Alphabet with every possible tail.                                 *)
(***************************************************************************)

Init ==
    /\ \E n \in 0 .. MaxSize, bit \in Alphabet :
          v = New(n, bit) /\ bits = Filled(n, bit)
    /\ diff = FALSE /\ differs = FALSE

resize(n, pad) ==
    /\ v' = Resized(v, n, pad)
    /\ bits' = [i \in 0 .. n - 1 |-> IF i < v.size THEN bits[i] ELSE pad]

set_bit(idx, bit) ==
    /\ idx < v.size
    /\ v' = SetBit(v, idx, bit)
    /\ bits' = [bits EXCEPT ![idx] = bit]

fill_bits(bit) ==
    /\ v' = New(v.size, bit)
    /\ bits' = Filled(v.size, bit)

set_vec(adr, that) ==
    LET writes == SetVecWrites(v, adr, that.size)
    IN  /\ adr + that.size <= v.size /\ that.size > 0
        /\ v' = [v EXCEPT !.a = SetVecPlane(@, that.a, writes),
                          !.b = SetVecPlane(@, that.b, writes)]
        /\ diff' = DiffFlag(v, that, writes)
        /\ bits' = [i \in DOMAIN bits |->
                       IF i \in adr .. adr + that.size - 1
                       THEN value(that, i - adr) ELSE bits[i]]
        /\ differs' = (bits' # bits)

set_array(adr, wid, val) ==
    /\ adr + wid <= v.size
    /\ v' = setarray(v, adr, wid, val)
    /\ bits' = [i \in DOMAIN bits |->
                   IF i \notin adr .. adr + wid - 1 THEN bits[i]
                   ELSE IF (i - adr) % W \in val[(i - adr) \div W]
                   THEN BIT4_1 ELSE BIT4_0]

\* Arithmetic on the numbers, X if a bit of an operand is X or Z.
Number4(op, x, y) ==
    LET n == Wid(x)
    IN  IF has_xz(x) \/ has_xz(y) THEN Filled(n, BIT4_X)
        ELSE OfNumber(CASE op = "add" -> Value(x) + Value(y)
                        [] op = "sub" -> Value(x) - Value(y)
                        [] op = "mul" -> Value(x) * Value(y), n)

arithmetic(op, that) ==
    /\ that.size = v.size
    /\ v' = CASE op = "add" -> add(v, that)
              [] op = "sub" -> sub(v, that)
              [] op = "mul" -> mul(v, that)
    /\ bits' = Number4(op, bits, Unpack(that))

\* A vector of no bits makes has_xz shift by a whole word: left out.
add_int(num) ==
    /\ v.size > 0
    /\ v' = AddInt(v, num)
    /\ bits' = IF has_xz(bits) THEN Filled(v.size, BIT4_X)
               ELSE OfNumber(Value(bits) + num, v.size)

bitwise(op, that) ==
    /\ that.size = v.size
    /\ v' = IF op = "and" THEN AndWith(v, that) ELSE OrWith(v, that)
    /\ bits' = [i \in DOMAIN bits |->
                   IF op = "and" THEN AndBit(bits[i], value(that, i))
                   ELSE OrBit(bits[i], value(that, i))]

invert(inverted) ==
    /\ v' = inverted
    /\ bits' = [i \in DOMAIN bits |-> NotBit(bits[i])]

change_z2x ==
    /\ v' = ChangeZ2X(v)
    /\ bits' = [i \in DOMAIN bits |-> bit4_z2x(bits[i])]

Next ==
    \/ /\ \/ \E n \in 0 .. MaxSize, pad \in Alphabet : resize(n, pad)
          \/ \E idx \in 0 .. MaxSize - 1, bit \in Alphabet : set_bit(idx, bit)
          \/ \E bit \in Alphabet : fill_bits(bit)
          \/ \E wid \in 1 .. v.size, adr \in 0 .. MaxSize - 1 :
                \E val \in [0 .. Cnt(wid) - 1 -> SUBSET All] : set_array(adr, wid, val)
          \/ \E that \in Packed(v.size), op \in {"add", "sub", "mul"} :
                arithmetic(op, that)
          \/ \E num \in -2 .. 3 : add_int(num)
          \/ \E that \in Packed(v.size), op \in {"and", "or"} : bitwise(op, that)
          \/ invert(Invert(v))
          \/ invert(CopyInverted(v))
          \/ change_z2x
       /\ UNCHANGED <<diff, differs>>
    \/ \E adr \in 0 .. MaxSize - 1, n \in 1 .. MaxSize :
          \E that \in Packed(n) : set_vec(adr, that)

Spec == Init /\ [][Next]_vars

(***************************************************************************)
(* Properties                                                              *)
(***************************************************************************)

\* The words of a vector are the ones its size calls for.
TypeOK ==
    /\ v.size \in 0 .. MaxSize
    /\ v.a \in [WordIdx(v.size) -> SUBSET All]
    /\ v.b \in [WordIdx(v.size) -> SUBSET All]
    /\ bits \in Vectors(v.size)
    /\ diff \in BOOLEAN /\ differs \in BOOLEAN

\* Whatever sequence of calls made it, and whatever they left above size_,
\* the packed vector stands for the bits the calls ask for: no operation
\* lets the tail of the last word show, drops a carry between words, or
\* writes past the bits it is given (vvp_net.cc 956-2003).
StandsForBits == Unpack(v) = bits

\* set_vec returns true exactly when a bit of the vector changed: a net
\* is propagated on its answer, so a missed change is a lost event.
ReportsChange == diff = differs

\* A part select, inside or across the end of the vector, at any alignment,
\* is the bits of the vector, and X past its end (vvp_net.cc 842-954).
SelectsPart ==
    \A adr \in 0 .. MaxSize, wid \in 0 .. MaxSize :
        Unpack(subvalue(v, adr, wid))
            = [i \in 0 .. wid - 1 |->
                  IF adr + i < v.size THEN bits[adr + i] ELSE BIT4_X]

\* subarray yields the words of the number in a part of the vector, or
\* nothing if the part has an X or Z and the caller does not want zeros.
\* The tail of the vector is not looked at.
ArrayIsPart ==
    \A wid \in 1 .. v.size : \A adr \in 0 .. v.size - wid, zero \in BOOLEAN :
        LET part == [i \in 0 .. wid - 1 |-> bits[adr + i]]
        IN  subarray(v, adr, wid, zero)
              = IF has_xz(part) /\ ~zero THEN NULL
                ELSE [w \in 0 .. Cnt(wid) - 1 |->
                         {o \in All : /\ w * W + o < wid
                                      /\ part[w * W + o] = BIT4_1}]

\* The comparisons and has_xz depend on the bits of the vectors alone,
\* never on their tails: vectors that stand for the same bits are equal.
ComparesBits ==
    /\ v.size > 0 => (HasXz(v) <=> has_xz(bits))
    /\ \A that \in Packed(v.size) :
          LET other == Unpack(that)
          IN  /\ eeq(v, that) <=> (bits = other)
              /\ eq_xz(v, that) <=> \A i \in DOMAIN bits :
                                       bit4_z2x(bits[i]) = bit4_z2x(other[i])
=============================================================================
