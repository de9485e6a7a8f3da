------------------------- MODULE DatapathTestProofs -------------------------
(***************************************************************************)
(* The datapath computes what the ISA defines, bit by bit, at every width  *)
(* from 5 to 32 bits and for all operands.                                 *)
(***************************************************************************)
EXTENDS DatapathTest, DatapathProofs

-----------------------------------------------------------------------------
(* Division by powers of two. *)

\* Dividing in two steps, and dividing a sum with a multiple.
LEMMA DivDiv ==
  \A a \in Int, p \in Nat \ {0}, q \in Nat \ {0} : (a \div p) \div q = a \div (p * q)
OBVIOUS

\* A multiple of the divisor adds to the quotient.
LEMMA DivSum == \A a \in Int, y \in Int, p \in Nat \ {0} : (a + y * p) \div p = (a \div p) + y
OBVIOUS

\* What bounds a quotient.
LEMMA DivIs ==
  \A a \in Int, p \in Nat \ {0}, q \in Int : q * p <= a /\ a < (q + 1) * p => a \div p = q
OBVIOUS

\* Quotient and remainder.
LEMMA DivMod ==
  \A a \in Int, p \in Nat \ {0} : /\ a = p * (a \div p) + (a % p) /\ a % p \in 0..(p - 1)
                                  /\ a \div p \in Int
OBVIOUS

\* Quotients keep the order.
LEMMA DivLess == \A a \in Int, b \in Int, p \in Nat \ {0} : a \div p < b \div p => a < b
OBVIOUS

\* Powers of two multiply.
LEMMA PowerSum ==
  ASSUME NEW m \in 0..XLEN, NEW k \in 0..m
  PROVE  2^m = 2^(m - k) * 2^k
<1> DEFINE S == {n \in 0..k : 2^m = 2^(m - n) * 2^n}
<1>1. 0 \in S
  BY PowerPositive, WidthAssumption
<1>2. ASSUME NEW n \in 0..(k - 1), n \in S PROVE n + 1 \in S
  <2> DEFINE low == 2^n  high == 2^(m - (n + 1))  top == 2^(m - n)  all == 2^m  low2 == 2^(n + 1)
  <2>1. low \in Nat /\ high \in Nat /\ top \in Nat
    BY WidthAssumption, PowerPositive
  <2>2. low2 = 2 * low
    BY WidthAssumption
  <2>3. top = 2 * high
    <3>1. m - (n + 1) \in 0..(XLEN - 1) /\ (m - (n + 1)) + 1 = m - n
      BY WidthAssumption
    <3> QED BY <3>1, WidthAssumption
  <2>4. all = top * low
    BY <1>2
  <2>5. all = high * low2
    <3> HIDE DEF low, high, top, all, low2
    <3>1. high * (2 * low) = (2 * high) * low
      BY <2>1
    <3> QED BY <2>1, <2>2, <2>3, <2>4, <3>1
  <2> QED
    BY <2>5
<1>3. 0..k \subseteq S
  <2> HIDE DEF S
  <2> QED BY <1>1, <1>2, UpTo
<1> QED
  BY <1>3

-----------------------------------------------------------------------------
(* Bits. *)

\* A word above bit n, one bit more.
LEMMA BitStep ==
  ASSUME NEW a \in Nat, NEW n \in 0..(XLEN - 1)
  PROVE  /\ a \div 2^n = 2 * (a \div 2^(n + 1)) + Bit(a, n)
         /\ a \div 2^n \in Nat /\ a \div 2^(n + 1) \in Nat
         /\ Bit(a, n) \in {0, 1}
<1> DEFINE p == 2^n  q == 2^(n + 1)
<1>1. p \in Nat \ {0} /\ q = p * 2
  BY PowerPositive, WidthAssumption
<1>2. a \div q = (a \div p) \div 2 /\ a \div p \in Nat
  <2> HIDE DEF p, q
  <2>1. (a \div p) \div 2 = a \div (p * 2)
    BY <1>1
  <2>2. a \div p \in Nat
    BY <1>1
  <2> QED BY <2>1, <2>2, <1>1
<1>3. Bit(a, n) = (a \div p) % 2
  BY DEF Bit
<1> HIDE DEF p, q
<1>4. a \div p = 2 * (a \div q) + Bit(a, n) /\ a \div q \in Nat /\ Bit(a, n) \in {0, 1}
  BY <1>2, <1>3
<1> QED
  BY <1>2, <1>4 DEF p, q

\* Nothing is left above the last bit of a word, and all of it above bit 0.
LEMMA WordEnds ==
  ASSUME NEW a \in Word
  PROVE  a \in Nat /\ a < 2^XLEN /\ a \div 2^XLEN = 0 /\ a \div 2^0 = a
<1>1. 2^XLEN \in Nat \ {0} /\ a \in Nat /\ a < 2^XLEN
  BY WordRange DEF Word
<1>2. a \div 2^XLEN = 0
  <2> DEFINE w == 2^XLEN
  <2>1. w \in Nat \ {0} /\ a \in Nat /\ a < w
    BY <1>1
  <2> HIDE DEF w
  <2>2. a \div w = 0
    BY <2>1
  <2> QED BY <2>2 DEF w
<1> QED
  BY <1>1, <1>2

\* Words that agree in the bits from n on agree above n.
LEMMA SameAbove ==
  ASSUME NEW a \in Word, NEW b \in Word, NEW n \in 0..XLEN,
         \A j \in n..(XLEN - 1) : Bit(a, j) = Bit(b, j)
  PROVE  a \div 2^n = b \div 2^n
<1> DEFINE S == {m \in 0..(XLEN - n) : a \div 2^(XLEN - m) = b \div 2^(XLEN - m)}
<1>0. XLEN \in Nat /\ XLEN - n \in Nat
  BY WidthAssumption
<1>1. 0 \in S
  BY WordEnds, <1>0
<1>2. ASSUME NEW m \in 0..((XLEN - n) - 1), m \in S PROVE m + 1 \in S
  <2> DEFINE k == XLEN - (m + 1)
  <2>1. k \in 0..(XLEN - 1) /\ k \in n..(XLEN - 1) /\ k + 1 = XLEN - m /\ m + 1 \in 0..(XLEN - n)
    BY <1>0
  <2>2. a \in Nat /\ b \in Nat
    BY WordEnds
  <2>3. Bit(a, k) = Bit(b, k)
    BY <2>1
  <2>4. a \div 2^(k + 1) = b \div 2^(k + 1)
    BY <1>2, <2>1
  <2> HIDE DEF k
  <2>5. a \div 2^k = b \div 2^k
    <3>1. a \div 2^k = 2 * (a \div 2^(k + 1)) + Bit(a, k)
      BY <2>1, <2>2, BitStep
    <3>2. b \div 2^k = 2 * (b \div 2^(k + 1)) + Bit(b, k)
      BY <2>1, <2>2, BitStep
    <3> QED BY <3>1, <3>2, <2>3, <2>4
  <2> QED
    BY <2>1, <2>5 DEF k
<1>3. 0..(XLEN - n) \subseteq S
  <2> HIDE DEF S
  <2> QED BY <1>0, <1>1, <1>2, UpTo
<1>4. XLEN - n \in S
  <2> HIDE DEF S
  <2> QED BY <1>3, <1>0
<1>5. XLEN - (XLEN - n) = n
  BY <1>0
<1> QED
  BY <1>4, <1>5

\* The bits of a word determine it.
LEMMA SameBits ==
  ASSUME NEW a \in Word, NEW b \in Word
  PROVE  a = b <=> \A k \in Positions : Bit(a, k) = Bit(b, k)
<1> SUFFICES ASSUME \A k \in Positions : Bit(a, k) = Bit(b, k) PROVE a = b
  OBVIOUS
<1>1. a \div 2^0 = b \div 2^0
  <2>1. 0 \in 0..XLEN
    BY WidthAssumption
  <2> QED BY <2>1, SameAbove DEF Positions
<1> QED
  BY <1>1, WordEnds

\* Words are ordered by the most significant bit in which they differ.
LEMMA BelowIsLess ==
  ASSUME NEW a \in Word, NEW b \in Word
  PROVE  Below(a, b) <=> a < b
<1> DEFINE T == {n \in 0..XLEN : \A j \in n..(XLEN - 1) : Bit(a, j) = Bit(b, j)}
<1>1. a \in Nat /\ b \in Nat /\ XLEN \in Nat
  BY WordEnds, WidthAssumption
<1>2. PICK n \in T : \A m \in T : n <= m
  <2>1. XLEN \in T /\ T \subseteq Nat
    BY <1>1
  <2> HIDE DEF T
  <2> QED BY <2>1, LeastNatural
<1>3. CASE n = 0
  <2>1. a = b
    BY <1>2, <1>3, SameBits DEF Positions
  <2> QED
    BY <2>1, <1>1 DEF Below
<1>4. CASE n # 0
  <2> DEFINE k == n - 1  p == 2^k
  <2>1. k \in 0..(XLEN - 1) /\ k + 1 = n /\ k \in 0..XLEN
    BY <1>2, <1>4, <1>1
  <2>2. Bit(a, k) # Bit(b, k)
    <3>1. k \notin T
      BY <1>2, <2>1
    <3>2. PICK j \in k..(XLEN - 1) : Bit(a, j) # Bit(b, j)
      BY <3>1, <2>1
    <3>3. j = k
      BY <3>2, <1>2, <2>1
    <3> QED BY <3>2, <3>3
  <2>3. \A j \in (k + 1)..(XLEN - 1) : Bit(a, j) = Bit(b, j)
    BY <1>2, <2>1
  <2>4. a \div 2^(k + 1) = b \div 2^(k + 1)
    BY <1>2, <2>1, SameAbove
  <2>5. p \in Nat \ {0}
    BY <2>1, PowerPositive
  <2>6. Below(a, b) <=> Bit(a, k) = 0 /\ Bit(b, k) = 1
    <3>1. ASSUME NEW j \in Positions, Bit(a, j) = 0, Bit(b, j) = 1,
                 \A i \in (j + 1)..(XLEN - 1) : Bit(a, i) = Bit(b, i)
          PROVE  j = k
      BY <3>1, <2>1, <2>2, <2>3, <1>1 DEF Positions
    <3> QED BY <3>1, <2>1, <2>3 DEF Below, Positions
  <2> HIDE DEF k
  <2>7. /\ a \div p = 2 * (a \div 2^(k + 1)) + Bit(a, k)
        /\ b \div p = 2 * (a \div 2^(k + 1)) + Bit(b, k)
        /\ a \div 2^(k + 1) \in Nat
        /\ Bit(a, k) \in {0, 1} /\ Bit(b, k) \in {0, 1}
    BY <2>1, <2>4, <1>1, BitStep
  <2> HIDE DEF p
  <2>8. CASE Bit(a, k) = 0 /\ Bit(b, k) = 1
    <3>1. a \div p < b \div p
      BY <2>7, <2>8
    <3>2. a < b
      BY <3>1, <2>5, <1>1, DivLess
    <3> QED BY <3>2, <2>6, <2>8
  <2>9. CASE Bit(a, k) = 1 /\ Bit(b, k) = 0
    <3>1. b \div p < a \div p
      BY <2>7, <2>9
    <3>2. b < a
      BY <3>1, <2>5, <1>1, DivLess
    <3> QED BY <3>2, <2>6, <2>9, <1>1
  <2> QED
    BY <2>2, <2>7, <2>8, <2>9
<1> QED
  BY <1>3, <1>4

\* The sign bit says whether the two's complement reading is negative.
LEMMA SignBitIs ==
  ASSUME NEW a \in Word
  PROVE  /\ SignBit(a) \in {0, 1}
         /\ SignBit(a) = 1 <=> a >= 2^(XLEN - 1)
         /\ Signed(a) = IF SignBit(a) = 1 THEN a - 2^XLEN ELSE a
<1> DEFINE h == 2^(XLEN - 1)  w == 2^XLEN
<1>1. h \in Nat \ {0} /\ w = 2 * h /\ a \in Nat /\ a < w
  <2>1. XLEN - 1 \in 0..(XLEN - 1) /\ (XLEN - 1) + 1 = XLEN
    BY WidthAssumption
  <2>2. w = 2 * h
    BY <2>1, WidthAssumption
  <2>3. h \in Nat \ {0}
    BY <2>1, PowerPositive, WidthAssumption
  <2> QED BY <2>2, <2>3, WordEnds
<1>2. SignBit(a) = (a \div h) % 2
  BY DEF SignBit, Bit
<1>3. Signed(a) = IF a < h THEN a ELSE a - w
  BY DEF Signed, SignedOf
<1> HIDE DEF h, w
<1>4. CASE a < h
  <2>1. a \div h = 0
    BY <1>1, <1>4
  <2> QED BY <2>1, <1>1, <1>2, <1>3, <1>4 DEF h, w
<1>5. CASE a >= h
  <2>1. a \div h = 1
    BY <1>1, <1>5, DivIs
  <2> QED BY <2>1, <1>1, <1>2, <1>3, <1>5 DEF h, w
<1> QED
  BY <1>1, <1>4, <1>5

\* The signed order is that of the two's complement readings.
LEMMA SignedBelowIsLess ==
  ASSUME NEW a \in Word, NEW b \in Word
  PROVE  SignedBelow(a, b) <=> Signed(a) < Signed(b)
<1> DEFINE w == 2^XLEN
<1>1. /\ SignBit(a) \in {0, 1} /\ Signed(a) = IF SignBit(a) = 1 THEN a - w ELSE a
      /\ SignBit(b) \in {0, 1} /\ Signed(b) = IF SignBit(b) = 1 THEN b - w ELSE b
  BY SignBitIs
<1>2. a \in Nat /\ b \in Nat /\ a < w /\ b < w /\ w \in Nat
  BY WordEnds, WordRange
<1>3. Below(a, b) <=> a < b
  BY BelowIsLess
<1> HIDE DEF w
<1> QED
  BY <1>1, <1>2, <1>3 DEF SignedBelow

\* branch_comparator.v: a branch is taken when the ISA says so.
THEOREM ComparatorMeetsISA ==
  ASSUME NEW m \in BranchMnemonics, NEW a \in Word, NEW b \in Word
  PROVE  branch_comparator(a, b, funct3Of(m)) <=> BranchMeaning(m, a, b)
<1>1. (Below(a, b) <=> a < b) /\ (SignedBelow(a, b) <=> Signed(a) < Signed(b))
  BY BelowIsLess, SignedBelowIsLess
<1>2. a = b <=> \A k \in Positions : Bit(a, k) = Bit(b, k)
  BY SameBits
<1>3. a \in Int /\ b \in Int /\ Signed(a) \in Int /\ Signed(b) \in Int
  BY WordEnds, SignedType
<1>4. /\ ~(Signed(a) < Signed(b)) <=> Signed(a) >= Signed(b)
      /\ ~(a < b) <=> a >= b
  BY <1>3
<1> HIDE <1>3
<1>5. CASE m = "beq"
  <2>1. funct3Of(m) = 0
    BY <1>5 DEF funct3Of
  <2> QED BY <1>5, <2>1, <1>2 DEF branch_comparator, BranchMeaning
<1>6. CASE m = "bne"
  <2>1. funct3Of(m) = 1
    BY <1>6 DEF funct3Of
  <2> QED BY <1>6, <2>1, <1>2 DEF branch_comparator, BranchMeaning
<1>7. CASE m = "blt"
  <2>1. funct3Of(m) = 4
    BY <1>7 DEF funct3Of
  <2> QED BY <1>7, <2>1, <1>1 DEF branch_comparator, BranchMeaning
<1>8. CASE m = "bge"
  <2>1. funct3Of(m) = 5
    BY <1>8 DEF funct3Of
  <2> QED BY <1>8, <2>1, <1>1, <1>4 DEF branch_comparator, BranchMeaning
<1>9. CASE m = "bltu"
  <2>1. funct3Of(m) = 6
    BY <1>9 DEF funct3Of
  <2> QED BY <1>9, <2>1, <1>1 DEF branch_comparator, BranchMeaning
<1>10. CASE m = "bgeu"
  <2>1. funct3Of(m) = 7
    BY <1>10 DEF funct3Of
  <2> QED BY <1>10, <2>1, <1>1, <1>4 DEF branch_comparator, BranchMeaning
<1> QED
  BY <1>5, <1>6, <1>7, <1>8, <1>9, <1>10 DEF BranchMnemonics

-----------------------------------------------------------------------------
(* The bits of sums and quotients. *)

\* A bit below 2^m does not see the multiples of 2^m.
LEMMA BitBelow ==
  ASSUME NEW w \in Int, NEW y \in Int, NEW m \in 0..XLEN, NEW k \in 0..(m - 1)
  PROVE  Bit(w + y * 2^m, k) = Bit(w, k)
<1> DEFINE p == 2^k  q == 2^m  r == 2^(m - k)  h == 2^(m - (k + 1))
<1>1. p \in Nat \ {0} /\ h \in Nat
  BY PowerPositive, WidthAssumption
<1>2. q = r * p
  BY PowerSum, WidthAssumption
<1>3. r = 2 * h
  <2>1. m - (k + 1) \in 0..(XLEN - 1) /\ (m - (k + 1)) + 1 = m - k
    BY WidthAssumption
  <2> QED BY <2>1, WidthAssumption
<1>4. Bit(w + y * 2^m, k) = ((w + y * q) \div p) % 2 /\ Bit(w, k) = (w \div p) % 2
  BY DEF Bit
<1> HIDE DEF p, q, r, h
<1>5. y * q = (y * r) * p
  BY <1>1, <1>2, <1>3
<1>6. y * r \in Int /\ y * r = (y * h) * 2 /\ y * h \in Int
  BY <1>1, <1>3
<1>7. (w + (y * r) * p) \div p = (w \div p) + y * r
  BY <1>1, <1>6, DivSum
<1>8. w \div p \in Int
  BY <1>1
<1>9. ((w \div p) + (y * h) * 2) % 2 = (w \div p) % 2
  BY <1>6, <1>8
<1> QED
  BY <1>4, <1>5, <1>6, <1>7, <1>9

\* A bit from 2^m on sees nothing but the multiple of 2^m.
LEMMA BitAbove ==
  ASSUME NEW m \in 0..XLEN, NEW w \in 0..(2^m - 1), NEW y \in Int, NEW k \in m..XLEN
  PROVE  Bit(w + y * 2^m, k) = Bit(y, k - m)
<1> DEFINE p == 2^k  q == 2^m  r == 2^(k - m)
<1>1. p \in Nat \ {0} /\ q \in Nat \ {0} /\ r \in Nat \ {0} /\ w \in 0..(q - 1)
  BY PowerPositive, WidthAssumption
<1>2. p = q * r
  <2>1. m = k - (k - m) /\ k - m \in 0..k /\ k \in 0..XLEN
    BY WidthAssumption
  <2>2. 2^k = 2^(k - (k - m)) * 2^(k - m)
    BY <2>1, PowerSum
  <2> QED BY <2>1, <2>2
<1>3. Bit(w + y * 2^m, k) = ((w + y * q) \div p) % 2 /\ Bit(y, k - m) = (y \div r) % 2
  BY DEF Bit
<1> HIDE DEF p, q, r
<1>4. (w + y * q) \div q = y
  <2>0. w \in Int /\ q \in Nat \ {0}
    BY <1>1
  <2>1. (w + y * q) \div q = (w \div q) + y
    BY <2>0, DivSum
  <2>2. w \div q = 0
    BY <1>1
  <2> QED BY <2>1, <2>2
<1>5. (w + y * q) \div p = y \div r
  <2>1. w + y * q \in Int
    BY <1>1
  <2> DEFINE x == w + y * q
  <2> HIDE DEF x
  <2>2. (x \div q) \div r = x \div (q * r)
    BY <2>1, <1>1, DivDiv DEF x
  <2> QED BY <2>2, <1>2, <1>4 DEF x
<1> QED
  BY <1>3, <1>5

\* Bit 0, and the bits of 0.
LEMMA BitZero ==
  /\ \A y \in Int : Bit(y, 0) = y % 2
  /\ \A k \in 0..XLEN : Bit(0, k) = 0
<1>1. ASSUME NEW y \in Int PROVE Bit(y, 0) = y % 2
  <2>1. 2^0 = 1
    OBVIOUS
  <2>2. y \div 1 = y
    OBVIOUS
  <2> QED BY <2>1, <2>2 DEF Bit
<1>2. ASSUME NEW k \in 0..XLEN PROVE Bit(0, k) = 0
  <2> DEFINE p == 2^k
  <2>1. p \in Nat \ {0}
    BY PowerPositive
  <2> HIDE DEF p
  <2>2. 0 \div p = 0
    BY <2>1
  <2>3. Bit(0, k) = (0 \div p) % 2
    BY DEF Bit, p
  <2> QED BY <2>2, <2>3
<1> QED
  BY <1>1, <1>2

\* Every bit of 2^s - 1 is set.
LEMMA BitOnes ==
  ASSUME NEW s \in 0..XLEN, NEW j \in 0..(s - 1)
  PROVE  Bit(2^s - 1, j) = 1
<1> DEFINE p == 2^j  q == 2^s  r == 2^(s - j)  h == 2^(s - (j + 1))
<1>1. p \in Nat \ {0} /\ h \in Nat \ {0}
  BY PowerPositive, WidthAssumption
<1>2. q = r * p
  BY PowerSum, WidthAssumption
<1>3. r = 2 * h
  <2>1. s - (j + 1) \in 0..(XLEN - 1) /\ (s - (j + 1)) + 1 = s - j
    BY WidthAssumption
  <2> QED BY <2>1, WidthAssumption
<1>4. Bit(2^s - 1, j) = ((q - 1) \div p) % 2
  BY DEF Bit
<1> HIDE DEF p, q, r, h
<1>5. (q - 1) \div p = r - 1
  <2>1. r * p \in Int /\ r \in Int
    BY <1>1, <1>3
  <2>2. (r - 1) * p = r * p - p
    BY <1>1, <2>1
  <2>3. (r - 1) * p <= q - 1 /\ q - 1 < ((r - 1) + 1) * p
    BY <1>1, <1>2, <2>1, <2>2
  <2>4. q - 1 \in Int /\ r - 1 \in Int
    BY <2>1, <1>2
  <2> HIDE <1>2, <1>3
  <2> QED BY <2>3, <2>4, <1>1, DivIs
<1> QED
  BY <1>1, <1>3, <1>4, <1>5

-----------------------------------------------------------------------------
(* alu.v, operation by operation. *)

\* The gates work on every pair of bits.
LEMMA BitMapBits ==
  ASSUME NEW gate \in Gates, NEW a \in Word, NEW b \in Word, NEW k \in Positions
  PROVE  Bit(BitMap(gate, a, b), k) = gate[Bit(a, k)][Bit(b, k)]
<1> DEFINE g(n) == gate[Bit(a, n)][Bit(b, n)]
<1>1. PICK word : /\ word[0] = 0
                  /\ \A n \in 1..XLEN : word[n] = word[n - 1] + g(n - 1) * 2^(n - 1)
                  /\ BitMap(gate, a, b) = word[XLEN]
  BY BitMapPrefixes
<1>2. \A n \in Positions : g(n) \in {0, 1}
  <2> SUFFICES ASSUME NEW n \in Positions PROVE g(n) \in {0, 1}
    OBVIOUS
  <2>1. a \in Nat /\ b \in Nat /\ n \in 0..XLEN
    BY WordEnds, WidthAssumption DEF Positions
  <2>2. Bit(a, n) \in {0, 1} /\ Bit(b, n) \in {0, 1}
    BY <2>1, BitType
  <2> QED BY <2>2 DEF Gates
<1> HIDE DEF g
<1> DEFINE S == {n \in 0..XLEN : /\ word[n] \in 0..(2^n - 1)
                                 /\ \A j \in 0..(n - 1) : Bit(word[n], j) = g(j)}
<1>3. 0 \in S
  BY <1>1, WidthAssumption
<1>4. ASSUME NEW n \in 0..(XLEN - 1), n \in S PROVE n + 1 \in S
  <2> DEFINE p == 2^n  q == 2^(n + 1)
  <2>1. n \in 0..XLEN /\ n + 1 \in 1..XLEN /\ (n + 1) - 1 = n /\ n \in Positions
    BY WidthAssumption DEF Positions
  <2>2. p \in Nat \ {0} /\ q = 2 * p
    BY <2>1, PowerPositive, WidthAssumption
  <2>3. word[n + 1] = word[n] + g(n) * p
    BY <1>1, <2>1
  <2>4. word[n] \in 0..(p - 1) /\ g(n) \in {0, 1}
    BY <1>4, <1>2, <2>1
  <2>5. word[n + 1] \in 0..(q - 1)
    <3> HIDE DEF p, q
    <3> QED BY <2>2, <2>3, <2>4
  <2>6. ASSUME NEW j \in 0..n PROVE Bit(word[n + 1], j) = g(j)
    <3>1. CASE j = n
      <4>1. Bit(word[n] + g(n) * 2^n, n) = Bit(g(n), n - n)
        <5>1. n \in n..XLEN /\ g(n) \in Int
          BY <2>1, <2>4
        <5> QED BY <5>1, <2>1, <2>4, BitAbove
      <4>2. Bit(g(n), 0) = g(n)
        BY <2>4, BitZero
      <4> QED BY <3>1, <4>1, <4>2, <2>3, <2>1
    <3>2. CASE j # n
      <4>1. j \in 0..(n - 1)
        BY <3>2, <2>1
      <4>2. word[n] \in Int /\ g(n) \in Int
        BY <2>2, <2>4
      <4>3. Bit(word[n] + g(n) * 2^n, j) = Bit(word[n], j)
        BY <4>1, <4>2, <2>1, BitBelow
      <4> QED BY <4>1, <4>3, <2>3, <1>4
    <3> QED BY <3>1, <3>2
  <2>7. (n + 1) - 1 = n
    BY <2>1
  <2> QED
    BY <2>1, <2>5, <2>6, <2>7
<1>5. 0..XLEN \subseteq S
  <2> HIDE DEF S
  <2> QED BY <1>3, <1>4, UpTo, WidthAssumption
<1>6. XLEN \in S
  <2> HIDE DEF S
  <2> QED BY <1>5, WidthAssumption
<1>7. Bit(word[XLEN], k) = g(k)
  BY <1>6 DEF Positions
<1> QED
  BY <1>1, <1>7 DEF g

\* What is left of a word after a shift to the right.
LEMMA ShiftedRight ==
  ASSUME NEW a \in Word, NEW s \in 0..XLEN
  PROVE  /\ a \div 2^s \in 0..(2^(XLEN - s) - 1)
         /\ a = (a % 2^s) + (a \div 2^s) * 2^s
         /\ a % 2^s \in 0..(2^s - 1)
<1> DEFINE p == 2^s  r == 2^(XLEN - s)  w == 2^XLEN
<1>1. p \in Nat \ {0} /\ r \in Nat \ {0} /\ w = r * p
  BY PowerPositive, PowerSplit, WidthAssumption
<1>2. a \in Nat /\ a < w
  BY WordEnds
<1> HIDE DEF p, r, w
<1>3. a = p * (a \div p) + (a % p) /\ a % p \in 0..(p - 1) /\ a \div p \in Nat
  BY <1>1, <1>2
<1>4. a \div p < r
  <2> SUFFICES ASSUME a \div p >= r PROVE FALSE
    BY <1>1, <1>3
  <2> DEFINE d == a \div p
  <2>1. d \in Nat /\ d >= r /\ a >= p * d
    BY <1>1, <1>3
  <2> HIDE DEF d
  <2>2. p * d >= r * p
    BY <2>1, <1>1
  <2> QED BY <2>1, <2>2, <1>1, <1>2
<1>5. p * (a \div p) = (a \div p) * p
  BY <1>1, <1>3
<1> QED
  BY <1>1, <1>3, <1>4, <1>5 DEF p, r

\* The bits that a shift to the right leaves.
LEMMA ShiftRightBits ==
  ASSUME NEW a \in Word, NEW s \in 0..XLEN, NEW k \in Positions
  PROVE  Bit(a \div 2^s, k) = IF k + s < XLEN THEN Bit(a, k + s) ELSE 0
<1> DEFINE d == a \div 2^s
<1>1. /\ d \in 0..(2^(XLEN - s) - 1) /\ a = (a % 2^s) + d * 2^s /\ a % 2^s \in 0..(2^s - 1)
  BY ShiftedRight
<1>2. d \in Int /\ XLEN \in Nat
  BY <1>1, WidthAssumption, PowerPositive
<1> HIDE DEF d
<1>3. CASE k + s < XLEN
  <2>1. k + s \in s..XLEN /\ (k + s) - s = k
    BY <1>2, <1>3 DEF Positions
  <2>2. Bit((a % 2^s) + d * 2^s, k + s) = Bit(d, (k + s) - s)
    BY <1>1, <1>2, <2>1, BitAbove
  <2> QED BY <1>1, <1>3, <2>1, <2>2 DEF d
<1>4. CASE ~(k + s < XLEN)
  <2>1. XLEN - s \in 0..XLEN /\ k \in (XLEN - s)..XLEN /\ k - (XLEN - s) \in 0..XLEN
    BY <1>2, <1>4 DEF Positions
  <2> DEFINE y == 0
  <2>2. y \in Int /\ d + y * 2^(XLEN - s) = d /\ Bit(y, k - (XLEN - s)) = 0
    BY <1>2, <2>1, PowerPositive, BitZero
  <2> HIDE DEF y
  <2>3. Bit(d + y * 2^(XLEN - s), k) = Bit(y, k - (XLEN - s))
    BY <1>1, <2>1, <2>2, BitAbove
  <2>4. Bit(d, k) = 0
    BY <2>2, <2>3
  <2> QED BY <1>4, <2>4 DEF d
<1> QED
  BY <1>3, <1>4

\* A shift to the left.
LEMMA ShiftLeftBits ==
  ASSUME NEW a \in Word, NEW s \in 0..XLEN, NEW k \in Positions
  PROVE  Bit((a % 2^(XLEN - s)) * 2^s, k) = IF k < s THEN 0 ELSE Bit(a, k - s)
<1> DEFINE t == XLEN - s  m == a % 2^t  zero == 0
<1>1. XLEN \in Nat /\ t \in 0..XLEN /\ k \in 0..(XLEN - 1)
  BY WidthAssumption DEF Positions
<1>2. /\ a = m + (a \div 2^t) * 2^t /\ m \in 0..(2^t - 1)
      /\ a \div 2^t \in 0..(2^(XLEN - t) - 1)
  BY <1>1, ShiftedRight
<1>3. m \in Int /\ a \div 2^t \in Int /\ 2^s \in Nat \ {0}
  BY <1>1, <1>2, PowerPositive
<1>4. zero \in Int /\ zero \in 0..(2^s - 1) /\ zero + m * 2^s = m * 2^s
  <2>1. m * 2^s \in Int
    BY <1>3
  <2> QED BY <2>1, <1>3
<1>5. CASE k < s
  <2>1. k \in 0..(s - 1) /\ k \in 0..XLEN
    BY <1>1, <1>5
  <2>2. Bit(zero, k) = 0
    BY <2>1, BitZero
  <2> HIDE DEF zero, m
  <2>3. Bit(zero + m * 2^s, k) = Bit(zero, k)
    BY <1>3, <1>4, <2>1, BitBelow
  <2> QED BY <1>4, <1>5, <2>2, <2>3 DEF m
<1>6. CASE ~(k < s)
  <2>1. k \in s..XLEN /\ k - s \in 0..(t - 1)
    BY <1>1, <1>6
  <2> HIDE DEF zero, m, t
  <2>2. Bit(zero + m * 2^s, k) = Bit(m, k - s)
    BY <1>3, <1>4, <2>1, BitAbove
  <2>3. Bit(m + (a \div 2^t) * 2^t, k - s) = Bit(m, k - s)
    BY <1>1, <1>3, <2>1, BitBelow
  <2> QED BY <1>2, <1>4, <1>6, <2>2, <2>3 DEF m, t
<1> QED
  BY <1>5, <1>6

\* An arithmetic shift to the right.
LEMMA ShiftArithmeticBits ==
  ASSUME NEW a \in Word, NEW s \in 0..XLEN, NEW k \in Positions
  PROVE  Bit(shift_right_arithmetic(a, s), k)
           = IF k + s < XLEN THEN Bit(a, k + s) ELSE SignBit(a)
<1> DEFINE w == 2^XLEN  p == 2^s  r == 2^(XLEN - s)  d == a \div p
<1>1. /\ w \in Nat \ {0} /\ p \in Nat \ {0} /\ r \in Nat \ {0} /\ w = r * p
      /\ XLEN \in Nat /\ XLEN - s \in 0..XLEN
  BY PowerPositive, PowerSplit, WidthAssumption
<1>2. a \in Nat /\ a < w /\ d \in 0..(r - 1)
  BY WordEnds, ShiftedRight
<1>3. Bit(d, k) = IF k + s < XLEN THEN Bit(a, k + s) ELSE 0
  BY ShiftRightBits
<1>4. SignBit(a) \in {0, 1} /\ Signed(a) = IF SignBit(a) = 1 THEN a - w ELSE a
  BY SignBitIs
<1>5. shift_right_arithmetic(a, s) = (Signed(a) \div p) % w
  BY DEF shift_right_arithmetic, ToWord
<1>6. CASE SignBit(a) = 0
  <2> HIDE DEF w, p, r
  <2>1. Signed(a) \div p = d
    BY <1>4, <1>6
  <2>2. d < w /\ d \in Nat
    <3> HIDE DEF d
    <3>1. r <= r * p
      BY <1>1
    <3> QED BY <3>1, <1>1, <1>2
  <2>3. d % w = d
    <3> HIDE DEF d
    <3> QED BY <2>2, <1>1
  <2> QED BY <1>3, <1>5, <1>6, <2>1, <2>3
<1>7. CASE SignBit(a) = 1
  <2> DEFINE y == p - 1
  <2>1. (Signed(a) \div p) % w = d + y * r
    <3> HIDE DEF w, p, r
    <3>1. Signed(a) = a + (-r) * p
      BY <1>1, <1>2, <1>4, <1>7
    <3>2. Signed(a) \div p = d + (-r)
      <4>1. a \in Int /\ -r \in Int /\ p \in Nat \ {0}
        BY <1>1, <1>2
      <4>2. (a + (-r) * p) \div p = (a \div p) + (-r)
        BY <4>1, DivSum
      <4> QED BY <3>1, <4>2
    <3>3. d + y * r = (d - r) + w
      <4>1. y * r = p * r - r /\ p * r = r * p
        BY <1>1
      <4> HIDE DEF d, y
      <4> QED BY <4>1, <1>1, <1>2
    <3>4. d - r \in (-w)..(-1)
      <4> HIDE DEF d
      <4>1. r <= r * p
        BY <1>1
      <4> QED BY <4>1, <1>1, <1>2
    <3>5. (d - r) % w = (d - r) + w
      <4> HIDE DEF d
      <4> DEFINE x == d - r
      <4>1. x \in (-w)..(-1)
        BY <3>4
      <4> HIDE DEF x
      <4>2. x % w = x + w
        BY <4>1, <1>1
      <4> QED BY <4>2 DEF x
    <3>6. d + (-r) = d - r
      <4> HIDE DEF d
      <4> QED BY <1>1, <1>2
    <3> HIDE DEF d, y
    <3> QED BY <3>2, <3>3, <3>5, <3>6
  <2>2. y \in Int /\ y = 2^s - 1 /\ d \in Int
    BY <1>1, <1>2
  <2>3. CASE k + s < XLEN
    <3>1. k \in 0..((XLEN - s) - 1)
      BY <2>3, <1>1 DEF Positions
    <3>2. Bit(d + y * 2^(XLEN - s), k) = Bit(d, k)
      <4> HIDE DEF d, y
      <4> QED BY <3>1, <2>2, <1>1, BitBelow
    <3> HIDE DEF d, y
    <3> QED BY <3>2, <2>1, <2>3, <1>3, <1>5
  <2>4. CASE ~(k + s < XLEN)
    <3>1. k \in (XLEN - s)..XLEN /\ k - (XLEN - s) \in 0..(s - 1)
      BY <2>4, <1>1 DEF Positions
    <3>2. Bit(d + y * 2^(XLEN - s), k) = Bit(y, k - (XLEN - s))
      <4> HIDE DEF d, y
      <4> QED BY <3>1, <2>2, <1>1, <1>2, BitAbove
    <3>3. Bit(y, k - (XLEN - s)) = 1
      <4> HIDE DEF y
      <4> QED BY <3>1, <2>2, BitOnes
    <3> HIDE DEF d, y
    <3> QED BY <3>2, <3>3, <2>1, <2>4, <1>5, <1>7
  <2> QED BY <2>3, <2>4
<1> QED
  BY <1>4, <1>6, <1>7
\* The operation alu_control.v selects for a mnemonic.
Operation(m) ==
  CASE m = "add" -> "ADD" [] m = "sub" -> "SUB" [] m = "and" -> "AND" [] m = "or" -> "OR"
    [] m = "xor" -> "XOR" [] m = "sll" -> "SLL" [] m = "srl" -> "SRL" [] m = "sra" -> "SRA"
    [] m = "slt" -> "SLT" [] m = "sltu" -> "SLTU"

\* The capped shift amount shifts like the uncapped one.
LEMMA CappedShift ==
  ASSUME NEW b \in Word
  PROVE  LET s == b % 32  t == Min({b % 32, XLEN})
         IN /\ s \in Nat /\ t \in 0..XLEN
            /\ \A k \in Positions : (k < s <=> k < t) /\ (k + s < XLEN <=> k + t < XLEN)
            /\ \A k \in Positions : ~(k < s) => s = t
            /\ \A k \in Positions : k + s < XLEN => s = t
<1> DEFINE s == b % 32  t == Min({b % 32, XLEN})
<1>1. s \in Nat /\ XLEN \in Nat
  BY WordEnds, WidthAssumption
<1>2. t \in 0..XLEN
  BY ShiftAmount
<1>3. t = IF s <= XLEN THEN s ELSE XLEN
  <2> HIDE DEF s
  <2>1. \A y \in {s, XLEN} : (IF s <= XLEN THEN s ELSE XLEN) <= y
    BY <1>1
  <2>2. (IF s <= XLEN THEN s ELSE XLEN) \in {s, XLEN}
    OBVIOUS
  <2>3. \A x \in {s, XLEN} : (\A y \in {s, XLEN} : x <= y) => x = IF s <= XLEN THEN s ELSE XLEN
    BY <1>1
  <2>4. t = CHOOSE x \in {s, XLEN} : \A y \in {s, XLEN} : x <= y
    BY DEF Min, s
  <2> HIDE DEF t
  <2> QED BY <2>1, <2>2, <2>3, <2>4
<1> HIDE DEF s, t
<1>4. /\ \A k \in Positions : (k < s <=> k < t) /\ (k + s < XLEN <=> k + t < XLEN)
      /\ \A k \in Positions : ~(k < s) => s = t
      /\ \A k \in Positions : k + s < XLEN => s = t
  BY <1>1, <1>3 DEF Positions
<1> QED
  BY <1>1, <1>2, <1>4 DEF s, t

\* alu.v computes what the ISA defines.
THEOREM AluMeetsISA ==
  ASSUME NEW m \in ALUMnemonics, NEW a \in Word, NEW b \in Word
  PROVE  ALUMeaning(m, a, b, alu(Operation(m), a, b))
<1> DEFINE r == alu(Operation(m), a, b)  w == 2^XLEN  s == b % 32  t == Min({b % 32, XLEN})
<1>1. w \in Nat \ {0} /\ a \in 0..(w - 1) /\ b \in 0..(w - 1)
  BY WordRange DEF Word
<1>2. /\ s \in Nat /\ t \in 0..XLEN
      /\ \A k \in Positions : (k < s <=> k < t) /\ (k + s < XLEN <=> k + t < XLEN)
      /\ \A k \in Positions : ~(k < s) => s = t
      /\ \A k \in Positions : k + s < XLEN => s = t
  BY CappedShift
<1>3. \A k \in Positions : Bit(a, k) \in {0, 1} /\ Bit(b, k) \in {0, 1}
  <2> SUFFICES ASSUME NEW k \in Positions PROVE Bit(a, k) \in {0, 1} /\ Bit(b, k) \in {0, 1}
    OBVIOUS
  <2>1. a \in Nat /\ b \in Nat /\ k \in 0..XLEN
    BY <1>1, WidthAssumption DEF Positions
  <2> QED BY <2>1, BitType
<1>4. CASE m = "add"
  <2>1. r = (a + b) % w
    BY <1>4 DEF alu, Operation, ToWord
  <2> HIDE DEF r, w
  <2>2. (r + w - b) % w = a
    BY <1>1, <2>1
  <2> QED BY <1>4, <2>2 DEF ALUMeaning, r, w
<1>5. CASE m = "sub"
  <2>1. r = (a - b) % w
    BY <1>5 DEF alu, Operation, ToWord
  <2> HIDE DEF r, w
  <2>2. (r + b) % w = a
    BY <1>1, <2>1
  <2> QED BY <1>5, <2>2 DEF ALUMeaning, r, w
<1>6. CASE m = "and"
  <2>1. r = BitMap(AndGate, a, b)
    BY <1>6 DEF alu, Operation
  <2>2. ASSUME NEW k \in Positions
        PROVE  Bit(r, k) = 1 <=> Bit(a, k) = 1 /\ Bit(b, k) = 1
    <3>1. Bit(r, k) = AndGate[Bit(a, k)][Bit(b, k)]
      BY <2>1, BitMapBits, GateTypes
    <3> QED BY <3>1, <1>3 DEF AndGate
  <2> HIDE DEF r
  <2> QED BY <1>6, <2>2 DEF ALUMeaning, r
<1>7. CASE m = "or"
  <2>1. r = BitMap(OrGate, a, b)
    BY <1>7 DEF alu, Operation
  <2>2. ASSUME NEW k \in Positions
        PROVE  Bit(r, k) = 1 <=> Bit(a, k) = 1 \/ Bit(b, k) = 1
    <3>1. Bit(r, k) = OrGate[Bit(a, k)][Bit(b, k)]
      BY <2>1, BitMapBits, GateTypes
    <3> QED BY <3>1, <1>3 DEF OrGate
  <2> HIDE DEF r
  <2> QED BY <1>7, <2>2 DEF ALUMeaning, r
<1>8. CASE m = "xor"
  <2>1. r = BitMap(XorGate, a, b)
    BY <1>8 DEF alu, Operation
  <2>2. ASSUME NEW k \in Positions
        PROVE  Bit(r, k) = 1 <=> Bit(a, k) # Bit(b, k)
    <3>1. Bit(r, k) = XorGate[Bit(a, k)][Bit(b, k)]
      BY <2>1, BitMapBits, GateTypes
    <3> QED BY <3>1, <1>3 DEF XorGate
  <2> HIDE DEF r
  <2> QED BY <1>8, <2>2 DEF ALUMeaning, r
<1>9. CASE m = "sll"
  <2>1. r = (a % 2^(XLEN - t)) * 2^t
    BY <1>9 DEF alu, Operation
  <2>2. ASSUME NEW k \in Positions
        PROVE  Bit(r, k) = IF k < s THEN 0 ELSE Bit(a, k - s)
    <3> HIDE DEF r, s, t
    <3>1. Bit(r, k) = IF k < t THEN 0 ELSE Bit(a, k - t)
      BY <2>1, <1>2, ShiftLeftBits
    <3> QED BY <3>1, <1>2
  <2> HIDE DEF r
  <2> QED BY <1>9, <2>2 DEF ALUMeaning, r
<1>10. CASE m = "srl"
  <2>1. r = a \div 2^t
    BY <1>10 DEF alu, Operation
  <2>2. ASSUME NEW k \in Positions
        PROVE  Bit(r, k) = IF k + s < XLEN THEN Bit(a, k + s) ELSE 0
    <3> HIDE DEF r, s, t
    <3>1. Bit(r, k) = IF k + t < XLEN THEN Bit(a, k + t) ELSE 0
      BY <2>1, <1>2, ShiftRightBits
    <3> QED BY <3>1, <1>2
  <2> HIDE DEF r
  <2> QED BY <1>10, <2>2 DEF ALUMeaning, r
<1>11. CASE m = "sra"
  <2>1. r = shift_right_arithmetic(a, t)
    BY <1>11 DEF alu, Operation
  <2>2. ASSUME NEW k \in Positions
        PROVE  Bit(r, k) = IF k + s < XLEN THEN Bit(a, k + s) ELSE SignBit(a)
    <3> HIDE DEF r, s, t
    <3>1. Bit(r, k) = IF k + t < XLEN THEN Bit(a, k + t) ELSE SignBit(a)
      BY <2>1, <1>2, ShiftArithmeticBits
    <3> QED BY <3>1, <1>2
  <2> HIDE DEF r
  <2> QED BY <1>11, <2>2 DEF ALUMeaning, r
<1>12. CASE m = "slt"
  <2>1. r = IF Signed(a) < Signed(b) THEN 1 ELSE 0
    BY <1>12 DEF alu, Operation
  <2> HIDE DEF r
  <2> QED BY <1>12, <2>1, SignedBelowIsLess DEF ALUMeaning, r
<1>13. CASE m = "sltu"
  <2>1. r = IF a < b THEN 1 ELSE 0
    BY <1>13 DEF alu, Operation
  <2> HIDE DEF r
  <2> QED BY <1>13, <2>1, BelowIsLess DEF ALUMeaning, r
<1> QED
  BY <1>4, <1>5, <1>6, <1>7, <1>8, <1>9, <1>10, <1>11, <1>12, <1>13 DEF ALUMnemonics

-----------------------------------------------------------------------------
(* Decoding: the immediate generator undoes the encoding. *)

\* An I-type immediate.
LEMMA IImmediate ==
  ASSUME NEW op, NEW f, NEW rd, NEW rs1, NEW imm \in Int, -2048 <= imm, imm < 2048
  PROVE  i_imm(IType(op, f, rd, rs1, imm)) = imm
<1> DEFINE i == IType(op, f, rd, rs1, imm)
<1>1. i.funct7 = (imm \div 32) % 128 /\ i.rs2 = imm % 32
  <2>1. imm \div 1 = imm
    OBVIOUS
  <2> QED BY <2>1, SMT DEF IType, RType, bits
<1> HIDE DEF i
<1>2. i_imm(i) = SignedOf(((imm \div 32) % 128) * 32 + (imm % 32), 12)
  BY <1>1, SMT DEF i_imm
<1>3. ((imm \div 32) % 128) * 32 + (imm % 32) = IF imm < 0 THEN imm + 4096 ELSE imm
  BY SMT
<1>4. SignedOf(IF imm < 0 THEN imm + 4096 ELSE imm, 12) = imm
  BY SMT DEF SignedOf
<1> QED
  BY <1>2, <1>3, <1>4, SMT DEF i

\* An S-type immediate.
LEMMA SImmediate ==
  ASSUME NEW op, NEW f, NEW rs1, NEW rs2, NEW imm \in Int, -2048 <= imm, imm < 2048
  PROVE  s_imm(SType(op, f, rs1, rs2, imm)) = imm
<1> DEFINE i == SType(op, f, rs1, rs2, imm)
<1>1. i.funct7 = (imm \div 32) % 128 /\ i.rd = imm % 32
  <2>1. imm \div 1 = imm
    OBVIOUS
  <2> QED BY <2>1, SMT DEF SType, RType, bits
<1> HIDE DEF i
<1>2. s_imm(i) = SignedOf(((imm \div 32) % 128) * 32 + (imm % 32), 12)
  BY <1>1, SMT DEF s_imm
<1>3. ((imm \div 32) % 128) * 32 + (imm % 32) = IF imm < 0 THEN imm + 4096 ELSE imm
  BY SMT
<1>4. SignedOf(IF imm < 0 THEN imm + 4096 ELSE imm, 12) = imm
  BY SMT DEF SignedOf
<1> QED
  BY <1>2, <1>3, <1>4, SMT DEF i

\* A branch offset.
LEMMA BImmediate ==
  ASSUME NEW op, NEW f, NEW rs1, NEW rs2, NEW off \in Int, -4096 <= off, off < 4096, off % 2 = 0
  PROVE  b_imm(BType(op, f, rs1, rs2, off)) = off
<1> DEFINE hi == (off \div 4096) % 2  mid == (off \div 2048) % 2  up == (off \div 32) % 64
           lo == (off \div 2) % 16    i == BType(op, f, rs1, rs2, off)
<1>1. i.funct7 = hi * 64 + up /\ i.rd = lo * 2 + mid
  BY SMT DEF BType, RType, bits
<1>2. hi \in 0..1 /\ mid \in 0..1 /\ up \in 0..63 /\ lo \in 0..15
  BY SMT
<1>3. hi * 4096 + mid * 2048 + up * 32 + lo * 2 = IF off < 0 THEN off + 8192 ELSE off
  BY SMT
<1> HIDE DEF hi, mid, up, lo, i
<1>4. /\ Bit(i.funct7, 6) = hi /\ Bit(i.rd, 0) = mid
      /\ i.funct7 % 2^6 = up /\ i.rd \div 2 = lo
  BY <1>1, <1>2, SMT DEF Bit
<1>5. b_imm(i) = SignedOf(hi * 4096 + mid * 2048 + up * 32 + lo * 2, 13)
  BY <1>4, SMT DEF b_imm
<1>6. SignedOf(IF off < 0 THEN off + 8192 ELSE off, 13) = off
  BY SMT DEF SignedOf
<1> QED
  BY <1>3, <1>5, <1>6, SMT DEF i

\* A jump offset.
LEMMA JImmediate ==
  ASSUME NEW op, NEW rd, NEW off \in Int, -1048576 <= off, off < 1048576, off % 2 = 0
  PROVE  j_imm(JType(op, rd, off)) = off
<1> DEFINE hi == (off \div 1048576) % 2  top == (off \div 32768) % 32  f3 == (off \div 4096) % 8
           mid == (off \div 2048) % 2    up == (off \div 32) % 64      lo == (off \div 2) % 16
           i == JType(op, rd, off)
<1>1. i.funct7 = hi * 64 + up /\ i.rs2 = lo * 2 + mid /\ i.rs1 = top /\ i.funct3 = f3
  BY SMT DEF JType, RType, bits
<1>2. /\ hi \in 0..1 /\ mid \in 0..1 /\ up \in 0..63 /\ lo \in 0..15
      /\ top \in 0..31 /\ f3 \in 0..7
  BY SMT
<1>3. hi * 1048576 + top * 32768 + f3 * 4096 + mid * 2048 + up * 32 + lo * 2
        = IF off < 0 THEN off + 2097152 ELSE off
  <2>1. off = 2 * (off \div 2) /\ off \div 2 = 16 * (off \div 32) + lo
    BY SMT
  <2>2. off \div 32 = 64 * (off \div 2048) + up
    BY SMT
  <2>3. off \div 2048 = 2 * (off \div 4096) + mid
    BY SMT
  <2>4. off \div 4096 = 8 * (off \div 32768) + f3
    BY SMT
  <2>5. off \div 32768 = 32 * (off \div 1048576) + top
    BY SMT
  <2>6. off \div 1048576 = (IF off < 0 THEN -1 ELSE 0) /\ hi = (IF off < 0 THEN 1 ELSE 0)
    BY SMT
  <2> HIDE DEF hi, top, f3, mid, up, lo
  <2> QED BY <1>2, <2>1, <2>2, <2>3, <2>4, <2>5, <2>6, SMT
<1> HIDE DEF hi, top, f3, mid, up, lo, i
<1>4. /\ Bit(i.funct7, 6) = hi /\ Bit(i.rs2, 0) = mid
      /\ i.funct7 % 2^6 = up /\ i.rs2 \div 2 = lo
  BY <1>1, <1>2, SMT DEF Bit
<1>5. j_imm(i) = SignedOf(hi * 1048576 + top * 32768 + f3 * 4096 + mid * 2048 + up * 32 + lo * 2,
                          21)
  BY <1>1, <1>4, SMT DEF j_imm
<1>6. SignedOf(IF off < 0 THEN off + 2097152 ELSE off, 21) = off
  BY SMT DEF SignedOf
<1> QED
  BY <1>3, <1>5, <1>6, SMT DEF i

\* An upper immediate, its sign extended beyond 32 bits.
LEMMA UImmediate ==
  ASSUME NEW op, NEW rd, NEW imm \in Nat, imm < 1048576
  PROVE  u_imm(UType(op, rd, imm)) = (IF imm < 524288 THEN imm ELSE imm - 1048576) * 4096
<1> DEFINE i == UType(op, rd, imm)
<1>1. /\ i.funct7 = (imm \div 8192) % 128 /\ i.rs2 = (imm \div 256) % 32
      /\ i.rs1 = (imm \div 8) % 32 /\ i.funct3 = imm % 8
  <2>1. imm \div 1 = imm
    OBVIOUS
  <2> QED BY <2>1, SMT DEF UType, RType, bits
<1> HIDE DEF i
<1>2. u_imm(i) = SignedOf(((imm \div 8192) % 128) * 8192 + ((imm \div 256) % 32) * 256
                            + ((imm \div 8) % 32) * 8 + (imm % 8), 20) * 4096
  BY <1>1, SMT DEF u_imm
<1>3. ((imm \div 8192) % 128) * 8192 + ((imm \div 256) % 32) * 256
        + ((imm \div 8) % 32) * 8 + (imm % 8) = imm
  BY SMT
<1>4. SignedOf(imm, 20) = IF imm < 524288 THEN imm ELSE imm - 1048576
  BY SMT DEF SignedOf
<1> QED
  BY <1>2, <1>3, <1>4, SMT DEF i

\* Remainders and multiples.
LEMMA ModMultiple ==
  ASSUME NEW x \in Int, NEW c \in Int, NEW p \in Nat \ {0}
  PROVE  (x + c * p) % p = x % p
<1> DEFINE y == x + c * p
<1>1. y \in Int /\ y \div p = (x \div p) + c
  BY DivSum
<1>2. y = p * (y \div p) + (y % p)
  <2> HIDE DEF y
  <2> QED BY <1>1
<1>3. x = p * (x \div p) + (x % p)
  OBVIOUS
<1>4. x \div p \in Int /\ x % p \in Int /\ y % p \in Int
  <2> HIDE DEF y
  <2> QED BY <1>1
<1> DEFINE d == x \div p  r == x % p  t == y % p
<1>5. y = p * (d + c) + t /\ x = p * d + r /\ d \in Int /\ r \in Int /\ t \in Int
  BY <1>1, <1>2, <1>3, <1>4
<1>6. y = x + c * p
  OBVIOUS
<1> HIDE DEF y, d, r, t
<1>7. t = r
  <2>1. p * (d + c) = p * d + c * p
    BY <1>5
  <2> DEFINE u == p * d  v == c * p
  <2>2. u \in Int /\ v \in Int
    BY <1>5
  <2>3. y = (u + v) + t /\ x = u + r /\ y = x + v
    BY <1>5, <1>6, <2>1
  <2> HIDE DEF u, v
  <2> QED BY <1>5, <2>2, <2>3
<1> QED
  BY <1>7 DEF y, t, r

\* A multiple leaves no remainder.
LEMMA ModOfMultiple ==
  ASSUME NEW c \in Int, NEW p \in Nat \ {0}
  PROVE  (c * p) % p = 0
<1> DEFINE x == 0
<1>1. x \in Int /\ x + c * p = c * p /\ x % p = 0
  OBVIOUS
<1> HIDE DEF x
<1>2. (x + c * p) % p = x % p
  BY <1>1, ModMultiple
<1> QED
  BY <1>1, <1>2

\* Scaling dividend and divisor scales the remainder.
LEMMA ModScale ==
  ASSUME NEW x \in Int, NEW p \in Nat \ {0}, NEW q \in Nat \ {0}
  PROVE  (x * q) % (p * q) = (x % p) * q
<1> DEFINE d == x \div p  r == x % p
<1>1. x = d * p + r /\ r \in 0..(p - 1) /\ d \in Int
  BY DivMod
<1> HIDE DEF d, r
<1>2. x * q = r * q + d * (p * q)
  BY <1>1
<1>3. r * q \in Int /\ p * q \in Nat \ {0}
  BY <1>1
<1>4. r * q \in 0..(p * q - 1)
  <2>1. r * q <= (p - 1) * q
    BY <1>1
  <2>2. (p - 1) * q = p * q - q
    OBVIOUS
  <2>3. 0 <= r * q
    BY <1>1
  <2> QED BY <2>1, <2>2, <2>3, <1>3
<1> DEFINE w == p * q  z == r * q
<1>5. w \in Nat \ {0} /\ z \in 0..(w - 1) /\ z \in Int /\ x * q = z + d * w
  BY <1>2, <1>3, <1>4
<1> HIDE DEF w, z
<1>6. (z + d * w) % w = z % w
  BY <1>1, <1>5, ModMultiple, Zenon
<1>7. z % w = z
  BY <1>5
<1> QED
  BY <1>5, <1>6, <1>7 DEF w, z, r

\* p divides n; powers of two that the provers do not compute.
Divides(p, n) == \E c \in Nat : n = c * p
power(n) == 2^n

\* A power of two up to 2^12 divides 2^12, and one up to 2^20 divides 2^20.
LEMMA PowersDivide ==
  /\ \A n \in 0..12 : Divides(power(n), 4096)
  /\ \A n \in 0..20 : Divides(power(n), 1048576)
<1>1. /\ power(0) = 1 /\ power(1) = 2 /\ power(2) = 4 /\ power(3) = 8 /\ power(4) = 16
      /\ power(5) = 32 /\ power(6) = 64 /\ power(7) = 128 /\ power(8) = 256
      /\ power(9) = 512 /\ power(10) = 1024 /\ power(11) = 2048 /\ power(12) = 4096
      /\ power(13) = 8192 /\ power(14) = 16384 /\ power(15) = 32768 /\ power(16) = 65536
      /\ power(17) = 131072 /\ power(18) = 262144 /\ power(19) = 524288
      /\ power(20) = 1048576
  BY SMT DEF power
<1>2. ASSUME NEW n \in 0..12 PROVE \E c \in Nat : 4096 = c * power(n)
  <2>1. \/ n = 0 \/ n = 1 \/ n = 2 \/ n = 3 \/ n = 4 \/ n = 5 \/ n = 6 \/ n = 7 \/ n = 8
        \/ n = 9 \/ n = 10 \/ n = 11 \/ n = 12
    BY SMT
  <2> QED BY <1>1, <2>1, SMT
<1>3. ASSUME NEW n \in 0..20 PROVE \E c \in Nat : 1048576 = c * power(n)
  <2>1. \/ n = 0 \/ n = 1 \/ n = 2 \/ n = 3 \/ n = 4 \/ n = 5 \/ n = 6 \/ n = 7 \/ n = 8
        \/ n = 9 \/ n = 10 \/ n = 11 \/ n = 12 \/ n = 13 \/ n = 14 \/ n = 15 \/ n = 16
        \/ n = 17 \/ n = 18 \/ n = 19 \/ n = 20
    BY SMT
  <2> QED BY <1>1, <2>1, SMT
<1> QED
  BY <1>2, <1>3, SMT DEF Divides

\* Taking off a multiple of the modulus, or a multiple of the modulus itself.
LEMMA WrapScaled ==
  ASSUME NEW m \in Nat, NEW x \in Int, NEW p \in Nat \ {0}, NEW q \in Nat \ {0},
         Divides(p, m - x)
  PROVE  (x * q) % (p * q) = (m % p) * q
<1>1. PICK c \in Nat : m - x = c * p
  BY Zenon DEF Divides
<1>2. x % p = m % p
  <2>1. c \in Int /\ m = x + c * p
    <3> DEFINE y == c * p
    <3>1. y \in Int /\ m - x = y
      BY <1>1
    <3> HIDE DEF y
    <3>2. m = x + y
      BY <3>1
    <3> QED BY <3>2 DEF y
  <2>2. (x + c * p) % p = x % p
    BY <2>1, ModMultiple, Zenon
  <2> QED BY <2>1, <2>2, Zenon
<1>3. (x * q) % (p * q) = (x % p) * q
  BY ModScale, Zenon
<1> QED
  BY <1>2, <1>3

\* A word narrower than the twelve bits below an upper immediate keeps none of it.
LEMMA WrapMultiple ==
  ASSUME NEW x \in Int, NEW w \in Nat \ {0}, NEW q \in Nat \ {0}, Divides(w, q)
  PROVE  (x * q) % w = 0
<1>1. PICK c \in Nat : q = c * w
  BY Zenon DEF Divides
<1>2. x * q = (x * c) * w /\ x * c \in Int
  BY <1>1
<1> DEFINE y == x * c
<1>3. y \in Int /\ x * q = y * w
  BY <1>2
<1> HIDE DEF y
<1>4. (y * w) % w = 0
  BY <1>3, ModOfMultiple, Zenon
<1> QED
  BY <1>3, <1>4, Zenon

\* What the two lemmas conclude, named: provers that see a large number do not
\* find the instance otherwise.
Scaled(m, x, p, q) == (x * q) % (p * q) = (m % p) * q
Lost(x, w, q)      == (x * q) % w = 0

\* Both, from what they are stated of.
LEMMA Wrapped ==
  ASSUME NEW x \in Int, NEW q \in Nat \ {0}
  PROVE  /\ \A m \in Nat, p \in Nat \ {0} : Divides(p, m - x) => Scaled(m, x, p, q)
         /\ \A w \in Nat \ {0} : Divides(w, q) => Lost(x, w, q)
  BY WrapScaled, WrapMultiple, Zenon DEF Scaled, Lost

\* The width above the twelve bits below an upper immediate.
LEMMA UpperWidth ==
  /\ XLEN > 12 => /\ power(XLEN - 12) \in Nat \ {0}
                  /\ power(XLEN) = power(XLEN - 12) * 4096
                  /\ Divides(power(XLEN - 12), 1048576)
  /\ ~(XLEN > 12) => Divides(power(XLEN), 4096)
<1>1. XLEN \in 5..32
  BY TestWidthAssumption, SMT
<1> DEFINE k == 12  n == XLEN - 12
<1>2. power(k) = 4096 /\ k \in Nat
  BY SMT DEF power
<1>3. ASSUME XLEN > 12
      PROVE  /\ power(n) \in Nat \ {0} /\ power(XLEN) = power(n) * 4096
             /\ Divides(power(n), 1048576)
  <2>1. n \in 0..20 /\ n \in 0..XLEN /\ k \in 0..XLEN /\ XLEN \in 0..XLEN /\ XLEN - k = n
    BY <1>1, <1>3, SMT
  <2> HIDE DEF k, n
  <2>2. power(XLEN) = power(n) * power(k)
    <3>1. \A m \in 0..XLEN : \A j \in 0..m : power(m) = power(m - j) * power(j)
      BY PowerSum, Zenon DEF power
    <3> QED BY <2>1, <3>1, SMT
  <2>3. power(n) \in Nat \ {0}
    BY <2>1, PowerPositive, SMT DEF power
  <2>4. Divides(power(n), 1048576)
    BY <2>1, PowersDivide, SMT
  <2> QED BY <1>2, <2>2, <2>3, <2>4, SMT
<1>4. ASSUME ~(XLEN > 12) PROVE Divides(power(XLEN), 4096)
  <2>1. XLEN \in 0..12
    BY <1>1, <1>4, SMT
  <2> QED BY <2>1, PowersDivide, SMT
<1> QED
  BY <1>3, <1>4, SMT

\* An upper immediate in its place.
LEMMA UpperImmediate ==
  ASSUME NEW op, NEW rd, NEW imm \in Nat, imm < 1048576
  PROVE  ToWord(u_imm(UType(op, rd, imm))) = shifted(imm)
<1> DEFINE x == IF imm < 524288 THEN imm ELSE imm - 1048576
           p == power(XLEN - 12)  w == power(XLEN)  q == 4096  all == 1048576
<1>1. u_imm(UType(op, rd, imm)) = x * q /\ x \in Int /\ (x = imm \/ imm = x + all)
  BY UImmediate, SMT
<1>2. q \in Nat \ {0} /\ w \in Nat \ {0} /\ all \in Nat /\ XLEN \in Nat
  BY WordRange, WidthAssumption, SMT DEF power
<1>3. ASSUME XLEN > 12 PROVE p \in Nat \ {0} /\ w = p * q /\ Divides(p, imm - x)
  <2>1. p \in Nat \ {0} /\ w = p * q /\ Divides(p, all)
    BY <1>3, UpperWidth, SMT
  <2>2. Divides(p, 0)
    BY <2>1, SMT DEF Divides
  <2>3. imm - x = 0 \/ imm - x = all
    BY SMT
  <2> QED BY <2>1, <2>2, <2>3, SMT
<1>4. ASSUME ~(XLEN > 12) PROVE Divides(w, q)
  BY <1>4, UpperWidth, SMT
<1>5. shifted(imm) = IF XLEN > 12 THEN (imm % p) * q ELSE 0
  BY SMT DEF shifted, power
<1>6. ToWord(x * q) = (x * q) % w
  BY SMT DEF ToWord, power
<1> HIDE DEF x, p, w, q, all
<1>7. CASE XLEN > 12
  <2>1. Scaled(imm, x, p, q)
    BY <1>1, <1>2, <1>3, <1>7, Wrapped, SMT
  <2> QED BY <1>1, <1>3, <1>5, <1>6, <1>7, <2>1, SMT DEF Scaled
<1>8. CASE ~(XLEN > 12)
  <2>1. Lost(x, w, q)
    BY <1>1, <1>2, <1>4, <1>8, Wrapped, SMT
  <2> QED BY <1>1, <1>5, <1>6, <1>8, <2>1, SMT DEF Lost
<1> QED
  BY <1>7, <1>8, SMT

-----------------------------------------------------------------------------
(* What the datapath does with an instruction, by opcode. *)

\* The next instruction is not the one that follows.
Redirects(o) == o.ctl.Jump \/ (o.ctl.Branch /\ o.e.branch_taken)

\* The parts of an outcome.
LEMMA OutcomeFields ==
  ASSUME NEW t
  PROVE  LET o   == datapath(t)
             c   == control_unit(t.i.opcode)
             op1 == CASE c.Op1Sel = "PC" -> testPc [] c.Op1Sel = "ZERO" -> 0 [] OTHER -> t.a
             op2 == IF c.ALUSrc THEN o.immediate ELSE t.b
         IN /\ o.ctl = c /\ o.immediate = immediate_generator(t.i)
            /\ o.e.alu_result = alu(alu_control(c.ALUOp, t.i.funct3, t.i.funct7, c.ALUSrc), op1, op2)
            /\ o.e.branch_taken = branch_comparator(op1, t.b, t.i.funct3)
            /\ o.e.branch_target = branch_target(c.JALR, op1, o.immediate, testPc)
            /\ o.e.pc_plus4 = ToWord(testPc + 4)
            /\ o.result = write_back_data(c.Jump, c.MemtoReg, o.e.pc_plus4, 0, o.e.alu_result)
  BY DEF datapath, execute

\* control_unit.v on each opcode the tests use.
LEMMA Decoded ==
  ASSUME NEW op
  PROVE  LET c == control_unit(op)
         IN /\ op = "OP" => ~c.Jump /\ ~c.Branch /\ ~c.MemtoReg /\ c.ALUOp = "funct" /\ ~c.ALUSrc
                            /\ c.Op1Sel = "REG"
            /\ op = "OP_IMM" => ~c.Jump /\ ~c.Branch /\ ~c.MemtoReg /\ c.ALUOp = "funct"
                                /\ c.ALUSrc /\ c.Op1Sel = "REG"
            /\ op \in {"LOAD", "STORE"} => ~c.Jump /\ ~c.Branch /\ c.ALUOp = "add"
                                           /\ c.ALUSrc /\ c.Op1Sel = "REG"
            /\ op = "BRANCH" => ~c.Jump /\ c.Branch /\ ~c.JALR /\ c.Op1Sel = "REG"
            /\ op = "JAL" => c.Jump /\ ~c.JALR /\ c.Op1Sel = "REG"
            /\ op = "JALR" => c.Jump /\ c.JALR /\ c.Op1Sel = "REG"
            /\ op = "LUI" => ~c.Jump /\ ~c.Branch /\ ~c.MemtoReg /\ c.ALUOp = "add"
                             /\ c.ALUSrc /\ c.Op1Sel = "ZERO"
            /\ op = "AUIPC" => ~c.Jump /\ ~c.Branch /\ ~c.MemtoReg /\ c.ALUOp = "add"
                               /\ c.ALUSrc /\ c.Op1Sel = "PC"
<1> DEFINE c == control_unit(op)
<1>1. /\ c.Jump <=> op \in {"JAL", "JALR"}
      /\ c.Branch <=> op = "BRANCH"
  BY Zenon DEF control_unit
<1>2. /\ c.MemtoReg <=> op = "LOAD" 
      /\ c.ALUSrc <=> op \in {"OP_IMM", "LOAD", "STORE", "JALR", "LUI", "AUIPC"}
      /\ c.JALR <=> op = "JALR"
  BY Zenon DEF control_unit
<1>3. /\ c.ALUOp = CASE op \in {"OP", "OP_IMM"} -> "funct" [] op = "BRANCH" -> "sub"
                     [] OTHER -> "add"
      /\ c.Op1Sel = CASE op = "AUIPC" -> "PC" [] op = "LUI" -> "ZERO" [] OTHER -> "REG"
  BY Zenon DEF control_unit
<1> HIDE DEF c
<1>4. /\ op \in {"OP", "OP_IMM"} => c.ALUOp = "funct"
      /\ op \in {"LOAD", "STORE", "LUI", "AUIPC"} => c.ALUOp = "add"
      /\ op \in {"OP", "OP_IMM", "LOAD", "STORE", "BRANCH", "JAL", "JALR"} => c.Op1Sel = "REG"
      /\ op = "LUI" => c.Op1Sel = "ZERO"
      /\ op = "AUIPC" => c.Op1Sel = "PC"
  BY <1>3, SMT
<1> QED
  BY <1>1, <1>2, <1>4, SMT DEF c

\* The operands and the signals that depend on the opcode.
LEMMA OutcomeAlu ==
  ASSUME NEW t
  PROVE  LET o == datapath(t)
             decoded(is_itype) == alu_control("funct", t.i.funct3, t.i.funct7, is_itype)
         IN /\ t.i.opcode = "OP" => ~Redirects(o) /\ o.result = alu(decoded(FALSE), t.a, t.b)
            /\ t.i.opcode = "OP_IMM" =>
                 ~Redirects(o) /\ o.result = alu(decoded(TRUE), t.a, o.immediate)
            /\ t.i.opcode \in {"LOAD", "STORE"} =>
                 ~Redirects(o) /\ o.e.alu_result = alu("ADD", t.a, o.immediate)
            /\ t.i.opcode = "LUI" => ~Redirects(o) /\ o.result = alu("ADD", 0, o.immediate)
            /\ t.i.opcode = "AUIPC" => ~Redirects(o) /\ o.result = alu("ADD", testPc, o.immediate)
<1> DEFINE o == datapath(t)  c == control_unit(t.i.opcode)
           op1 == CASE c.Op1Sel = "PC" -> testPc [] c.Op1Sel = "ZERO" -> 0 [] OTHER -> t.a
           op2 == IF c.ALUSrc THEN o.immediate ELSE t.b
           operation == alu_control(c.ALUOp, t.i.funct3, t.i.funct7, c.ALUSrc)
<1>1. /\ o.ctl = c /\ o.e.alu_result = alu(operation, op1, op2)
      /\ o.result = write_back_data(c.Jump, c.MemtoReg, o.e.pc_plus4, 0, o.e.alu_result)
  BY OutcomeFields, Zenon
<1>2. /\ ~c.Jump /\ ~c.Branch => ~Redirects(o)
      /\ ~c.Jump /\ ~c.MemtoReg => o.result = alu(operation, op1, op2)
  BY <1>1, Zenon DEF Redirects, write_back_data
<1>3. /\ c.Op1Sel = "REG" => op1 = t.a
      /\ c.Op1Sel = "PC" => op1 = testPc
      /\ c.Op1Sel = "ZERO" => op1 = 0
      /\ c.ALUSrc => op2 = o.immediate
      /\ ~c.ALUSrc => op2 = t.b
  <2> HIDE DEF c, o
  <2> QED BY SMT
<1>4. /\ c.ALUOp = "add" => operation = "ADD"
      /\ c.ALUSrc = TRUE \/ c.ALUSrc = FALSE
  <2>1. c.ALUSrc \in BOOLEAN
    BY ControlType, Zenon DEF Control
  <2>2. c.ALUOp = "add" => operation = "ADD"
    <3> HIDE DEF c
    <3> QED BY SMT DEF alu_control
  <2> QED BY <2>1, <2>2
<1> HIDE DEF op1, op2
<1>5. ASSUME t.i.opcode = "OP"
      PROVE  ~Redirects(o) /\ o.result = alu(alu_control("funct", t.i.funct3, t.i.funct7, FALSE), t.a, t.b)
  <2>1. ~c.Jump /\ ~c.Branch /\ ~c.MemtoReg /\ c.ALUOp = "funct" /\ ~c.ALUSrc /\ c.Op1Sel = "REG"
    BY <1>5, Decoded, SMT
  <2> QED BY <2>1, <1>2, <1>3, <1>4, Zenon
<1>6. ASSUME t.i.opcode = "OP_IMM"
      PROVE  /\ ~Redirects(o)
             /\ o.result = alu(alu_control("funct", t.i.funct3, t.i.funct7, TRUE), t.a, o.immediate)
  <2>1. ~c.Jump /\ ~c.Branch /\ ~c.MemtoReg /\ c.ALUOp = "funct" /\ c.ALUSrc /\ c.Op1Sel = "REG"
    BY <1>6, Decoded, SMT
  <2> QED BY <2>1, <1>2, <1>3, <1>4, Zenon
<1>7. ASSUME t.i.opcode \in {"LOAD", "STORE"}
      PROVE  ~Redirects(o) /\ o.e.alu_result = alu("ADD", t.a, o.immediate)
  <2>1. ~c.Jump /\ ~c.Branch /\ c.ALUOp = "add" /\ c.ALUSrc /\ c.Op1Sel = "REG"
    BY <1>7, Decoded, SMT
  <2> QED BY <2>1, <1>1, <1>2, <1>3, <1>4, Zenon
<1>8. ASSUME t.i.opcode = "LUI" PROVE ~Redirects(o) /\ o.result = alu("ADD", 0, o.immediate)
  <2>1. ~c.Jump /\ ~c.Branch /\ ~c.MemtoReg /\ c.ALUOp = "add" /\ c.ALUSrc /\ c.Op1Sel = "ZERO"
    BY <1>8, Decoded, SMT
  <2> QED BY <2>1, <1>2, <1>3, <1>4, Zenon
<1>9. ASSUME t.i.opcode = "AUIPC" PROVE ~Redirects(o) /\ o.result = alu("ADD", testPc, o.immediate)
  <2>1. ~c.Jump /\ ~c.Branch /\ ~c.MemtoReg /\ c.ALUOp = "add" /\ c.ALUSrc /\ c.Op1Sel = "PC"
    BY <1>9, Decoded, SMT
  <2> QED BY <2>1, <1>2, <1>3, <1>4, Zenon
<1> QED
  BY <1>5, <1>6, <1>7, <1>8, <1>9, Zenon DEF o

\* Branches and jumps: whether they redirect, and where to.
LEMMA OutcomeTransfer ==
  ASSUME NEW t
  PROVE  LET o == datapath(t)
             target(JALR) == branch_target(JALR, t.a, o.immediate, testPc)
         IN /\ t.i.opcode = "BRANCH" =>
                 /\ Redirects(o) <=> branch_comparator(t.a, t.b, t.i.funct3)
                 /\ o.e.branch_target = target(FALSE)
            /\ t.i.opcode = "JAL" =>
                 Redirects(o) /\ o.result = ToWord(testPc + 4) /\ o.e.branch_target = target(FALSE)
            /\ t.i.opcode = "JALR" =>
                 Redirects(o) /\ o.result = ToWord(testPc + 4) /\ o.e.branch_target = target(TRUE)
<1> DEFINE o == datapath(t)  c == control_unit(t.i.opcode)
           op1 == CASE c.Op1Sel = "PC" -> testPc [] c.Op1Sel = "ZERO" -> 0 [] OTHER -> t.a
<1>1. /\ o.ctl = c /\ o.e.branch_taken = branch_comparator(op1, t.b, t.i.funct3)
      /\ o.e.branch_target = branch_target(c.JALR, op1, o.immediate, testPc)
      /\ o.e.pc_plus4 = ToWord(testPc + 4)
      /\ o.result = write_back_data(c.Jump, c.MemtoReg, o.e.pc_plus4, 0, o.e.alu_result)
  BY OutcomeFields, Zenon
<1>2. /\ Redirects(o) <=> c.Jump \/ (c.Branch /\ branch_comparator(op1, t.b, t.i.funct3))
      /\ c.Jump => o.result = ToWord(testPc + 4)
  BY <1>1, Zenon DEF Redirects, write_back_data
<1>3. c.Op1Sel = "REG" => op1 = t.a
  <2> HIDE DEF c, o
  <2> QED BY SMT
<1>4. c.JALR = TRUE \/ c.JALR = FALSE
  <2>1. c.JALR \in BOOLEAN
    BY ControlType, Zenon DEF Control
  <2> QED BY <2>1
<1> HIDE DEF op1
<1>5. ASSUME t.i.opcode = "BRANCH"
      PROVE  /\ Redirects(o) <=> branch_comparator(t.a, t.b, t.i.funct3)
             /\ o.e.branch_target = branch_target(FALSE, t.a, o.immediate, testPc)
  <2>1. ~c.Jump /\ c.Branch /\ ~c.JALR /\ c.Op1Sel = "REG"
    BY <1>5, Decoded, SMT
  <2> QED BY <2>1, <1>1, <1>2, <1>3, <1>4, Zenon
<1>6. ASSUME t.i.opcode = "JAL"
      PROVE  /\ Redirects(o) /\ o.result = ToWord(testPc + 4)
             /\ o.e.branch_target = branch_target(FALSE, t.a, o.immediate, testPc)
  <2>1. c.Jump /\ ~c.JALR /\ c.Op1Sel = "REG"
    BY <1>6, Decoded, SMT
  <2> QED BY <2>1, <1>1, <1>2, <1>3, <1>4, Zenon
<1>7. ASSUME t.i.opcode = "JALR"
      PROVE  /\ Redirects(o) /\ o.result = ToWord(testPc + 4)
             /\ o.e.branch_target = branch_target(TRUE, t.a, o.immediate, testPc)
  <2>1. c.Jump /\ c.JALR /\ c.Op1Sel = "REG"
    BY <1>7, Decoded, SMT
  <2> QED BY <2>1, <1>1, <1>2, <1>3, <1>4, Zenon
<1> QED
  BY <1>5, <1>6, <1>7, Zenon DEF o

-----------------------------------------------------------------------------
(* The parts put together. *)

\* alu_control.v selects the operation the mnemonic names.
LEMMA Selected ==
  ASSUME NEW m \in ALUMnemonics, NEW f, NEW itype \in BOOLEAN,
         m \in {"sub", "sra"} => Bit(f, 5) = 1, m = "sub" => ~itype,
         m = "add" => ~(Bit(f, 5) = 1) \/ itype, m = "srl" => ~(Bit(f, 5) = 1)
  PROVE  alu_control("funct", funct3Of(m), f, itype) = Operation(m)
<1>1. /\ m \in {"add", "sub"} => funct3Of(m) = 0
      /\ m = "sll" => funct3Of(m) = 1
      /\ m = "slt" => funct3Of(m) = 2
      /\ m = "sltu" => funct3Of(m) = 3
      /\ m = "xor" => funct3Of(m) = 4
      /\ m \in {"srl", "sra"} => funct3Of(m) = 5
      /\ m = "or" => funct3Of(m) = 6
      /\ m = "and" => funct3Of(m) = 7
  BY SMT DEF funct3Of
<1> DEFINE g == funct3Of(m)
<1> HIDE DEF g
<1>2. /\ m = "sub" => sub_alt(f, itype)
      /\ m = "add" => ~sub_alt(f, itype)
      /\ m = "sra" => shift_alt(f)
      /\ m = "srl" => ~shift_alt(f)
  BY Zenon DEF sub_alt, shift_alt
<1>3. /\ g = 0 => alu_control("funct", g, f, itype) = IF sub_alt(f, itype) THEN "SUB" ELSE "ADD"
      /\ g = 1 => alu_control("funct", g, f, itype) = "SLL"
      /\ g = 2 => alu_control("funct", g, f, itype) = "SLT"
      /\ g = 3 => alu_control("funct", g, f, itype) = "SLTU"
      /\ g = 4 => alu_control("funct", g, f, itype) = "XOR"
      /\ g = 5 => alu_control("funct", g, f, itype) = IF shift_alt(f) THEN "SRA" ELSE "SRL"
      /\ g = 6 => alu_control("funct", g, f, itype) = "OR"
      /\ g = 7 => alu_control("funct", g, f, itype) = "AND"
  BY SMT DEF alu_control
<1> QED
  BY <1>1, <1>2, <1>3, SMT DEF g, Operation, ALUMnemonics

\* The outcome of a test meets the ISA.
Right(t) ==
  LET o == datapath(t) IN RightResult(t, o) /\ RightImmediate(t, o) /\ RightNextPc(t, o)

\* What there is to show, by kind of test.
LEMMA RightKinds ==
  ASSUME NEW t
  PROVE  LET o == datapath(t)
         IN /\ t.kind = "alu" =>
                 /\ RightResult(t, o) <=> ALUMeaning(t.mnemonic, t.a, t.b, o.result)
                 /\ RightNextPc(t, o) <=> ~Redirects(o)
            /\ t.kind \in {"load", "store"} =>
                 /\ RightResult(t, o) <=> ALUMeaning("add", t.a, ToWord(t.imm), o.e.alu_result)
                 /\ RightNextPc(t, o) <=> ~Redirects(o)
            /\ t.kind = "branch" =>
                 /\ RightResult(t, o)
                 /\ RightNextPc(t, o) <=>
                      /\ Redirects(o) <=> BranchMeaning(t.mnemonic, t.a, t.b)
                      /\ ALUMeaning("add", testPc, ToWord(t.imm), o.e.branch_target)
            /\ t.kind = "jal" =>
                 /\ RightResult(t, o) <=> o.result = testPc + 4
                 /\ RightNextPc(t, o) <=>
                      /\ Redirects(o)
                      /\ ALUMeaning("add", testPc, ToWord(t.imm), o.e.branch_target)
            /\ t.kind = "jalr" =>
                 /\ RightResult(t, o) <=> o.result = testPc + 4
                 /\ RightNextPc(t, o) <=>
                      /\ Redirects(o) /\ o.e.branch_target % 2 = 0
                      /\ \E word \in {o.e.branch_target, o.e.branch_target + 1} :
                           ALUMeaning("add", t.a, ToWord(t.imm), word)
            /\ t.kind = "lui" =>
                 /\ RightResult(t, o) <=> o.result = shifted(t.imm)
                 /\ RightNextPc(t, o) <=> ~Redirects(o)
            /\ t.kind = "auipc" =>
                 /\ RightResult(t, o) <=> ALUMeaning("add", testPc, shifted(t.imm), o.result)
                 /\ RightNextPc(t, o) <=> ~Redirects(o)
  BY SMT DEF RightResult, RightNextPc, Redirects

\* The inputs of the tests.
LEMMA Inputs ==
  /\ \A a \in Operands : a \in Word
  /\ \A imm \in Immediates : imm \in Int /\ -2048 <= imm /\ imm < 2048
  /\ \A off \in Offsets : off \in Int /\ -4096 <= off /\ off < 4096 /\ off % 2 = 0
  /\ \A imm \in UImmediates : imm \in Nat /\ imm < 1048576
  BY TestAssumption, SMT

\* funct7[5] of the two values of funct7 in the register formats.
LEMMA ShiftBits == Bit(32, 5) = 1 /\ Bit(0, 5) = 0
  BY SMT DEF Bit

\* Register-register operations meet the ISA.
LEMMA RTestsRight == \A t \in RTests : Right(t)
<1> SUFFICES ASSUME NEW m \in ALUMnemonics, NEW a \in Operands, NEW b \in Operands
             PROVE  Right(Test("alu", m, RType("OP", funct3Of(m), altBit(m), 3, 1, 2), a, b, 0))
  BY SMT DEF RTests
<1> DEFINE t == Test("alu", m, RType("OP", funct3Of(m), altBit(m), 3, 1, 2), a, b, 0)
           o == datapath(t)
<1>1. /\ t.kind = "alu" /\ t.mnemonic = m /\ t.a = a /\ t.b = b /\ t.i.opcode = "OP"
      /\ t.i.funct3 = funct3Of(m) /\ t.i.funct7 = altBit(m)
  BY Zenon DEF Test, RType
<1> HIDE DEF t
<1>2. a \in Word /\ b \in Word
  BY Inputs
<1>3. /\ m \in {"sub", "sra"} => Bit(altBit(m), 5) = 1
      /\ m \notin {"sub", "sra"} => ~(Bit(altBit(m), 5) = 1)
  BY ShiftBits, SMT DEF altBit
<1>4. alu_control("funct", funct3Of(m), altBit(m), FALSE) = Operation(m)
  <2>1. m = "add" \/ m = "srl" => m \notin {"sub", "sra"}
    BY SMT
  <2> QED BY <1>3, <2>1, Selected, Zenon
<1>5. ~Redirects(o) /\ o.result = alu(Operation(m), a, b)
  BY <1>1, <1>4, OutcomeAlu, Zenon
<1>6. ALUMeaning(m, a, b, o.result)
  BY <1>2, <1>5, AluMeetsISA, Zenon
<1>7. RightResult(t, o) /\ RightNextPc(t, o)
  BY <1>1, <1>5, <1>6, RightKinds, SMT
<1> QED
  BY <1>1, <1>7, Zenon DEF Right, RightImmediate, t

\* Addresses, targets and upper immediates are sums.
LEMMA Sums ==
  ASSUME NEW a \in Word, NEW b \in Word
  PROVE  alu("ADD", a, b) = ToWord(a + b) /\ ALUMeaning("add", a, b, ToWord(a + b))
<1>1. alu("ADD", a, b) = ToWord(a + b)
  BY SMT DEF alu
<1>2. Operation("add") = "ADD" /\ "add" \in ALUMnemonics
  BY SMT DEF Operation, ALUMnemonics
<1>3. ALUMeaning("add", a, b, alu("ADD", a, b))
  BY <1>2, AluMeetsISA, Zenon
<1> QED
  BY <1>1, <1>3, Zenon

\* The fields of an I-type instruction, and its immediate.
LEMMA IFields ==
  ASSUME NEW op \in {"OP_IMM", "LOAD", "JALR"}, NEW f, NEW rd, NEW rs1,
         NEW imm \in Int, -2048 <= imm, imm < 2048
  PROVE  LET i == IType(op, f, rd, rs1, imm)
         IN /\ i.opcode = op /\ i.funct3 = f /\ i.funct7 = bits(imm, 11, 5)
            /\ immediate_generator(i) = ToWord(imm) /\ ToWord(imm) \in Word
<1> DEFINE i == IType(op, f, rd, rs1, imm)
<1>1. i.opcode = op /\ i.funct3 = f /\ i.funct7 = bits(imm, 11, 5)
  BY SMT DEF IType, RType
<1>2. i_imm(i) = imm
  BY IImmediate, SMT
<1> HIDE DEF i
<1>3. immediate_generator(i) = ToWord(imm)
  BY <1>1, <1>2, SMT DEF immediate_generator
<1> QED
  BY <1>1, <1>3, WordRange, SMT DEF i

\* Register-immediate operations meet the ISA: bit 10 of an immediate selects no SUB.
LEMMA ITestsRight == \A t \in ITests : Right(t)
<1> SUFFICES ASSUME NEW m \in ALUMnemonics \ ({"sub"} \cup shifts), NEW a \in Operands,
                    NEW imm \in Immediates
             PROVE  Right(Test("alu", m, IType("OP_IMM", funct3Of(m), 3, 1, imm), a, ToWord(imm), imm))
  BY SMT DEF ITests
<1> DEFINE t == Test("alu", m, IType("OP_IMM", funct3Of(m), 3, 1, imm), a, ToWord(imm), imm)
           o == datapath(t)
<1>1. /\ t.kind = "alu" /\ t.mnemonic = m /\ t.a = a /\ t.b = ToWord(imm) /\ t.imm = imm
      /\ t.i = IType("OP_IMM", funct3Of(m), 3, 1, imm)
  BY Zenon DEF Test
<1>2. a \in Word /\ imm \in Int /\ -2048 <= imm /\ imm < 2048
  BY Inputs, SMT
<1>3. /\ t.i.opcode = "OP_IMM" /\ t.i.funct3 = funct3Of(m) /\ immediate_generator(t.i) = ToWord(imm)
      /\ ToWord(imm) \in Word
  BY <1>1, <1>2, IFields, SMT
<1> HIDE DEF t
<1>4. m \in ALUMnemonics /\ m \notin {"sub", "sra", "srl"}
  BY Zenon DEF shifts
<1>5. alu_control("funct", funct3Of(m), t.i.funct7, TRUE) = Operation(m)
  BY <1>4, Selected, Zenon
<1>6. o.immediate = ToWord(imm)
  BY <1>3, OutcomeFields, Zenon
<1>7. ~Redirects(o) /\ o.result = alu(Operation(m), a, ToWord(imm))
  BY <1>1, <1>3, <1>5, <1>6, OutcomeAlu, Zenon
<1>8. ALUMeaning(m, a, ToWord(imm), o.result)
  BY <1>2, <1>3, <1>4, <1>7, AluMeetsISA, SMT
<1>9. RightResult(t, o) /\ RightNextPc(t, o)
  BY <1>1, <1>7, <1>8, RightKinds, SMT
<1>10. RightImmediate(t, o)
  BY <1>1, <1>4, <1>6, SMT DEF RightImmediate
<1> QED
  BY <1>9, <1>10, Zenon DEF Right, t

\* A shift takes its amount from the five lowest bits of an operand.
LEMMA ShiftOperand ==
  ASSUME NEW m \in shifts, NEW a, NEW b, NEW c, NEW r, b % 32 = c % 32, ALUMeaning(m, a, b, r)
  PROVE  ALUMeaning(m, a, c, r)
<1> DEFINE left(s)  == \A k \in Positions : Bit(r, k) = IF k < s THEN 0 ELSE Bit(a, k - s)
           right(s) == \A k \in Positions : Bit(r, k) = IF k + s < XLEN THEN Bit(a, k + s) ELSE 0
           arith(s) == \A k \in Positions :
                         Bit(r, k) = IF k + s < XLEN THEN Bit(a, k + s) ELSE SignBit(a)
<1>1. \A x : /\ ALUMeaning("sll", a, x, r) <=> left(x % 32)
             /\ ALUMeaning("srl", a, x, r) <=> right(x % 32)
             /\ ALUMeaning("sra", a, x, r) <=> arith(x % 32)
  BY SMT DEF ALUMeaning
<1> HIDE DEF left, right, arith
<1> QED
  BY <1>1, SMT DEF shifts

\* A word of at least five bits keeps the five lowest.
LEMMA LowBits ==
  ASSUME NEW n \in Int
  PROVE  ToWord(n) % 32 = n % 32
<1> DEFINE k == 5  q == 32  w == power(XLEN)  p == power(XLEN - k)
           r == ToWord(n)  d == n \div w
<1>1. k \in 0..XLEN /\ XLEN \in 0..XLEN /\ XLEN - k \in 0..XLEN
  BY TestWidthAssumption, SMT
<1>2. power(k) = q /\ q \in Nat \ {0} /\ w \in Nat \ {0}
  BY WordRange, SMT DEF power
<1>3. w = p * q /\ p \in Nat
  <2> HIDE DEF k, q
  <2>1. \A i \in 0..XLEN : \A j \in 0..i : power(i) = power(i - j) * power(j)
    BY PowerSum, Zenon DEF power
  <2>2. w = p * power(k)
    BY <1>1, <2>1, SMT
  <2>3. p \in Nat
    BY <1>1, PowerPositive, SMT DEF power
  <2> QED BY <1>2, <2>2, <2>3
<1>4. r = n % w
  BY DEF ToWord, power
<1> HIDE DEF w, p, k, q, r
<1>5. n = w * d + r /\ r \in Int /\ d \in Int
  BY <1>2, <1>4, DivMod, SMT
<1> HIDE DEF d
<1>6. n = r + (d * p) * q /\ d * p \in Int
  BY <1>2, <1>3, <1>5, SMT
<1> DEFINE e == d * p
<1>7. e \in Int /\ n = r + e * q
  BY <1>6
<1> HIDE DEF e
<1>8. (r + e * q) % q = r % q
  BY <1>2, <1>5, <1>7, ModMultiple, Zenon
<1>9. n % q = r % q
  BY <1>7, <1>8, Zenon
<1> QED
  BY <1>9, Zenon DEF q, r

\* Shifts by an immediate meet the ISA: funct7[5] is no part of the amount.
LEMMA ShiftTestsRight == \A t \in ShiftTests : Right(t)
<1> SUFFICES ASSUME NEW m \in shifts, NEW a \in Operands, NEW sh \in 0..31 \cap Word
             PROVE  Right(Test("alu", m, IType("OP_IMM", funct3Of(m), 3, 1, altBit(m) * 2^5 + sh),
                               a, sh, sh))
  BY SMT DEF ShiftTests
<1> DEFINE imm == altBit(m) * 2^5 + sh
           t == Test("alu", m, IType("OP_IMM", funct3Of(m), 3, 1, imm), a, sh, sh)
           o == datapath(t)
<1>1. /\ t.kind = "alu" /\ t.mnemonic = m /\ t.a = a /\ t.b = sh /\ t.imm = sh
      /\ t.i = IType("OP_IMM", funct3Of(m), 3, 1, imm)
  BY Zenon DEF Test
<1>2. /\ imm \in Int /\ -2048 <= imm /\ imm < 2048
      /\ imm = IF m = "sra" THEN sh + 1024 ELSE sh
  BY SMT DEF altBit, shifts
<1>3. a \in Word /\ m \in ALUMnemonics /\ (m = "sll" \/ m = "srl" \/ m = "sra")
  BY Inputs, SMT DEF shifts, ALUMnemonics
<1>4. bits(imm, 11, 5) = (IF m = "sra" THEN 32 ELSE 0) /\ imm % 32 = sh /\ sh % 32 = sh
  <2>1. sh \in Int /\ 0 <= sh /\ sh < 32
    OBVIOUS
  <2>2. ((sh + 1024) \div 32) % 128 = 32 /\ (sh + 1024) % 32 = sh
    BY <2>1, SMT
  <2>3. (sh \div 32) % 128 = 0 /\ sh % 32 = sh
    BY <2>1, SMT
  <2>4. bits(imm, 11, 5) = (imm \div 32) % 128
    BY SMT DEF bits
  <2> HIDE DEF imm
  <2> QED BY <1>2, <2>2, <2>3, <2>4, SMT
<1> HIDE DEF imm
<1>5. /\ t.i.opcode = "OP_IMM" /\ t.i.funct3 = funct3Of(m) /\ t.i.funct7 = bits(imm, 11, 5)
      /\ immediate_generator(t.i) = ToWord(imm) /\ ToWord(imm) \in Word
  BY <1>1, <1>2, IFields, SMT
<1> HIDE DEF t
<1>6. alu_control("funct", funct3Of(m), t.i.funct7, TRUE) = Operation(m)
  <2>1. /\ m = "sra" => Bit(t.i.funct7, 5) = 1
        /\ m = "srl" => ~(Bit(t.i.funct7, 5) = 1)
        /\ ~(m = "sub") /\ ~(m = "add")
    BY <1>3, <1>4, <1>5, ShiftBits, SMT
  <2> HIDE DEF t
  <2> QED BY <1>3, <2>1, Selected, Zenon
<1>7. o.immediate = ToWord(imm)
  BY <1>5, OutcomeFields, Zenon
<1>8. ~Redirects(o) /\ o.result = alu(Operation(m), a, ToWord(imm))
  BY <1>1, <1>5, <1>6, <1>7, OutcomeAlu, Zenon
<1>9. ALUMeaning(m, a, ToWord(imm), o.result)
  BY <1>3, <1>5, <1>8, AluMeetsISA, SMT
<1>10. ToWord(imm) % 32 = sh % 32
  BY <1>2, <1>4, LowBits, SMT
<1>11. ALUMeaning(m, a, sh, o.result)
  BY <1>9, <1>10, ShiftOperand, SMT
<1>12. RightResult(t, o) /\ RightNextPc(t, o)
  BY <1>1, <1>8, <1>11, RightKinds, SMT
<1>13. RightImmediate(t, o)
  BY <1>1, <1>2, <1>3, <1>7, SMT DEF RightImmediate
<1> QED
  BY <1>12, <1>13, SMT DEF Right, t, imm

\* A load accesses the address the ISA defines.
LEMMA LoadTestsRight ==
  ASSUME NEW a \in Operands, NEW imm \in Immediates
  PROVE  Right(Test("load", "lw", lw(3, imm, 1), a, 0, imm))
<1> DEFINE t == Test("load", "lw", lw(3, imm, 1), a, 0, imm)  o == datapath(t)
<1>1. /\ t.kind = "load" /\ t.mnemonic = "lw" /\ t.a = a /\ t.imm = imm
      /\ t.i = IType("LOAD", 2, 3, 1, imm)
  BY Zenon DEF Test, lw
<1>2. a \in Word /\ imm \in Int /\ -2048 <= imm /\ imm < 2048
  BY Inputs, SMT
<1>3. t.i.opcode = "LOAD" /\ immediate_generator(t.i) = ToWord(imm) /\ ToWord(imm) \in Word
  BY <1>1, <1>2, IFields, SMT
<1> HIDE DEF t
<1>4. o.immediate = ToWord(imm)
  BY <1>3, OutcomeFields, Zenon
<1>5. ~Redirects(o) /\ o.e.alu_result = alu("ADD", a, ToWord(imm))
  BY <1>1, <1>3, <1>4, OutcomeAlu, Zenon
<1>6. ALUMeaning("add", a, ToWord(imm), o.e.alu_result)
  BY <1>2, <1>3, <1>5, Sums, SMT
<1>7. RightResult(t, o) /\ RightNextPc(t, o)
  BY <1>1, <1>5, <1>6, RightKinds, SMT
<1>8. RightImmediate(t, o)
  BY <1>1, <1>3, <1>4, SMT DEF RightImmediate
<1> QED
  BY <1>7, <1>8, SMT DEF Right, t

\* So does a store.
LEMMA StoreTestsRight ==
  ASSUME NEW a \in Operands, NEW b \in Operands, NEW imm \in Immediates
  PROVE  Right(Test("store", "sw", sw(2, imm, 1), a, b, imm))
<1> DEFINE t == Test("store", "sw", sw(2, imm, 1), a, b, imm)  o == datapath(t)
<1>1. /\ t.kind = "store" /\ t.mnemonic = "sw" /\ t.a = a /\ t.imm = imm
      /\ t.i = SType("STORE", 2, 1, 2, imm)
  BY Zenon DEF Test, sw
<1>2. a \in Word /\ imm \in Int /\ -2048 <= imm /\ imm < 2048
  BY Inputs, SMT
<1>3. t.i.opcode = "STORE" /\ s_imm(t.i) = imm
  BY <1>1, <1>2, SImmediate, SMT DEF SType, RType
<1> HIDE DEF t
<1>4. immediate_generator(t.i) = ToWord(imm) /\ ToWord(imm) \in Word
  BY <1>2, <1>3, WordRange, SMT DEF immediate_generator
<1>5. o.immediate = ToWord(imm)
  BY <1>4, OutcomeFields, Zenon
<1>6. ~Redirects(o) /\ o.e.alu_result = alu("ADD", a, ToWord(imm))
  BY <1>1, <1>3, <1>5, OutcomeAlu, Zenon
<1>7. ALUMeaning("add", a, ToWord(imm), o.e.alu_result)
  BY <1>2, <1>4, <1>6, Sums, SMT
<1>8. RightResult(t, o) /\ RightNextPc(t, o)
  BY <1>1, <1>6, <1>7, RightKinds, SMT
<1>9. RightImmediate(t, o)
  BY <1>1, <1>3, <1>5, SMT DEF RightImmediate
<1> QED
  BY <1>8, <1>9, SMT DEF Right, t

\* Loads and stores together.
LEMMA AddressTestsRight == \A t \in AddressTests : Right(t)
  BY LoadTestsRight, StoreTestsRight, SMT DEF AddressTests

\* The instruction's address and the next are words.
LEMMA Addresses == testPc \in Word /\ ToWord(testPc + 4) = testPc + 4 /\ 0 \in Word
<1> DEFINE n == XLEN - 5
<1>1. XLEN \in Nat /\ n \in 0..XLEN /\ power(5) = 32
  BY TestWidthAssumption, SMT DEF power
<1>2. power(XLEN) = power(n) * power(5)
  <2> DEFINE k == 5
  <2>1. k \in 0..XLEN /\ XLEN \in 0..XLEN /\ n = XLEN - k
    BY TestWidthAssumption, SMT
  <2> HIDE DEF k, n
  <2>2. \A i \in 0..XLEN : \A j \in 0..i : power(i) = power(i - j) * power(j)
    BY PowerSum, Zenon DEF power
  <2>3. power(XLEN) = power(n) * power(k)
    BY <2>1, <2>2, SMT
  <2> QED BY <2>3 DEF k
<1>3. power(n) \in Nat \ {0}
  BY <1>1, PowerPositive, SMT DEF power
<1> DEFINE w == power(XLEN)  p == power(n)
<1>4. w = p * 32 /\ p \in Nat \ {0}
  BY <1>1, <1>2, <1>3, SMT
<1>5. Word = 0..(w - 1) /\ ToWord(testPc + 4) = (testPc + 4) % w
  BY Zenon DEF Word, ToWord, power
<1> HIDE DEF w, p
<1> QED
  BY <1>4, <1>5, SMT DEF testPc

\* Branches are taken when the ISA says so, to where it says.
LEMMA BranchTestsRight == \A t \in BranchTests : Right(t)
<1> SUFFICES ASSUME NEW m \in BranchMnemonics, NEW a \in Operands, NEW b \in Operands,
                    NEW off \in Offsets
             PROVE  Right(Test("branch", m, BType("BRANCH", funct3Of(m), 1, 2, off), a, b, off))
  BY SMT DEF BranchTests
<1> DEFINE t == Test("branch", m, BType("BRANCH", funct3Of(m), 1, 2, off), a, b, off)
           o == datapath(t)
<1>1. /\ t.kind = "branch" /\ t.mnemonic = m /\ t.a = a /\ t.b = b /\ t.imm = off
      /\ t.i = BType("BRANCH", funct3Of(m), 1, 2, off)
  BY Zenon DEF Test
<1>2. a \in Word /\ b \in Word /\ off \in Int /\ -4096 <= off /\ off < 4096 /\ off % 2 = 0
  BY Inputs, SMT
<1>3. b_imm(t.i) = off
  BY <1>1, <1>2, BImmediate, SMT
<1>4. t.i.opcode = "BRANCH" /\ t.i.funct3 = funct3Of(m)
  BY <1>1, SMT DEF BType, RType
<1> HIDE DEF t
<1>5. immediate_generator(t.i) = ToWord(off) /\ ToWord(off) \in Word
  BY <1>2, <1>3, <1>4, WordRange, SMT DEF immediate_generator
<1>6. o.immediate = ToWord(off)
  BY <1>5, OutcomeFields, Zenon
<1>7. /\ Redirects(o) <=> branch_comparator(a, b, funct3Of(m))
      /\ o.e.branch_target = branch_target(FALSE, a, ToWord(off), testPc)
  BY <1>1, <1>4, <1>6, OutcomeTransfer, Zenon
<1>8. o.e.branch_target = ToWord(testPc + ToWord(off))
  BY <1>7, Zenon DEF branch_target
<1>9. ALUMeaning("add", testPc, ToWord(off), o.e.branch_target)
  BY <1>5, <1>8, Addresses, Sums, Zenon
<1>10. Redirects(o) <=> BranchMeaning(m, a, b)
  BY <1>2, <1>7, ComparatorMeetsISA, SMT
<1>11. RightResult(t, o) /\ RightNextPc(t, o)
  BY <1>1, <1>9, <1>10, RightKinds, SMT
<1>12. RightImmediate(t, o)
  <2>1. m # "sra"
    BY SMT DEF BranchMnemonics
  <2> QED BY <1>1, <1>6, <2>1, SMT DEF RightImmediate
<1> QED
  BY <1>11, <1>12, SMT DEF Right, t

\* JAL links and jumps.
LEMMA JalTestsRight ==
  ASSUME NEW off \in Offsets
  PROVE  Right(Test("jal", "jal", jal(1, off), 0, 0, off))
<1> DEFINE t == Test("jal", "jal", jal(1, off), 0, 0, off)  o == datapath(t)
<1>1. /\ t.kind = "jal" /\ t.mnemonic = "jal" /\ t.a = 0 /\ t.imm = off
      /\ t.i = JType("JAL", 1, off)
  BY Zenon DEF Test, jal
<1>2. off \in Int /\ -4096 <= off /\ off < 4096 /\ off % 2 = 0
  BY Inputs, SMT
<1>3. j_imm(t.i) = off
  BY <1>1, <1>2, JImmediate, SMT
<1>4. t.i.opcode = "JAL"
  BY <1>1, SMT DEF JType, RType
<1> HIDE DEF t
<1>5. immediate_generator(t.i) = ToWord(off) /\ ToWord(off) \in Word
  BY <1>2, <1>3, <1>4, WordRange, SMT DEF immediate_generator
<1>6. o.immediate = ToWord(off)
  BY <1>5, OutcomeFields, Zenon
<1>7. /\ Redirects(o) /\ o.result = ToWord(testPc + 4)
      /\ o.e.branch_target = branch_target(FALSE, 0, ToWord(off), testPc)
  BY <1>1, <1>4, <1>6, OutcomeTransfer, Zenon
<1>8. o.e.branch_target = ToWord(testPc + ToWord(off))
  BY <1>7, Zenon DEF branch_target
<1>9. ALUMeaning("add", testPc, ToWord(off), o.e.branch_target)
  BY <1>5, <1>8, Addresses, Sums, Zenon
<1>10. RightResult(t, o) /\ RightNextPc(t, o)
  <2>1. Redirects(o) /\ o.result = testPc + 4
    BY <1>7, Addresses, Zenon
  <2> QED BY <1>1, <1>9, <2>1, RightKinds, Zenon
<1>11. RightImmediate(t, o)
  BY <1>1, <1>6, SMT DEF RightImmediate
<1> QED
  BY <1>10, <1>11, SMT DEF Right, t

\* JALR links, and jumps to an even address.
LEMMA JalrTestsRight ==
  ASSUME NEW a \in Operands, NEW imm \in Immediates
  PROVE  Right(Test("jalr", "jalr", jalr(1, imm, 1), a, 0, imm))
<1> DEFINE t == Test("jalr", "jalr", jalr(1, imm, 1), a, 0, imm)  o == datapath(t)
           s == ToWord(a + ToWord(imm))
<1>1. /\ t.kind = "jalr" /\ t.mnemonic = "jalr" /\ t.a = a /\ t.imm = imm
      /\ t.i = IType("JALR", 0, 1, 1, imm)
  BY Zenon DEF Test, jalr
<1>2. a \in Word /\ imm \in Int /\ -2048 <= imm /\ imm < 2048
  BY Inputs, SMT
<1>3. t.i.opcode = "JALR" /\ immediate_generator(t.i) = ToWord(imm) /\ ToWord(imm) \in Word
  BY <1>1, <1>2, IFields, SMT
<1> HIDE DEF t
<1>4. o.immediate = ToWord(imm)
  BY <1>3, OutcomeFields, Zenon
<1>5. /\ Redirects(o) /\ o.result = ToWord(testPc + 4)
      /\ o.e.branch_target = branch_target(TRUE, a, ToWord(imm), testPc)
  BY <1>1, <1>3, <1>4, OutcomeTransfer, Zenon
<1>6. o.e.branch_target = s - (s % 2)
  BY <1>5, Zenon DEF branch_target
<1>7. ALUMeaning("add", a, ToWord(imm), s) /\ s \in Nat
  <2>1. a + ToWord(imm) \in Int
    BY <1>2, <1>3, WordRange, SMT DEF Word
  <2>2. s \in Word
    BY <2>1, WordRange, Zenon
  <2>3. s \in Nat
    <3> HIDE DEF s
    <3> QED BY <2>2, WordRange, SMT DEF Word
  <2> QED BY <1>2, <1>3, <2>3, Sums, SMT
<1> HIDE DEF s
<1>8. /\ (s - (s % 2)) % 2 = 0
      /\ s = s - (s % 2) \/ s = (s - (s % 2)) + 1
  BY <1>7, SMT
<1>9. RightResult(t, o)
  <2>1. o.result = testPc + 4
    BY <1>5, Addresses, Zenon
  <2> QED BY <1>1, <2>1, RightKinds, Zenon
<1>10. RightNextPc(t, o)
  <2>1. o.e.branch_target % 2 = 0
    BY <1>6, <1>8, Zenon
  <2>2. \E word \in {o.e.branch_target, o.e.branch_target + 1} :
          ALUMeaning("add", t.a, ToWord(t.imm), word)
    BY <1>1, <1>6, <1>7, <1>8, Zenon
  <2> QED BY <1>1, <1>5, <2>1, <2>2, RightKinds, Zenon
<1>11. RightImmediate(t, o)
  BY <1>1, <1>4, SMT DEF RightImmediate
<1> QED
  BY <1>9, <1>10, <1>11, SMT DEF Right, t

\* Jumps together.
LEMMA JumpTestsRight == \A t \in JumpTests : Right(t)
  BY JalTestsRight, JalrTestsRight, SMT DEF JumpTests

\* LUI and AUIPC put their immediate in the upper bits.
LEMMA UpperTestRight ==
  ASSUME NEW kind \in {"lui", "auipc"}, NEW op, op = (IF kind = "lui" THEN "LUI" ELSE "AUIPC"),
         NEW a \in Operands, NEW imm \in UImmediates
  PROVE  Right(Test(kind, kind, UType(op, 3, imm), a, 0, imm))
<1> DEFINE t == Test(kind, kind, UType(op, 3, imm), a, 0, imm)  o == datapath(t)
<1>1. /\ t.kind = kind /\ t.mnemonic = kind /\ t.a = a /\ t.imm = imm
      /\ t.i = UType(op, 3, imm)
  BY Zenon DEF Test
<1>2. imm \in Nat /\ imm < 1048576
  BY Inputs, SMT
<1>3. ToWord(u_imm(t.i)) = shifted(imm)
  BY <1>1, <1>2, UpperImmediate, SMT
<1>4. t.i.opcode = op
  BY <1>1, SMT DEF UType, RType
<1>5. shifted(imm) \in Word
  <2>1. u_imm(t.i) \in Int
    BY <1>1, <1>2, UImmediate, SMT
  <2> QED BY <1>3, <2>1, WordRange, SMT
<1> HIDE DEF t
<1>6. immediate_generator(t.i) = shifted(imm)
  BY <1>3, <1>4, SMT DEF immediate_generator
<1>7. o.immediate = shifted(imm)
  BY <1>6, OutcomeFields, Zenon
<1>8. RightImmediate(t, o)
  BY <1>1, <1>7, SMT DEF RightImmediate
<1>9. CASE kind = "lui"
  <2>1. ~Redirects(o) /\ o.result = alu("ADD", 0, shifted(imm))
    BY <1>1, <1>4, <1>7, <1>9, OutcomeAlu, Zenon
  <2>2. alu("ADD", 0, shifted(imm)) = ToWord(0 + shifted(imm))
    BY <1>5, Addresses, Sums, SMT
  <2>3. ToWord(0 + shifted(imm)) = shifted(imm)
    <3> DEFINE x == shifted(imm)  w == 2^XLEN
    <3>1. x \in 0..(w - 1) /\ w \in Nat
      BY <1>5, WordRange, SMT DEF Word
    <3> HIDE DEF x, w
    <3>2. (0 + x) % w = x
      BY <3>1, SMT
    <3> QED BY <3>2, SMT DEF ToWord, x, w
  <2>4. RightResult(t, o) /\ RightNextPc(t, o)
    BY <1>1, <1>9, <2>1, <2>2, <2>3, RightKinds, SMT
  <2> QED BY <1>8, <2>4, SMT DEF Right, t
<1>10. CASE kind = "auipc"
  <2>1. ~Redirects(o) /\ o.result = alu("ADD", testPc, shifted(imm))
    BY <1>1, <1>4, <1>7, <1>10, OutcomeAlu, Zenon
  <2>2. ALUMeaning("add", testPc, shifted(imm), o.result)
    BY <1>5, <2>1, Addresses, Sums, SMT
  <2>3. RightResult(t, o) /\ RightNextPc(t, o)
    BY <1>1, <1>10, <2>1, <2>2, RightKinds, SMT
  <2> QED BY <1>8, <2>3, SMT DEF Right, t
<1> QED
  BY <1>9, <1>10

\* Both together.
LEMMA UpperTestsRight == \A t \in UpperTests : Right(t)
<1>1. ASSUME NEW a \in Operands, NEW imm \in UImmediates
      PROVE  /\ Right(Test("lui", "lui", lui(3, imm), a, 0, imm))
             /\ Right(Test("auipc", "auipc", auipc(3, imm), a, 0, imm))
  BY UpperTestRight, SMT DEF lui, auipc
<1> QED
  BY <1>1, SMT DEF UpperTests

\* The instructions under test.
Tests == RTests \cup ITests \cup ShiftTests \cup AddressTests \cup BranchTests \cup JumpTests
           \cup UpperTests

\* Every instruction under test.
LEMMA TestsRight == \A t \in Tests : Right(t)
  BY RTestsRight, ITestsRight, ShiftTestsRight, AddressTestsRight, BranchTestsRight,
     JumpTestsRight, UpperTestsRight, Zenon DEF Tests

\* The inductive invariant.
TestIInv == test \in Tests /\ outcomes \subseteq {datapath(test)}

\* It is one: an outcome is what the datapath does with the
\* instruction under test.
LEMMA TestInductive == Spec => []TestIInv
<1>1. Init => TestIInv
  BY Zenon DEF Init, TestIInv, Tests
<1>2. TestIInv /\ [Next]_vars => TestIInv'
  <2> SUFFICES ASSUME TestIInv, [Next]_vars PROVE TestIInv'
    OBVIOUS
  <2>1. test' = test
    BY Zenon DEF Next, Evaluate, vars
  <2>2. datapath(test)' = datapath(test)
    BY <2>1, Zenon DEF datapath, testPc
  <2>3. outcomes' \subseteq {datapath(test)}
    BY Zenon DEF TestIInv, Next, Evaluate, vars
  <2> QED BY <2>1, <2>2, <2>3, Zenon DEF TestIInv
<1> QED
  BY <1>1, <1>2, PTL DEF Spec

\* alu.v, alu_control.v, control_unit.v and immediate_generator.v: at every
\* width from 5 to 32 bits, for all operands and immediates, an instruction
\* computes what the ISA defines, bit by bit, from the immediate it encodes.
THEOREM DatapathResults == Spec => []ResultMeetsISA
<1>1. TestIInv => ResultMeetsISA
  BY TestsRight, Zenon DEF TestIInv, ResultMeetsISA, Right
<1> QED
  BY <1>1, TestInductive, PTL

\* branch_comparator.v and ex_stage.v: so is the address of the next
\* instruction, branches taken or not, jumps, and the even target of JALR.
THEOREM DatapathNextPc == Spec => []NextPcMeetsISA
<1>1. TestIInv => NextPcMeetsISA
  BY TestsRight, Zenon DEF TestIInv, NextPcMeetsISA, Right
<1> QED
  BY <1>1, TestInductive, PTL

=============================================================================
