--------------------------- MODULE DatapathProofs ---------------------------
(***************************************************************************)
(* The datapath at every width: what each block computes from words is a   *)
(* word.  Powers of two and the bitwise gates are defined by recursion;    *)
(* what is said of them is proved by taking a least counterexample.        *)
(***************************************************************************)
EXTENDS Datapath, TLAPS, WellFoundedInduction

\* Every set of naturals has a least element: induction without an operator
\* parameter.
LEMMA LeastNatural ==
  ASSUME NEW T, T \subseteq Nat, T # {}
  PROVE  \E x \in T : \A y \in T : x <= y
<1>1. IsWellFoundedOn({ss \in Nat \X Nat : ss[1] < ss[2]}, Nat)
  BY NatLessThanWellFounded, Zenon DEF OpToRel
<1>2. PICK x \in T : \A y \in T : ~(<<y, x>> \in {ss \in Nat \X Nat : ss[1] < ss[2]})
  BY <1>1, WFMin
<1>3. ASSUME NEW y \in T PROVE x <= y
  <2>1. ~(<<y, x>> \in {ss \in Nat \X Nat : ss[1] < ss[2]})
    BY <1>2
  <2>2. <<y, x>> \in Nat \X Nat /\ <<y, x>>[1] = y /\ <<y, x>>[2] = x
    OBVIOUS
  <2>3. ~(y < x)
    BY <2>1, <2>2
  <2> QED
    BY <2>3
<1> QED
  BY <1>3

\* A set of naturals that holds 0 and with n also n + 1, up to a bound, holds
\* everything up to the bound.
LEMMA UpTo ==
  ASSUME NEW m \in Nat, NEW S, 0 \in S, \A n \in 0..(m - 1) : n \in S => n + 1 \in S
  PROVE  0..m \subseteq S
<1> DEFINE T == (0..m) \ S
<1> SUFFICES ASSUME T # {} PROVE FALSE
  OBVIOUS
<1>1. PICK x \in T : \A y \in T : x <= y
  <2>1. T \subseteq Nat
    OBVIOUS
  <2> HIDE DEF T
  <2> QED
    BY <2>1, LeastNatural
<1>2. x - 1 \in 0..(m - 1) /\ x - 1 \in S
  BY <1>1
<1> QED
  BY <1>1, <1>2

-----------------------------------------------------------------------------
(* Powers of two. *)

\* The powers of two up to the width are positive.
LEMMA PowerPositive == \A n \in 0..XLEN : 2^n \in Nat \ {0}
<1> DEFINE S == {n \in 0..XLEN : 2^n \in Nat \ {0}}
<1>1. 0 \in S
  BY WidthAssumption
<1>2. ASSUME NEW n \in 0..(XLEN - 1), n \in S PROVE n + 1 \in S
  BY <1>2, WidthAssumption
<1>3. 0..XLEN \subseteq S
  <2> HIDE DEF S
  <2> QED BY <1>1, <1>2, UpTo, WidthAssumption
<1> QED
  BY <1>3

\* Splitting a word at bit n: 2^n values below it, 2^(XLEN - n) above.
LEMMA PowerSplit == \A n \in 0..XLEN : 2^(XLEN - n) * 2^n = 2^XLEN
<1> DEFINE S == {n \in 0..XLEN : 2^(XLEN - n) * 2^n = 2^XLEN}
<1>1. 0 \in S
  BY WidthAssumption, PowerPositive
<1>2. ASSUME NEW n \in 0..(XLEN - 1), n \in S PROVE n + 1 \in S
  <2> DEFINE low == 2^n  high == 2^(XLEN - (n + 1))  top == 2^(XLEN - n)  all == 2^XLEN
             low2 == 2^(n + 1)
  <2>1. low \in Nat /\ high \in Nat /\ top \in Nat
    BY WidthAssumption, PowerPositive
  <2>2. low2 = 2 * low
    BY WidthAssumption
  <2>3. top = 2 * high
    <3>1. XLEN - (n + 1) \in 0..(XLEN - 1) /\ (XLEN - (n + 1)) + 1 = XLEN - n
      BY WidthAssumption
    <3> QED BY <3>1, WidthAssumption
  <2>4. top * low = all
    BY <1>2
  <2>5. high * low2 = all
    <3> HIDE DEF low, high, top, all, low2
    <3>1. high * (2 * low) = (2 * high) * low
      BY <2>1
    <3> QED BY <2>1, <2>2, <2>3, <2>4, <3>1
  <2> QED
    BY <2>5, WidthAssumption
<1>3. 0..XLEN \subseteq S
  <2> HIDE DEF S
  <2> QED BY <1>1, <1>2, UpTo, WidthAssumption
<1> QED
  BY <1>3

-----------------------------------------------------------------------------
(* Words and bits. *)

\* 2^XLEN is a positive number, and reduction modulo it gives a word.
LEMMA WordRange ==
  /\ 2^XLEN \in Nat \ {0} /\ 0 \in Word
  /\ \A n \in Int : ToWord(n) \in Word
<1>1. 2^XLEN \in Nat \ {0}
  BY PowerPositive, WidthAssumption
<1> QED
  BY <1>1 DEF Word, ToWord

\* A bit of a word is 0 or 1.
LEMMA BitType == \A a \in Nat, n \in 0..XLEN : Bit(a, n) \in {0, 1}
<1> SUFFICES ASSUME NEW a \in Nat, NEW n \in 0..XLEN PROVE Bit(a, n) \in {0, 1}
  OBVIOUS
<1> DEFINE p == 2^n
<1>1. p \in Nat \ {0}
  BY PowerPositive
<1>2. a \div p \in Nat
  <2> HIDE DEF p
  <2> QED BY <1>1
<1> QED
  BY <1>2 DEF Bit

\* The prefixes BitMap adds up: what its recursive definition says.
Prefixes(gate, a, b, word, m) ==
  word = [n \in 0..m |->
            IF n = 0 THEN 0
            ELSE word[n - 1] + gate[Bit(a, n - 1)][Bit(b, n - 1)] * 2^(n - 1)]

\* The recursion of BitMap has a solution.
LEMMA PrefixesExist ==
  ASSUME NEW gate, NEW a, NEW b, NEW m \in Nat
  PROVE  \E word : Prefixes(gate, a, b, word, m)
<1> DEFINE S == {n \in 0..m : \E word : Prefixes(gate, a, b, word, n)}
           g(n) == gate[Bit(a, n - 1)][Bit(b, n - 1)] * 2^(n - 1)
<1>1. 0 \in S
  <2>1. Prefixes(gate, a, b, [n \in 0..0 |-> 0], 0)
    BY DEF Prefixes
  <2> QED
    BY <2>1
<1>2. ASSUME NEW n \in 0..(m - 1), n \in S PROVE n + 1 \in S
  <2>1. PICK word : Prefixes(gate, a, b, word, n)
    BY <1>2
  <2> DEFINE more == [k \in 0..(n + 1) |-> IF k = n + 1 THEN word[n] + g(n + 1) ELSE word[k]]
  <2>2. word = [k \in 0..n |-> IF k = 0 THEN 0 ELSE word[k - 1] + g(k)]
    BY <2>1 DEF Prefixes
  <2> HIDE DEF g
  <2>3. more = [k \in 0..(n + 1) |-> IF k = 0 THEN 0 ELSE more[k - 1] + g(k)]
    <3>1. ASSUME NEW k \in 0..(n + 1), k = 0 PROVE more[k] = 0
      BY <2>2, <3>1
    <3>2. ASSUME NEW k \in 1..n PROVE more[k] = more[k - 1] + g(k)
      BY <2>2, <3>2
    <3>3. more[n + 1] = more[(n + 1) - 1] + g(n + 1)
      OBVIOUS
    <3>4. ASSUME NEW k \in 0..(n + 1)
          PROVE  more[k] = IF k = 0 THEN 0 ELSE more[k - 1] + g(k)
      <4>1. k = 0 \/ k \in 1..n \/ k = n + 1
        OBVIOUS
      <4> HIDE DEF more
      <4> QED BY <3>1, <3>2, <3>3, <4>1
    <3>5. more = [k \in 0..(n + 1) |-> more[k]]
      OBVIOUS
    <3> HIDE DEF more
    <3> QED BY <3>4, <3>5
  <2>4. Prefixes(gate, a, b, more, n + 1)
    <3> HIDE DEF more
    <3> QED BY <2>3 DEF Prefixes, g
  <2> QED
    BY <2>4
<1>3. 0..m \subseteq S
  <2> HIDE DEF S
  <2> QED BY <1>1, <1>2, UpTo
<1> QED
  BY <1>3

\* BitMap is the last of the prefixes.
LEMMA BitMapPrefixes ==
  ASSUME NEW gate, NEW a, NEW b
  PROVE  \E word : /\ word[0] = 0
                   /\ \A n \in 1..XLEN : word[n] = word[n - 1]
                         + gate[Bit(a, n - 1)][Bit(b, n - 1)] * 2^(n - 1)
                   /\ BitMap(gate, a, b) = word[XLEN]
<1> DEFINE body(word) == [n \in 0..XLEN |->
             IF n = 0 THEN 0
             ELSE word[n - 1] + gate[Bit(a, n - 1)][Bit(b, n - 1)] * 2^(n - 1)]
           w == CHOOSE word : word = body(word)
<1>1. \E word : word = body(word)
  <2>1. XLEN \in Nat
    BY WidthAssumption
  <2>2. \E word : Prefixes(gate, a, b, word, XLEN)
    BY <2>1, PrefixesExist
  <2> QED
    BY <2>2 DEF Prefixes
<1>2. w = body(w)
  <2> HIDE DEF body
  <2> QED BY <1>1
<1>3. BitMap(gate, a, b) = w[XLEN]
  BY DEF BitMap
<1>4. w[0] = 0
  <2> HIDE DEF w
  <2> QED BY <1>2, WidthAssumption
<1>5. \A n \in 1..XLEN : w[n] = w[n - 1] + gate[Bit(a, n - 1)][Bit(b, n - 1)] * 2^(n - 1)
  <2> HIDE DEF w
  <2> QED BY <1>2, WidthAssumption
<1> HIDE DEF w
<1> QED
  BY <1>3, <1>4, <1>5

Gates == [{0, 1} -> [{0, 1} -> {0, 1}]]

\* A gate applied to every pair of bits of two words gives a word.
LEMMA BitMapType ==
  ASSUME NEW gate \in Gates, NEW a \in Word, NEW b \in Word
  PROVE  BitMap(gate, a, b) \in Word
<1>1. PICK word : /\ word[0] = 0
                  /\ \A n \in 1..XLEN : word[n] = word[n - 1]
                        + gate[Bit(a, n - 1)][Bit(b, n - 1)] * 2^(n - 1)
                  /\ BitMap(gate, a, b) = word[XLEN]
  BY BitMapPrefixes
<1> DEFINE S == {n \in 0..XLEN : word[n] \in 0..(2^n - 1)}
<1>2. 0 \in S
  BY <1>1, WidthAssumption
<1>3. ASSUME NEW n \in 0..(XLEN - 1), n \in S PROVE n + 1 \in S
  <2> DEFINE p == 2^n  q == 2^(n + 1)  bit == gate[Bit(a, n)][Bit(b, n)]
  <2>1. n \in 0..XLEN /\ n + 1 \in 1..XLEN /\ (n + 1) - 1 = n
    BY WidthAssumption
  <2>2. p \in Nat \ {0} /\ q = 2 * p
    BY <2>1, PowerPositive, WidthAssumption
  <2>3. bit \in {0, 1}
    <3>1. a \in Nat /\ b \in Nat
      BY WordRange DEF Word
    <3>2. Bit(a, n) \in {0, 1} /\ Bit(b, n) \in {0, 1}
      BY <2>1, <3>1, BitType
    <3> QED BY <3>2 DEF Gates
  <2>4. word[n + 1] = word[n] + bit * p
    BY <1>1, <2>1
  <2>5. word[n] \in 0..(p - 1)
    BY <1>3
  <2>6. word[n + 1] \in 0..(q - 1)
    <3> HIDE DEF p, q, bit
    <3> QED BY <2>2, <2>3, <2>4, <2>5
  <2> QED
    BY <2>1, <2>6
<1>4. 0..XLEN \subseteq S
  <2> HIDE DEF S
  <2> QED BY <1>2, <1>3, UpTo, WidthAssumption
<1>5. XLEN \in S
  BY <1>4, WidthAssumption
<1> QED
  BY <1>1, <1>5 DEF Word

\* The three gates of the ALU.
LEMMA GateTypes == AndGate \in Gates /\ OrGate \in Gates /\ XorGate \in Gates
  BY DEF AndGate, OrGate, XorGate, Gates

-----------------------------------------------------------------------------
(* The blocks. *)

\* A shift by at most the width.
LEMMA ShiftAmount ==
  ASSUME NEW b \in Word
  PROVE  Min({b % 32, XLEN}) \in 0..XLEN
<1> DEFINE s == b % 32
<1>1. s \in Nat
  BY WordRange DEF Word
<1>2. PICK m \in {s, XLEN} : m <= s /\ m <= XLEN
  <2> HIDE DEF s
  <2>1. CASE s <= XLEN
    BY <1>1, <2>1, WidthAssumption
  <2>2. CASE ~(s <= XLEN)
    BY <1>1, <2>2, WidthAssumption
  <2> QED BY <2>1, <2>2
<1>3. \A x \in {s, XLEN} : m <= x
  <2> HIDE DEF s
  <2> QED BY <1>2
<1>4. /\ Min({s, XLEN}) \in {s, XLEN}
      /\ \A x \in {s, XLEN} : Min({s, XLEN}) <= x
  <2> HIDE DEF s
  <2> QED BY <1>3 DEF Min
<1>5. Min({s, XLEN}) \in 0..XLEN
  <2> HIDE DEF s
  <2> QED BY <1>1, <1>4, WidthAssumption
<1> QED
  BY <1>5

\* The two's complement reading of a number is a number.
LEMMA SignedType == \A a \in Int : Signed(a) \in Int
  BY WidthAssumption, PowerPositive DEF Signed, SignedOf

\* Shifting a word left, its upper bits lost, gives a word.
LEMMA ShiftLeftType ==
  ASSUME NEW a \in Word, NEW s \in 0..XLEN
  PROVE  (a % 2^(XLEN - s)) * 2^s \in Word
<1> DEFINE p == 2^(XLEN - s)  q == 2^s  w == 2^XLEN  r == a % p
<1>1. p \in Nat \ {0} /\ q \in Nat \ {0} /\ w = p * q /\ w \in Nat
  <2>1. XLEN - s \in 0..XLEN
    BY WidthAssumption
  <2> QED BY <2>1, PowerPositive, PowerSplit, WordRange
<1>2. r \in 0..(p - 1)
  <2>1. a \in Nat
    BY WordRange DEF Word
  <2> HIDE DEF p
  <2> QED BY <1>1, <2>1
<1>3. r * q \in 0..(w - 1)
  <2> HIDE DEF p, q, w, r
  <2>1. r * q >= 0
    BY <1>1, <1>2
  <2>2. r * q <= (p - 1) * q
    BY <1>1, <1>2
  <2>3. r * q \in Int /\ (p - 1) * q = p * q - q
    BY <1>1, <1>2
  <2> QED
    BY <1>1, <2>1, <2>2, <2>3
<1> QED
  BY <1>3 DEF Word

\* alu.v: the result of every operation on two words is a word.
LEMMA AluType ==
  ASSUME NEW op, NEW a \in Word, NEW b \in Word,
         op \in {"ADD", "SUB", "AND", "OR", "XOR", "SLL", "SRL", "SLT", "SRA", "SLTU"}
  PROVE  alu(op, a, b) \in Word
<1> DEFINE s == Min({b % 32, XLEN})
<1>1. s \in 0..XLEN /\ 2^s \in Nat \ {0}
  BY ShiftAmount, PowerPositive
<1>2. a \in Nat /\ b \in Nat
  BY WordRange DEF Word
<1>3. 0 \in Word /\ 1 \in Word
  <2>1. 2^XLEN > 1
    <3> DEFINE half == 2^(XLEN - 1)
    <3>1. XLEN - 1 \in 0..(XLEN - 1) /\ XLEN - 1 \in 0..XLEN /\ (XLEN - 1) + 1 = XLEN
      BY WidthAssumption
    <3>2. half \in Nat \ {0} /\ 2^XLEN = 2 * half
      BY <3>1, PowerPositive, WidthAssumption
    <3> HIDE DEF half
    <3> QED BY <3>2
  <2> QED BY <2>1, WordRange DEF Word
<1>4. ToWord(a + b) \in Word /\ ToWord(a - b) \in Word
  BY <1>2, WordRange
<1>5. /\ BitMap(AndGate, a, b) \in Word
      /\ BitMap(OrGate, a, b) \in Word
      /\ BitMap(XorGate, a, b) \in Word
  BY BitMapType, GateTypes
<1>6. (a % 2^(XLEN - s)) * 2^s \in Word
  <2> HIDE DEF s
  <2> QED BY <1>1, ShiftLeftType
<1>7. a \div 2^s \in Word
  <2> DEFINE p == 2^s  w == 2^XLEN
  <2>1. a \in 0..(w - 1) /\ w \in Nat
    BY WordRange DEF Word
  <2>2. a \div p \in 0..a
    <3>1. p \in Nat \ {0}
      BY <1>1
    <3> HIDE DEF p
    <3> QED BY <1>2, <3>1
  <2>3. a \div p \in 0..(w - 1)
    <3> HIDE DEF p, w
    <3> QED BY <2>1, <2>2
  <2> QED BY <2>3 DEF Word
<1>8. shift_right_arithmetic(a, s) \in Word
  <2> DEFINE p == 2^s  v == Signed(a)
  <2>1. v \in Int
    BY <1>2, SignedType
  <2>2. v \div p \in Int
    <3>1. p \in Nat \ {0}
      BY <1>1
    <3> HIDE DEF p, v
    <3> QED BY <2>1, <3>1
  <2> QED BY <2>2, WordRange DEF shift_right_arithmetic
<1> HIDE DEF s
<1>9. alu(op, a, b) \in {ToWord(a + b), ToWord(a - b), BitMap(AndGate, a, b),
          BitMap(OrGate, a, b), BitMap(XorGate, a, b), (a % 2^(XLEN - s)) * 2^s,
          a \div 2^s, shift_right_arithmetic(a, s), 0, 1}
  BY Zenon DEF alu, s
<1> QED
  BY <1>3, <1>4, <1>5, <1>6, <1>7, <1>8, <1>9

\* alu_control.v: the decoder selects an operation the ALU has.
LEMMA AluControlType ==
  ASSUME NEW ALUOp, NEW funct3 \in 0..7, NEW funct7, NEW is_itype
  PROVE  alu_control(ALUOp, funct3, funct7, is_itype)
           \in {"ADD", "SUB", "AND", "OR", "XOR", "SLL", "SRL", "SLT", "SRA", "SLTU"}
  BY DEF alu_control

\* control_unit.v: the signals of every opcode.
LEMMA ControlType == \A op : control_unit(op) \in Control
  BY DEF control_unit, Control

\* immediate_generator.v: the fields of an instruction give a word.
LEMMA ImmediateType ==
  ASSUME NEW i \in Instruction
  PROVE  immediate_generator(i) \in Word
<1>1. /\ i.funct7 \in Nat /\ i.funct3 \in Nat
      /\ i.rd \in Nat /\ i.rs1 \in Nat /\ i.rs2 \in Nat
  BY DEF Instruction, Reg
<1>2. \A a \in Nat : Bit(a, 0) \in Int /\ Bit(a, 6) \in Int
  BY DEF Bit
<1>3. i_imm(i) \in Int /\ s_imm(i) \in Int
  BY <1>1 DEF i_imm, s_imm, SignedOf
<1>4. b_imm(i) \in Int
  BY <1>1, <1>2 DEF b_imm, SignedOf
<1>5. u_imm(i) \in Int
  BY <1>1 DEF u_imm, SignedOf
<1>6. j_imm(i) \in Int
  BY <1>1, <1>2 DEF j_imm, SignedOf
<1> QED
  BY <1>3, <1>4, <1>5, <1>6, WordRange DEF immediate_generator

Executed == [alu_result : Word, branch_taken : BOOLEAN, branch_target : Word,
             store_data : Word, pc_plus4 : Word]

\* branch_comparator.v answers yes or no.
LEMMA ComparatorType ==
  ASSUME NEW a, NEW b, NEW funct3
  PROVE  branch_comparator(a, b, funct3) \in BOOLEAN
<1>1. branch_comparator(a, b, funct3)
        \in {a = b, a # b, Signed(a) < Signed(b), Signed(a) >= Signed(b), a < b, a >= b, FALSE}
  BY Zenon DEF branch_comparator
<1>2. /\ (a = b) \in BOOLEAN /\ (a # b) \in BOOLEAN /\ FALSE \in BOOLEAN
      /\ (Signed(a) < Signed(b)) \in BOOLEAN /\ (Signed(a) >= Signed(b)) \in BOOLEAN
      /\ (a < b) \in BOOLEAN /\ (a >= b) \in BOOLEAN
  OBVIOUS
<1> QED
  BY <1>1, <1>2, Zenon

\* A branch target is a word, and so is that of JALR with its lowest bit cleared.
LEMMA TargetType ==
  ASSUME NEW JALR, NEW a \in Word, NEW imm \in Word, NEW p \in Word
  PROVE  branch_target(JALR, a, imm, p) \in Word
<1>1. a \in Int /\ imm \in Int /\ p \in Int
  BY WordRange DEF Word
<1>2. ToWord(a + imm) \in Word /\ ToWord(p + imm) \in Word
  BY <1>1, WordRange
<1>3. \A t \in Word : t - (t % 2) \in Word
  BY WordRange DEF Word
<1> QED
  BY <1>2, <1>3 DEF branch_target

\* Everything EX computes from words.
LEMMA ExecuteType ==
  ASSUME NEW ctl \in Control, NEW funct3 \in 0..7, NEW funct7, NEW imm \in Word,
         NEW p \in Word, NEW a \in Word, NEW b \in Word
  PROVE  execute(ctl, funct3, funct7, imm, p, a, b) \in Executed
<1> DEFINE operand1 == CASE ctl.Op1Sel = "PC" -> p
                         [] ctl.Op1Sel = "ZERO" -> 0
                         [] OTHER -> a
           operand2 == IF ctl.ALUSrc THEN imm ELSE b
           op == alu_control(ctl.ALUOp, funct3, funct7, ctl.ALUSrc)
<1>1. operand1 \in Word /\ operand2 \in Word
  BY WordRange
<1>2. alu(op, operand1, operand2) \in Word
  <2> HIDE DEF operand1, operand2
  <2> QED BY <1>1, AluControlType, AluType
<1>3. branch_target(ctl.JALR, operand1, imm, p) \in Word
  <2> HIDE DEF operand1
  <2> QED BY <1>1, TargetType
<1>4. ToWord(p + 4) \in Word
  BY WordRange DEF Word
<1>5. branch_comparator(operand1, b, funct3) \in BOOLEAN
  BY ComparatorType
<1>6. execute(ctl, funct3, funct7, imm, p, a, b)
        = [alu_result |-> alu(op, operand1, operand2),
           branch_taken |-> branch_comparator(operand1, b, funct3),
           branch_target |-> branch_target(ctl.JALR, operand1, imm, p),
           store_data |-> b, pc_plus4 |-> ToWord(p + 4)]
  BY DEF execute
<1> HIDE DEF operand1, operand2, op
<1> QED
  BY <1>2, <1>3, <1>4, <1>5, <1>6 DEF Executed

-----------------------------------------------------------------------------
(* Ports and memories. *)

\* instruction_memory delivers an instruction whatever the address: a word
\* outside the array decodes as the zero word does.
LEMMA FetchType ==
  ASSUME NEW imem \in Programs, NEW p
  PROVE  fetch(imem, p) \in Instruction
<1>1. ZeroInstruction \in Instruction
  BY DEF ZeroInstruction, Instruction, Opcodes, Reg
<1> QED
  BY <1>1, ProgramsAssumption DEF fetch

\* A write through register_file's port leaves an array of the same 32 registers.
LEMMA WriteShape ==
  ASSUME NEW regs, regs = [r \in Reg |-> regs[r]], NEW we, NEW rd, NEW v
  PROVE  register_write(regs, we, rd, v)
           = [r \in Reg |-> register_write(regs, we, rd, v)[r]]
  BY DEF register_write

\* The decoder never marks one instruction both a load and a redirect.
LEMMA DecodeExclusive ==
  ASSUME NEW op
  PROVE  /\ control_unit(op).MemRead => ~control_unit(op).Branch /\ ~control_unit(op).Jump
         /\ control_unit(op).MemRead = control_unit(op).MemtoReg
<1>1. control_unit(op).MemRead = (op = "LOAD")
  BY Zenon DEF control_unit
<1>2. control_unit(op).MemtoReg = (op = "LOAD")
  BY Zenon DEF control_unit
<1>3. control_unit(op).Branch = (op = "BRANCH")
  BY Zenon DEF control_unit
<1>4. control_unit(op).Jump = (op \in {"JAL", "JALR"})
  BY Zenon DEF control_unit
<1> QED
  BY <1>1, <1>2, <1>3, <1>4

\* A read of the register file gives a word, bypassed or not.
LEMMA RegisterReadType ==
  ASSUME NEW regs \in [Reg -> Word], NEW we, NEW rd, NEW v \in Word, NEW rs \in Reg
  PROVE  register_read(regs, we, rd, v, rs) \in Word
  BY WordRange DEF register_read

\* A write of a word leaves 32 words.
LEMMA RegisterWriteType ==
  ASSUME NEW regs \in [Reg -> Word], NEW we, NEW rd, NEW v \in Word
  PROVE  register_write(regs, we, rd, v) \in [Reg -> Word]
  BY DEF register_write

\* Every address selects some entry of data_memory once it is truncated.
LEMMA TruncatedIndex == \A address \in Word : address % DMEM_WORDS \in DmemIndex
  BY MemoryAssumption, WordRange DEF Word, DmemIndex

\* Whatever a read of data_memory may return is a word.
LEMMA MemoryReadsType ==
  ASSUME NEW dmem \in [DmemIndex -> Word], NEW mem_read, NEW address \in Word
  PROVE  memory_reads(dmem, mem_read, address) \subseteq Word
<1>1. Junk \subseteq Word
  BY JunkAssumption DEF Word
<1>2. dmem[address % DMEM_WORDS] \in Word
  BY TruncatedIndex
<1>3. {0} \subseteq Word
  BY WordRange
<1>4. address \in DOMAIN dmem => {dmem[address]} \subseteq Word
  OBVIOUS
<1> QED
  BY <1>1, <1>2, <1>3, <1>4, Zenon DEF memory_reads

\* Whatever a write may leave in data_memory are words.
LEMMA MemoryWritesType ==
  ASSUME NEW dmem \in [DmemIndex -> Word], NEW mem_write, NEW address \in Word,
         NEW v \in Word
  PROVE  memory_writes(dmem, mem_write, address, v) \subseteq [DmemIndex -> Word]
<1>1. [dmem EXCEPT ![address % DMEM_WORDS] = v] \in [DmemIndex -> Word]
  BY TruncatedIndex
<1>2. [dmem EXCEPT ![address] = v] \in [DmemIndex -> Word]
  OBVIOUS
<1> QED
  BY <1>1, <1>2, Zenon DEF memory_writes

=============================================================================
