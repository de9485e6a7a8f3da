---------------------------- MODULE DatapathTest ----------------------------
(* The datapath on single instructions against the reference of RV32I: one  *)
(* behaviour per encoded instruction and pair of operands.                  *)
EXTENDS RV32I

CONSTANTS
  Operands,      (* register values                                     *)
  Immediates,    (* of I- and S-type instructions, -2048..2047          *)
  Offsets,       (* of branches and jumps, even                         *)
  UImmediates    (* upper immediates, 0..2^20 - 1                       *)

\* The code has XLEN = 32.  A wider datapath would extend the sign of an upper
\* immediate, and in a narrower one shift amounts would not fit.
ASSUME TestWidthAssumption == XLEN \in 5..32

\* What the formats can hold.
ASSUME TestAssumption ==
  /\ \A a \in Operands : a \in Word
  /\ \A imm \in Immediates : imm \in Int /\ -2048 <= imm /\ imm < 2048
  /\ \A off \in Offsets : off \in Int /\ -4096 <= off /\ off < 4096 /\ off % 2 = 0
  /\ \A imm \in UImmediates : imm \in Nat /\ imm < 2^20

VARIABLES
  test,          (* the instruction under test: its meaning and encoding *)
  outcomes       (* what the datapath did with it: nothing yet, then one *)

vars == <<test, outcomes>>

Test(kind, mnemonic, i, a, b, imm) ==
  [kind |-> kind, mnemonic |-> mnemonic, i |-> i, a |-> a, b |-> b, imm |-> imm]

altBit(mnemonic) == IF mnemonic \in {"sub", "sra"} THEN 32 ELSE 0
shifts == {"sll", "srl", "sra"}

RTests ==
  {Test("alu", m, RType("OP", funct3Of(m), altBit(m), 3, 1, 2), a, b, 0) :
     m \in ALUMnemonics, a \in Operands, b \in Operands}

ITests ==
  {Test("alu", m, IType("OP_IMM", funct3Of(m), 3, 1, imm), a, ToWord(imm), imm) :
     m \in ALUMnemonics \ ({"sub"} \cup shifts), a \in Operands, imm \in Immediates}

ShiftTests ==
  {Test("alu", m, IType("OP_IMM", funct3Of(m), 3, 1, altBit(m) * 2^5 + sh), a, sh, sh) :
     m \in shifts, a \in Operands, sh \in 0..31 \cap Word}

AddressTests ==
  {Test("load", "lw", lw(3, imm, 1), a, 0, imm) : a \in Operands, imm \in Immediates}
    \cup {Test("store", "sw", sw(2, imm, 1), a, b, imm) :
            a \in Operands, b \in Operands, imm \in Immediates}

BranchTests ==
  {Test("branch", m, BType("BRANCH", funct3Of(m), 1, 2, off), a, b, off) :
     m \in BranchMnemonics, a \in Operands, b \in Operands, off \in Offsets}

JumpTests ==
  {Test("jal", "jal", jal(1, off), 0, 0, off) : off \in Offsets}
    \cup {Test("jalr", "jalr", jalr(1, imm, 1), a, 0, imm) :
            a \in Operands, imm \in Immediates}

UpperTests ==
  {Test("lui", "lui", lui(3, imm), a, 0, imm) : a \in Operands, imm \in UImmediates}
    \cup {Test("auipc", "auipc", auipc(3, imm), a, 0, imm) : a \in Operands, imm \in UImmediates}

Init ==
  /\ \/ test \in RTests
     \/ test \in ITests
     \/ test \in ShiftTests
     \/ test \in AddressTests
     \/ test \in BranchTests
     \/ test \in JumpTests
     \/ test \in UpperTests
  /\ outcomes = {}

\* The instruction sits at address 8.
testPc == 8

\* What the datapath does with the instruction under test.
datapath(t) ==
  LET ctl       == control_unit(t.i.opcode)
      immediate == immediate_generator(t.i)
      e         == execute(ctl, t.i.funct3, t.i.funct7, immediate, testPc, t.a, t.b)
  IN [ctl |-> ctl, e |-> e, immediate |-> immediate,
      result |-> write_back_data(ctl.Jump, ctl.MemtoReg, e.pc_plus4, 0, e.alu_result)]

Evaluate ==
  /\ outcomes = {}
  /\ outcomes' = {datapath(test)}
  /\ UNCHANGED test

Next == Evaluate

Spec == Init /\ [][Next]_vars

-----------------------------------------------------------------------------

\* The upper immediate in its place; at most 12 bits leave no room for it.
shifted(imm) == IF XLEN > 12 THEN (imm % 2^(XLEN - 12)) * 2^12 ELSE 0

RightImmediate(t, outcome) ==
  t.i.opcode # "OP" =>
    outcome.immediate =
      CASE t.kind \in {"lui", "auipc"} -> shifted(t.imm)
        [] t.mnemonic = "sra" -> ToWord(t.imm + 1024)
        [] OTHER -> ToWord(t.imm)

RightResult(t, outcome) ==
  LET r == outcome.result
  IN CASE t.kind = "alu"                -> ALUMeaning(t.mnemonic, t.a, t.b, r)
       [] t.kind \in {"load", "store"}  ->
            ALUMeaning("add", t.a, ToWord(t.imm), outcome.e.alu_result)
       [] t.kind = "lui"                -> r = shifted(t.imm)
       [] t.kind = "auipc"              -> ALUMeaning("add", testPc, shifted(t.imm), r)
       [] t.kind \in {"jal", "jalr"}    -> r = testPc + 4
       [] OTHER                         -> TRUE

RightNextPc(t, outcome) ==
  LET redirects == outcome.ctl.Jump \/ (outcome.ctl.Branch /\ outcome.e.branch_taken)
      target    == outcome.e.branch_target
  IN CASE t.kind = "branch" ->
            /\ redirects <=> BranchMeaning(t.mnemonic, t.a, t.b)
            /\ ALUMeaning("add", testPc, ToWord(t.imm), target)
       [] t.kind = "jal"  -> redirects /\ ALUMeaning("add", testPc, ToWord(t.imm), target)
       [] t.kind = "jalr" ->
            /\ redirects /\ target % 2 = 0
            /\ \E word \in {target, target + 1} : ALUMeaning("add", t.a, ToWord(t.imm), word)
       [] OTHER -> ~redirects

\* The value an instruction puts in rd, or the address it accesses, is the one
\* the ISA defines, for every encoding the control unit and alu_control.v tell
\* apart (funct7 bit 5 of a negative ADDI immediate is no SUB), and the
\* immediate generator undoes the encoding of every format.
ResultMeetsISA ==
  \A outcome \in outcomes : RightResult(test, outcome) /\ RightImmediate(test, outcome)

\* The instruction that follows is the one the ISA defines.
NextPcMeetsISA == \A outcome \in outcomes : RightNextPc(test, outcome)

=============================================================================
