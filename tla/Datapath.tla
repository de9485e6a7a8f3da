------------------------------ MODULE Datapath ------------------------------
(***************************************************************************)
(* The combinational blocks that rtl/cpu.v and rtl/cpu_pipeline.v share:   *)
(* control unit, immediate generator, ALU and its decoder, branch          *)
(* comparator, register file ports, memories.  There is no state here.     *)
(*                                                                         *)
(* A 32-bit instruction is a record of its six R-type bit fields, which    *)
(* partition the word; every other format is a rearrangement of them.  The *)
(* seven opcode bits are abstracted to the name of the case of the control *)
(* unit they select, "OTHER" standing for all the encodings with no case.  *)
(*                                                                         *)
(* Data words are XLEN bits wide; the code has XLEN = 32.                  *)
(***************************************************************************)
EXTENDS Integers, FiniteSetsExt

CONSTANTS
  XLEN,        (* width of registers, addresses and the program counter    *)
  DMEM_WORDS,  (* entries of data_memory (256 in the code)                 *)
  Junk,        (* what a read outside data_memory may return               *)
  Programs,    (* the contents instruction_memory may be given             *)
  PowerUp      (* the contents data_memory may power up with               *)

\* The last conjunct is a fact of arithmetic the provers have no axiom for.
ASSUME WidthAssumption ==
  XLEN \in Nat \ {0} /\ \A n \in 0..(XLEN - 1) : 2^(n + 1) = 2 * 2^n
ASSUME MemoryAssumption == DMEM_WORDS \in Nat \ {0}
ASSUME JunkAssumption == Junk # {} /\ Junk \subseteq 0..(2^XLEN - 1)

Word == 0..(2^XLEN - 1)
Reg  == 0..31
DmemIndex == 0..(DMEM_WORDS - 1)

Opcodes == {"OP", "OP_IMM", "LOAD", "STORE", "BRANCH", "JAL", "JALR",
            "LUI", "AUIPC", "FENCE", "OTHER"}

Instruction ==
  [opcode : Opcodes, rd : Reg, rs1 : Reg, rs2 : Reg,
   funct3 : 0..7, funct7 : 0..127]

\* 32'd0, what reset and a flush load into IF/ID: an opcode with no case.
ZeroInstruction ==
  [opcode |-> "OTHER", rd |-> 0, rs1 |-> 0, rs2 |-> 0,
   funct3 |-> 0, funct7 |-> 0]

\* A program is a function from word addresses to instructions.
ASSUME ProgramsAssumption ==
  \A p \in Programs : /\ p = [n \in DOMAIN p |-> p[n]]
                     /\ \A n \in DOMAIN p : p[n] \in Instruction
ASSUME PowerUpAssumption == PowerUp \subseteq [DmemIndex -> Word]

-----------------------------------------------------------------------------
(* Bits and words. *)

Bit(a, i) == (a \div 2^i) % 2

ToWord(n) == n % 2^XLEN

\* The two's complement reading of the low `bits' bits of a.
SignedOf(a, bits) == IF a < 2^(bits - 1) THEN a ELSE a - 2^bits

Signed(a) == SignedOf(a, XLEN)

\* A gate on every pair of bits; word[n] is the result on the n lowest.
BitMap(gate, a, b) ==
  LET word[n \in 0..XLEN] ==
        IF n = 0 THEN 0
        ELSE word[n - 1] + gate[Bit(a, n - 1)][Bit(b, n - 1)] * 2^(n - 1)
  IN word[XLEN]

AndGate == [x \in {0, 1} |-> [y \in {0, 1} |-> x * y]]
OrGate  == [x \in {0, 1} |-> [y \in {0, 1} |-> x + y - x * y]]
XorGate == [x \in {0, 1} |-> [y \in {0, 1} |-> (x + y) % 2]]

-----------------------------------------------------------------------------
(* control_unit.v: every signal is off unless the opcode's case sets it.   *)

control_unit(opcode) ==
  [RegWrite |-> opcode \in {"OP", "OP_IMM", "LOAD", "JAL", "JALR", "LUI", "AUIPC"},
   ALUSrc   |-> opcode \in {"OP_IMM", "LOAD", "STORE", "JALR", "LUI", "AUIPC"},
   MemRead  |-> opcode = "LOAD",
   MemWrite |-> opcode = "STORE",
   MemtoReg |-> opcode = "LOAD",
   Branch   |-> opcode = "BRANCH",
   Jump     |-> opcode \in {"JAL", "JALR"},
   JALR     |-> opcode = "JALR",
   ALUOp    |-> CASE opcode \in {"OP", "OP_IMM"} -> "funct"
                  [] opcode = "BRANCH" -> "sub"
                  [] OTHER -> "add",
   Op1Sel   |-> CASE opcode = "AUIPC" -> "PC"
                  [] opcode = "LUI" -> "ZERO"
                  [] OTHER -> "REG"]

Control ==
  [RegWrite : BOOLEAN, ALUSrc : BOOLEAN, MemRead : BOOLEAN, MemWrite : BOOLEAN,
   MemtoReg : BOOLEAN, Branch : BOOLEAN, Jump : BOOLEAN, JALR : BOOLEAN,
   ALUOp : {"add", "sub", "funct"}, Op1Sel : {"REG", "PC", "ZERO"}]

(* immediate_generator.v: the fields of each format reassembled and         *)
(* sign-extended to XLEN.                                                  *)
i_imm(i) == SignedOf(i.funct7 * 2^5 + i.rs2, 12)

s_imm(i) == SignedOf(i.funct7 * 2^5 + i.rd, 12)

b_imm(i) ==
  SignedOf(Bit(i.funct7, 6) * 2^12 + Bit(i.rd, 0) * 2^11 + (i.funct7 % 2^6) * 2^5
             + (i.rd \div 2) * 2, 13)

u_imm(i) ==
  SignedOf(i.funct7 * 2^13 + i.rs2 * 2^8 + i.rs1 * 2^3 + i.funct3, 20) * 2^12

\* Faults used to test the properties carry the name of the definition they
\* replace; each stands before it.

j_imm(i) ==
  SignedOf(Bit(i.funct7, 6) * 2^20 + i.rs1 * 2^15 + i.funct3 * 2^12 + Bit(i.rs2, 0) * 2^11
             + (i.funct7 % 2^6) * 2^5 + (i.rs2 \div 2) * 2, 21)

immediate_generator(i) ==
  CASE i.opcode \in {"OP_IMM", "LOAD", "JALR"} -> ToWord(i_imm(i))
    [] i.opcode = "STORE"                      -> ToWord(s_imm(i))
    [] i.opcode = "BRANCH"                     -> ToWord(b_imm(i))
    [] i.opcode \in {"LUI", "AUIPC"}           -> ToWord(u_imm(i))
    [] i.opcode = "JAL"                        -> ToWord(j_imm(i))
    [] OTHER                                   -> 0

(* alu_control.v: funct7[5] selects SUB only for R-type (there is no SUBI) *)
(* but SRA for both R-type and I-type.                                     *)
shift_alt(funct7) == Bit(funct7, 5) = 1

\* Fault: funct7[5] selects SUB for I-type too, where it is an immediate bit.
sub_alt_Ungated(funct7, is_itype) == Bit(funct7, 5) = 1

sub_alt(funct7, is_itype) == Bit(funct7, 5) = 1 /\ ~is_itype

alu_control(ALUOp, funct3, funct7, is_itype) ==
  CASE ALUOp = "add" -> "ADD"
    [] ALUOp = "sub" -> "SUB"
    [] OTHER ->
         CASE funct3 = 0 -> IF sub_alt(funct7, is_itype) THEN "SUB" ELSE "ADD"
           [] funct3 = 1 -> "SLL"
           [] funct3 = 2 -> "SLT"
           [] funct3 = 3 -> "SLTU"
           [] funct3 = 4 -> "XOR"
           [] funct3 = 5 -> IF shift_alt(funct7) THEN "SRA" ELSE "SRL"
           [] funct3 = 6 -> "OR"
           [] OTHER      -> "AND"

(* alu.v.  Shifts use b[4:0]; a shift of XLEN or more, impossible at 32    *)
(* bits, is capped so that narrower instances shift everything out.        *)

shift_right_arithmetic(a, shamt) == ToWord(Signed(a) \div 2^shamt)

alu(op, a, b) ==
  LET shamt == Min({b % 32, XLEN})
  IN CASE op = "ADD"  -> ToWord(a + b)
       [] op = "SUB"  -> ToWord(a - b)
       [] op = "AND"  -> BitMap(AndGate, a, b)
       [] op = "OR"   -> BitMap(OrGate, a, b)
       [] op = "XOR"  -> BitMap(XorGate, a, b)
       [] op = "SLL"  -> (a % 2^(XLEN - shamt)) * 2^shamt
       [] op = "SRL"  -> a \div 2^shamt
       [] op = "SLT"  -> IF Signed(a) < Signed(b) THEN 1 ELSE 0
       [] op = "SRA"  -> shift_right_arithmetic(a, shamt)
       [] op = "SLTU" -> IF a < b THEN 1 ELSE 0

\* Fault: BLTU and BGEU compare signed.
branch_comparator_AlwaysSigned(rs1_data, rs2_data, funct3) ==
  CASE funct3 = 0        -> rs1_data = rs2_data
    [] funct3 = 1        -> rs1_data # rs2_data
    [] funct3 \in {4, 6} -> Signed(rs1_data) < Signed(rs2_data)
    [] funct3 \in {5, 7} -> Signed(rs1_data) >= Signed(rs2_data)
    [] OTHER             -> FALSE

(* branch_comparator.v; funct3 2 and 3 are no branch and are never taken.  *)
branch_comparator(rs1_data, rs2_data, funct3) ==
  CASE funct3 = 0 -> rs1_data = rs2_data
    [] funct3 = 1 -> rs1_data # rs2_data
    [] funct3 = 4 -> Signed(rs1_data) < Signed(rs2_data)
    [] funct3 = 5 -> Signed(rs1_data) >= Signed(rs2_data)
    [] funct3 = 6 -> rs1_data < rs2_data
    [] funct3 = 7 -> rs1_data >= rs2_data
    [] OTHER      -> FALSE

-----------------------------------------------------------------------------
(* register_file.v: x0 reads zero, a read of the register being written    *)
(* this cycle sees the write data, any other read sees the array.          *)

register_read(registers, we, rd, write_data, rs) ==
  CASE rs = 0                    -> 0
    [] rs # 0 /\ we /\ rd = rs   -> write_data
    [] OTHER                     -> registers[rs]

register_write(registers, we, rd, write_data) ==
  IF we /\ rd # 0 THEN [registers EXCEPT ![rd] = write_data] ELSE registers

ZeroRegisters == [r \in Reg |-> 0]

(* The write-back multiplexer of wb_stage.v and cpu.v. *)
write_back_data(Jump, MemtoReg, pc_plus4, read_data, alu_result) ==
  CASE Jump              -> pc_plus4
    [] ~Jump /\ MemtoReg -> read_data
    [] OTHER             -> alu_result

(* A JALR target has its lowest bit cleared.                               *)
branch_target(JALR, operand1, immediate, pc) ==
  IF JALR THEN LET t == ToWord(operand1 + immediate) IN t - (t % 2)
          ELSE ToWord(pc + immediate)

(* Everything ex_stage.v computes from the operands once they are forwarded. *)
execute(ctl, funct3, funct7, immediate, pc, rs1_data, rs2_data) ==
  LET operand1 == CASE ctl.Op1Sel = "PC"   -> pc
                    [] ctl.Op1Sel = "ZERO" -> 0
                    [] OTHER               -> rs1_data
      operand2 == IF ctl.ALUSrc THEN immediate ELSE rs2_data
  IN [alu_result    |-> alu(alu_control(ctl.ALUOp, funct3, funct7, ctl.ALUSrc),
                            operand1, operand2),
      branch_taken  |-> branch_comparator(operand1, rs2_data, funct3),
      branch_target |-> branch_target(ctl.JALR, operand1, immediate, pc),
      store_data    |-> rs2_data,
      pc_plus4      |-> ToWord(pc + 4)]

(* instruction_memory.v: indexed by pc[31:2].  A word outside the array is *)
(* X in simulation, which decodes to no case, as the zero word does.       *)
fetch(imem, pc) ==
  IF pc \div 4 \in DOMAIN imem THEN imem[pc \div 4] ELSE ZeroInstruction

(* data_memory.v: the byte address is the array index.  The outcomes of an *)
(* access outside the array are build dependent: simulation reads X and    *)
(* drops the write, the netlist truncates the index.                       *)
memory_reads(dmem, mem_read, address) ==
  CASE ~mem_read                           -> {0}
    [] mem_read /\ address \in DOMAIN dmem -> {dmem[address]}
    [] OTHER -> Junk \cup {dmem[address % DMEM_WORDS]}

memory_writes(dmem, mem_write, address, write_data) ==
  CASE ~mem_write                           -> {dmem}
    [] mem_write /\ address \in DOMAIN dmem -> {[dmem EXCEPT ![address] = write_data]}
    [] OTHER -> {dmem, [dmem EXCEPT ![address % DMEM_WORDS] = write_data]}

=============================================================================
