----------------------------- MODULE Assembler -----------------------------
(* RV32I encodings, from the formats of the ISA rather than from the        *)
(* decoder: the six fields of an instruction for a mnemonic's operands.     *)
(* Immediates and offsets are integers, negative ones included.             *)
EXTENDS Integers

bits(n, hi, lo) == (n \div 2^lo) % 2^(hi - lo + 1)

RType(opcode, funct3, funct7, rd, rs1, rs2) ==
  [opcode |-> opcode, rd |-> rd, rs1 |-> rs1, rs2 |-> rs2,
   funct3 |-> funct3, funct7 |-> funct7]

IType(opcode, funct3, rd, rs1, imm) ==
  RType(opcode, funct3, bits(imm, 11, 5), rd, rs1, bits(imm, 4, 0))

SType(opcode, funct3, rs1, rs2, imm) ==
  RType(opcode, funct3, bits(imm, 11, 5), bits(imm, 4, 0), rs1, rs2)

BType(opcode, funct3, rs1, rs2, off) ==
  RType(opcode, funct3, bits(off, 12, 12) * 2^6 + bits(off, 10, 5),
        bits(off, 4, 1) * 2 + bits(off, 11, 11), rs1, rs2)

UType(opcode, rd, imm) ==
  RType(opcode, bits(imm, 2, 0), bits(imm, 19, 13), rd, bits(imm, 7, 3), bits(imm, 12, 8))

JType(opcode, rd, off) ==
  RType(opcode, bits(off, 14, 12), bits(off, 20, 20) * 2^6 + bits(off, 10, 5), rd,
        bits(off, 19, 15), bits(off, 4, 1) * 2 + bits(off, 11, 11))

add(rd, rs1, rs2)   == RType("OP", 0, 0, rd, rs1, rs2)
sra(rd, rs1, rs2)   == RType("OP", 5, 32, rd, rs1, rs2)
sltu(rd, rs1, rs2)  == RType("OP", 3, 0, rd, rs1, rs2)
addi(rd, rs1, imm)  == IType("OP_IMM", 0, rd, rs1, imm)
sltiu(rd, rs1, imm) == IType("OP_IMM", 3, rd, rs1, imm)
srli(rd, rs1, sh)   == IType("OP_IMM", 5, rd, rs1, sh)
srai(rd, rs1, sh)   == IType("OP_IMM", 5, rd, rs1, 1024 + sh)
lw(rd, imm, rs1)    == IType("LOAD", 2, rd, rs1, imm)
sw(rs2, imm, rs1)   == SType("STORE", 2, rs1, rs2, imm)
beq(rs1, rs2, off)  == BType("BRANCH", 0, rs1, rs2, off)
bne(rs1, rs2, off)  == BType("BRANCH", 1, rs1, rs2, off)
blt(rs1, rs2, off)  == BType("BRANCH", 4, rs1, rs2, off)
bge(rs1, rs2, off)  == BType("BRANCH", 5, rs1, rs2, off)
bltu(rs1, rs2, off) == BType("BRANCH", 6, rs1, rs2, off)
bgeu(rs1, rs2, off) == BType("BRANCH", 7, rs1, rs2, off)
jal(rd, off)        == JType("JAL", rd, off)
jalr(rd, imm, rs1)  == IType("JALR", 0, rd, rs1, imm)
lui(rd, imm)        == UType("LUI", rd, imm)
auipc(rd, imm)      == UType("AUIPC", rd, imm)
fence               == IType("FENCE", 0, 0, 0, 0)

=============================================================================
