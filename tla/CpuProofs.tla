------------------------------ MODULE CpuProofs ------------------------------
(***************************************************************************)
(* The single-cycle core is the one-instruction-at-a-time machine for      *)
(* every program in which no instruction reads its own destination, at     *)
(* every width and memory size: the combinational loop through the         *)
(* register file's bypass is then only apparent.                           *)
(***************************************************************************)
EXTENDS Cpu, DatapathProofs

\* No instruction of the program reads the register it writes.  Programs that
\* do (MCCpuLoop) really see their own result, so this cannot be dropped.
LoopFree == \A p \in Programs : \A n \in DOMAIN p : ~reads_own_destination(p[n])

-----------------------------------------------------------------------------
(* The loop. *)

\* What the decoder says of every opcode.
LEMMA DecodeFacts ==
  ASSUME NEW op
  PROVE  LET c == control_unit(op) IN
         /\ c.JALR => c.Jump
         /\ c.MemRead => c.RegWrite /\ ~c.Jump
         /\ c.MemWrite => ~c.RegWrite /\ ~c.MemRead /\ ~c.Jump /\ ~c.Branch /\ op = "STORE"
         /\ c.Branch => ~c.RegWrite /\ ~c.Jump /\ c.Op1Sel = "REG" /\ ~c.JALR
         /\ op = "STORE" => c.ALUSrc /\ c.ALUOp = "add" /\ c.Op1Sel = "REG"
<1>1. LET c == control_unit(op) IN
      /\ c.RegWrite = (op \in {"OP", "OP_IMM", "LOAD", "JAL", "JALR", "LUI", "AUIPC"})
      /\ c.ALUSrc = (op \in {"OP_IMM", "LOAD", "STORE", "JALR", "LUI", "AUIPC"})
      /\ c.MemRead = (op = "LOAD") /\ c.MemWrite = (op = "STORE")
      /\ c.Branch = (op = "BRANCH") /\ c.Jump = (op \in {"JAL", "JALR"})
      /\ c.JALR = (op = "JALR")
  BY Zenon DEF control_unit
<1>2. op = "BRANCH" \/ op = "STORE" => control_unit(op).Op1Sel = "REG"
  BY Zenon DEF control_unit
<1>3. op = "STORE" => control_unit(op).ALUOp = "add"
  BY Zenon DEF control_unit
<1> QED
  BY <1>1, <1>2, <1>3

\* The bypass only matters to the reader of the register being written.
LEMMA BypassMissed ==
  ASSUME NEW w, NEW rs, ~(control.RegWrite /\ instruction.rd # 0 /\ instruction.rd = rs)
  PROVE  register_read(registers, control.RegWrite, instruction.rd, w, rs)
           = register_read(registers, FALSE, 0, 0, rs)
<1>1. CASE rs = 0
  BY <1>1, Zenon DEF register_read
<1>2. CASE rs # 0
  <2>1. ~(control.RegWrite /\ instruction.rd = rs)
    BY <1>2
  <2>2. register_read(registers, control.RegWrite, instruction.rd, w, rs) = registers[rs]
    BY <1>2, <2>1, Zenon DEF register_read
  <2>3. register_read(registers, FALSE, 0, 0, rs) = registers[rs]
    BY <1>2, Zenon DEF register_read
  <2> QED BY <2>2, <2>3
<1> QED
  BY <1>1, <1>2

\* EX's first operand: three sources.
LEMMA OperandA ==
  ASSUME NEW w
  PROVE  /\ control.Op1Sel = "REG" => alu_input_a(w) = read_data1(w)
         /\ control.Op1Sel = "PC" => alu_input_a(w) = pc
         /\ control.Op1Sel = "ZERO" => alu_input_a(w) = 0
         /\ control.Op1Sel \in {"REG", "PC", "ZERO"}
<1>1. control.Op1Sel \in {"REG", "PC", "ZERO"}
  BY ControlType DEF control, Control
<1>2. "REG" # "PC" /\ "REG" # "ZERO" /\ "PC" # "ZERO"
  OBVIOUS
<1> QED
  BY <1>1, <1>2, Zenon DEF alu_input_a

\* The result of an instruction that does not read its destination is the
\* architecture's, whatever the bypass shows.  A JAL may have its destination's
\* number where other formats have rs1 or rs2: then only alu_result shows it,
\* and a JAL uses nothing of that.
LEMMA LoopIsApparent ==
  ASSUME NEW w, ~reads_own_destination(instruction)
  PROVE  /\ (control.Jump /\ ~control.JALR) \/ alu_result(w) = Arch!executed.alu_result
         /\ next_pc(w) = Arch!next_pc(control, Arch!executed)
         /\ control.MemWrite => read_data2(w) = Arch!executed.store_data
         /\ pc_plus_4 = Arch!executed.pc_plus4
<1> DEFINE r1 == register_read(registers, FALSE, 0, 0, instruction.rs1)
           r2 == register_read(registers, FALSE, 0, 0, instruction.rs2)
           a  == CASE control.Op1Sel = "PC" -> pc [] control.Op1Sel = "ZERO" -> 0 [] OTHER -> r1
           b  == IF control.ALUSrc THEN immediate ELSE r2
           op == alu_control(control.ALUOp, instruction.funct3, instruction.funct7,
                             control.ALUSrc)
<1>1. Arch!executed
        = [alu_result |-> alu(op, a, b),
           branch_taken |-> branch_comparator(a, r2, instruction.funct3),
           branch_target |-> branch_target(control.JALR, a, immediate, pc),
           store_data |-> r2, pc_plus4 |-> ToWord(pc + 4)]
  BY DEF Arch!executed, Arch!read, execute, instruction, control, immediate
<1>2. /\ control.JALR => control.Jump
      /\ control.MemWrite => ~control.RegWrite
      /\ control.Branch => ~control.RegWrite /\ ~control.Jump /\ control.Op1Sel = "REG"
  BY DecodeFacts DEF control
<1>3. \/ ~control.RegWrite
      \/ control.Jump /\ ~control.JALR
      \/ /\ ~(instruction.rd # 0 /\ instruction.rd = instruction.rs1 /\ control.Op1Sel = "REG")
         /\ ~(instruction.rd # 0 /\ instruction.rd = instruction.rs2 /\ ~control.ALUSrc)
  BY DEF reads_own_destination, control
<1>4. ~control.RegWrite => read_data1(w) = r1 /\ read_data2(w) = r2
  BY BypassMissed DEF read_data1, read_data2
<1>5. /\ control.Op1Sel = "REG" => a = r1
      /\ control.Op1Sel = "PC" => a = pc
      /\ control.Op1Sel = "ZERO" => a = 0
  <2>1. "REG" # "PC" /\ "REG" # "ZERO" /\ "PC" # "ZERO"
    OBVIOUS
  <2> QED BY <2>1, Zenon
<1> HIDE DEF a, r1, r2, op
<1>6. (control.Jump /\ ~control.JALR) \/ (alu_input_a(w) = a /\ alu_input_b(w) = b)
  <2> SUFFICES ASSUME ~(control.Jump /\ ~control.JALR)
               PROVE  alu_input_a(w) = a /\ alu_input_b(w) = b
    OBVIOUS
  <2>1. control.Op1Sel = "REG" => read_data1(w) = r1
    BY <1>3, BypassMissed DEF read_data1, r1
  <2>2. ~control.ALUSrc => read_data2(w) = r2
    BY <1>3, BypassMissed DEF read_data2, r2
  <2> QED
    BY <1>5, <2>1, <2>2, OperandA DEF alu_input_b
<1>7. (control.Jump /\ ~control.JALR) \/ alu_result(w) = Arch!executed.alu_result
  BY <1>1, <1>6 DEF alu_result, op
<1>8. next_pc(w) = Arch!next_pc(control, Arch!executed)
  <2>1. CASE control.Jump /\ ~control.JALR
    BY <1>1, <2>1 DEF next_pc, Arch!next_pc, branch_target
  <2>2. CASE control.Branch
    <3>1. /\ branch_taken(w) = branch_comparator(a, r2, instruction.funct3)
          /\ alu_input_a(w) = a /\ ~control.Jump
      BY <1>2, <1>4, <1>5, <2>2, OperandA DEF branch_taken
    <3> QED BY <1>1, <2>2, <3>1 DEF next_pc, Arch!next_pc, pc_plus_4
  <2>3. CASE ~(control.Jump /\ ~control.JALR) /\ ~control.Branch
    <3>1. alu_input_a(w) = a
      BY <1>6, <2>3
    <3> QED BY <1>1, <2>3, <3>1 DEF next_pc, Arch!next_pc, pc_plus_4
  <2> QED BY <2>1, <2>2, <2>3
<1> QED
  BY <1>1, <1>2, <1>4, <1>7, <1>8 DEF pc_plus_4

\* What may be written back does not depend on what the bypass shows: it is
\* what the instruction writes back on the sequential machine.
LEMMA WriteBacksArePlain ==
  ASSUME NEW w, ~reads_own_destination(instruction)
  PROVE  write_backs(w)
           = { write_back_data(control.Jump, control.MemtoReg, Arch!executed.pc_plus4,
                               memory_data, Arch!executed.alu_result) :
                 memory_data \in memory_reads(dmem, control.MemRead, Arch!executed.alu_result) }
<1>1. CASE control.Jump /\ ~control.JALR
  <2>1. ~control.MemRead
    BY <1>1, DecodeFacts DEF control
  <2>2. \A address : memory_reads(dmem, control.MemRead, address) = {0}
    BY <2>1, Zenon DEF memory_reads
  <2>3. \A data, result : write_back_data(control.Jump, control.MemtoReg, pc_plus_4, data, result)
                            = pc_plus_4
    BY <1>1, Zenon DEF write_back_data
  <2> QED
    BY <2>2, <2>3, LoopIsApparent DEF write_backs
<1>2. CASE ~(control.Jump /\ ~control.JALR)
  BY <1>2, LoopIsApparent DEF write_backs
<1> QED
  BY <1>1, <1>2

\* rtl/cpu.v: the feedback from write_back_data through the register file's
\* bypass is a real loop only for instructions that read the register they
\* write; register numbers that merely coincide in unused fields do no harm.
THEOREM LoopIsOwnDestination == Spec => []LoopOnlyOnOwnDestination
<1>1. LoopOnlyOnOwnDestination
  BY WriteBacksArePlain, LoopIsApparent DEF LoopOnlyOnOwnDestination
<1> QED
  BY <1>1, PTL

-----------------------------------------------------------------------------
(* The types, and what reset keeps. *)

\* Whatever the wires settle on is a word.
LEMMA OutcomesType == outcomes \subseteq Word
  BY DEF outcomes, settled

\* The single-cycle core's registers keep their widths.
LEMMA TypePreserved ==
  ASSUME TypeOK, [Next]_vars
  PROVE  TypeOK'
<1> DEFINE i == instruction
<1>1. i \in Instruction
  BY FetchType DEF TypeOK, instruction
<1>2. control \in Control /\ immediate \in Word /\ pc_plus_4 \in Word
  <2>1. pc + 4 \in Int
    BY DEF TypeOK, Word
  <2> QED
    BY <1>1, <2>1, ControlType, ImmediateType, WordRange DEF control, immediate, pc_plus_4
<1>3. ASSUME NEW w \in outcomes
      PROVE  /\ w \in Word /\ read_data2(w) \in Word
             /\ alu_result(w) \in Word /\ next_pc(w) \in Word
  <2>1. w \in Word
    BY OutcomesType
  <2>2. i.rs1 \in Reg /\ i.rs2 \in Reg /\ i.funct3 \in 0..7
    BY <1>1 DEF Instruction
  <2>3. read_data1(w) \in Word /\ read_data2(w) \in Word
    BY <2>1, <2>2, RegisterReadType DEF TypeOK, read_data1, read_data2
  <2>4. alu_input_a(w) \in Word /\ alu_input_b(w) \in Word
    BY <1>2, <2>3, OperandA, WordRange DEF TypeOK, alu_input_b
  <2>5. alu_result(w) \in Word
    BY <2>2, <2>4, AluControlType, AluType DEF alu_result
  <2>6. next_pc(w) \in Word
    BY <1>2, <2>4, TargetType DEF TypeOK, next_pc
  <2> QED BY <2>1, <2>3, <2>5, <2>6
<1>4. CASE ClockEdge
  BY <1>3, <1>4, RegisterWriteType, MemoryWritesType DEF ClockEdge, TypeOK
<1>5. CASE ClockEdgeInReset
  BY <1>3, <1>5, MemoryWritesType DEF ClockEdgeInReset, TypeOK
<1>6. CASE AssertReset
  BY <1>6, WordRange DEF AssertReset, TypeOK, ZeroRegisters
<1>7. CASE ReleaseReset
  BY <1>7 DEF ReleaseReset, TypeOK
<1>8. CASE UNCHANGED vars
  BY <1>8 DEF vars, TypeOK
<1> QED
  BY <1>4, <1>5, <1>6, <1>7, <1>8 DEF Next

\* While reset is held the core is at its first instruction with all
\* registers clear.
ResetState == reset => pc = 0 /\ registers = ZeroRegisters

\* rtl/cpu.v: registers, program counter and data memory hold values of their
\* widths at every program, and reset keeps the core at the program's start.
THEOREM TypesHold == Spec => [](TypeOK /\ ResetState)
<1>1. Init => TypeOK /\ ResetState
  BY PowerUpAssumption, WordRange DEF Init, TypeOK, ResetState, ZeroRegisters
<1>2. ASSUME TypeOK, ResetState, [Next]_vars
      PROVE  ResetState'
  BY <1>2 DEF Next, ClockEdge, ClockEdgeInReset, AssertReset, ReleaseReset, vars, ResetState
<1> QED
  BY <1>1, <1>2, TypePreserved, PTL DEF Spec

-----------------------------------------------------------------------------
(* The refinement. *)

\* In a program without such instructions none is ever fetched, not even
\* where the program counter has left the program.
LEMMA NeverOwnDestination ==
  ASSUME LoopFree, imem \in Programs
  PROVE  ~reads_own_destination(instruction)
<1>1. CASE pc \div 4 \in DOMAIN imem
  BY <1>1 DEF LoopFree, instruction, fetch
<1>2. CASE pc \div 4 \notin DOMAIN imem
  <2>1. ~control_unit("OTHER").RegWrite
    BY DEF control_unit
  <2>2. instruction.opcode = "OTHER"
    BY <1>2 DEF instruction, fetch, ZeroInstruction
  <2> QED BY <2>1, <2>2 DEF reads_own_destination
<1> QED
  BY <1>1, <1>2

\* The wires then settle on exactly what the instruction writes back.
LEMMA OutcomesArePlain ==
  ASSUME TypeOK, ~reads_own_destination(instruction)
  PROVE  outcomes = write_backs(0)
<1>1. \A w : write_backs(w) = write_backs(0)
  BY WriteBacksArePlain
<1>2. settled = write_backs(0) \cap Word
  BY <1>1 DEF settled
<1>3. write_backs(0) \subseteq Word /\ write_backs(0) # {}
  <2>1. instruction \in Instruction /\ control \in Control
    BY FetchType, ControlType DEF TypeOK, instruction, control
  <2>2. 0 \in Word /\ pc_plus_4 \in Word
    BY WordRange DEF TypeOK, Word, pc_plus_4
  <2>3. instruction.rs1 \in Reg /\ instruction.rs2 \in Reg /\ instruction.funct3 \in 0..7
    BY <2>1 DEF Instruction
  <2>4. read_data1(0) \in Word /\ read_data2(0) \in Word
    BY <2>2, <2>3, RegisterReadType DEF TypeOK, read_data1, read_data2
  <2>5. alu_input_a(0) \in Word /\ alu_input_b(0) \in Word
    BY <2>1, <2>2, <2>4, OperandA, ImmediateType DEF TypeOK, alu_input_b, immediate
  <2>6. alu_result(0) \in Word
    BY <2>3, <2>5, AluControlType, AluType DEF alu_result
  <2>7. memory_reads(dmem, control.MemRead, alu_result(0)) \subseteq Word
    BY <2>6, MemoryReadsType DEF TypeOK
  <2>8. memory_reads(dmem, control.MemRead, alu_result(0)) # {}
    BY JunkAssumption DEF memory_reads
  <2>9. \A data \in Word :
          write_back_data(control.Jump, control.MemtoReg, pc_plus_4, data, alu_result(0)) \in Word
    BY <2>2, <2>6 DEF write_back_data
  <2> QED BY <2>7, <2>8, <2>9 DEF write_backs
<1> QED
  BY <1>2, <1>3 DEF outcomes

\* Each clock edge executes one instruction of the sequential machine.
LEMMA EdgeIsStep ==
  ASSUME LoopFree, TypeOK, ClockEdge
  PROVE  Arch!Step
<1>1. ~reads_own_destination(instruction)
  BY NeverOwnDestination DEF TypeOK
<1>2. PICK w \in write_backs(0) :
        /\ registers' = register_write(registers, control.RegWrite, instruction.rd, w)
        /\ dmem' \in memory_writes(dmem, control.MemWrite, alu_result(w), read_data2(w))
        /\ pc' = next_pc(w)
  BY <1>1, OutcomesArePlain DEF ClockEdge
<1>3. PICK read_data \in memory_reads(dmem, control.MemRead, Arch!executed.alu_result) :
        w = write_back_data(control.Jump, control.MemtoReg, Arch!executed.pc_plus4,
                            read_data, Arch!executed.alu_result)
  BY <1>1, WriteBacksArePlain
<1>4. dmem' \in memory_writes(dmem, control.MemWrite, Arch!executed.alu_result,
                              Arch!executed.store_data)
  <2>1. CASE control.MemWrite
    BY <1>1, <1>2, <2>1, DecodeFacts, LoopIsApparent DEF control
  <2>2. CASE ~control.MemWrite
    BY <1>2, <2>2, Zenon DEF memory_writes
  <2> QED BY <2>1, <2>2
<1>5. pc' = Arch!next_pc(control, Arch!executed)
  BY <1>1, <1>2, LoopIsApparent
<1>6. ~reset /\ UNCHANGED <<reset, imem>>
  BY DEF ClockEdge
<1> QED
  BY <1>2, <1>3, <1>4, <1>5, <1>6 DEF Arch!Step, control, instruction

\* rtl/cpu.v: for programs in which no instruction reads its own destination,
\* every clock edge out of reset executes exactly one instruction of the
\* sequential machine; in reset an edge repeats at most the program's first
\* store.
THEOREM SingleCycleRefinesIsa == ASSUME LoopFree PROVE Spec => RefinesIsaButInReset
<1>1. Init => Arch!Init
  BY DEF Init, Arch!Init
<1>2. ASSUME TypeOK, ResetState, [Next]_vars
      PROVE  [Arch!Next \/ StoreInReset]_vars
  <2>1. CASE ClockEdge
    BY <1>2, <2>1, EdgeIsStep DEF Arch!Next
  <2>2. CASE AssertReset
    BY <2>2 DEF AssertReset, Arch!Next, Arch!AssertReset
  <2>3. CASE ReleaseReset
    BY <2>3 DEF ReleaseReset, Arch!Next, Arch!ReleaseReset
  <2>4. CASE ClockEdgeInReset
    <3>1. CASE control.MemWrite
      <4>1. instruction.opcode = "STORE"
        BY <3>1, DecodeFacts DEF control
      <4>2. instruction = imem[0]
        <5>1. pc = 0 /\ pc \div 4 = 0
          BY <1>2, <2>4 DEF ClockEdgeInReset, ResetState
        <5>2. ZeroInstruction.opcode # "STORE"
          BY DEF ZeroInstruction
        <5> QED BY <4>1, <5>1, <5>2 DEF instruction, fetch
      <4> QED BY <2>4, <4>1, <4>2 DEF ClockEdgeInReset, StoreInReset
    <3>2. CASE ~control.MemWrite
      <4>1. \A address, data : memory_writes(dmem, control.MemWrite, address, data) = {dmem}
        BY <3>2, Zenon DEF memory_writes
      <4> QED BY <2>4, <4>1 DEF ClockEdgeInReset, vars
    <3> QED BY <3>1, <3>2
  <2>5. CASE UNCHANGED vars
    BY <2>5
  <2> QED BY <1>2, <2>1, <2>2, <2>3, <2>4, <2>5 DEF Next
<1> QED
  BY <1>1, <1>2, TypesHold, PTL DEF Spec, RefinesIsaButInReset

-----------------------------------------------------------------------------
(* Data memory in reset. *)

\* rtl/cpu.v: data memory has no reset and the first instruction drives its
\* write port while reset is held, but all a clock edge can do is to clear the
\* one word that the first store names, whatever ran before.
THEOREM FirstStoreInResetOnly == Spec => OnlyFirstStoreInReset
<1> DEFINE address == ToWord(immediate_generator(imem[0]))
<1>1. ASSUME TypeOK, ResetState, [Next]_vars, reset, dmem' # dmem
      PROVE  imem[0].opcode = "STORE" /\ dmem' = [dmem EXCEPT ![address % DMEM_WORDS] = 0]
  <2>1. ClockEdgeInReset
    BY <1>1 DEF Next, ClockEdge, AssertReset, ReleaseReset, vars
  <2>2. PICK w \in outcomes :
          dmem' \in memory_writes(dmem, control.MemWrite, alu_result(w), read_data2(w))
    BY <2>1 DEF ClockEdgeInReset
  <2>3. control.MemWrite
    <3>1. ~control.MemWrite => memory_writes(dmem, control.MemWrite, alu_result(w),
                                             read_data2(w)) = {dmem}
      BY Zenon DEF memory_writes
    <3> QED BY <1>1, <2>2, <3>1
  <2>4. instruction.opcode = "STORE"
    BY <2>3, DecodeFacts DEF control
  <2>5. instruction = imem[0]
    <3>1. pc \div 4 = 0
      BY <1>1 DEF ResetState
    <3>2. ZeroInstruction.opcode # "STORE"
      BY DEF ZeroInstruction
    <3> QED BY <2>4, <3>1, <3>2 DEF instruction, fetch
  <2>6. instruction \in Instruction
    BY <1>1, FetchType DEF TypeOK, instruction
  <2>7. instruction.rs1 \in Reg /\ instruction.rs2 \in Reg
    BY <2>6 DEF Instruction
  <2>8. read_data1(w) = 0 /\ read_data2(w) = 0
    <3>1. ~control.RegWrite
      BY <2>3, DecodeFacts DEF control
    <3>2. \A rs \in Reg : registers[rs] = 0
      BY <1>1 DEF ResetState, ZeroRegisters
    <3>3. \A rs \in Reg : register_read(registers, control.RegWrite, instruction.rd, w, rs) = 0
      BY <3>1, <3>2 DEF register_read
    <3> QED BY <2>7, <3>3 DEF read_data1, read_data2
  <2>9. alu_result(w) = address
    <3>1. immediate \in Word
      BY <2>6, ImmediateType DEF immediate
    <3>2. alu_input_a(w) = 0 /\ alu_input_b(w) = immediate /\ control.ALUOp = "add"
      BY <2>4, <2>8, DecodeFacts, OperandA DEF control, alu_input_b
    <3>3. alu_control("add", instruction.funct3, instruction.funct7, control.ALUSrc) = "ADD"
      BY Zenon DEF alu_control
    <3>4. alu("ADD", 0, immediate) = ToWord(0 + immediate)
      BY Zenon DEF alu
    <3>5. 0 + immediate = immediate
      BY <3>1 DEF Word
    <3> QED BY <2>5, <3>2, <3>3, <3>4, <3>5 DEF alu_result, immediate
  <2>10. address \in Word
    BY <2>5, <2>6, ImmediateType, WordRange DEF Word
  <2>11. address \in DmemIndex => address % DMEM_WORDS = address
    BY MemoryAssumption DEF DmemIndex
  <2>12. DOMAIN dmem = DmemIndex
    BY <1>1 DEF TypeOK
  <2> HIDE DEF address
  <2>13. dmem' \in {dmem, [dmem EXCEPT ![address % DMEM_WORDS] = 0]}
    BY <2>2, <2>3, <2>8, <2>9, <2>11, <2>12 DEF memory_writes
  <2> QED
    BY <1>1, <2>4, <2>5, <2>13
<1> QED
  BY <1>1, TypesHold, PTL DEF Spec, OnlyFirstStoreInReset

=============================================================================
