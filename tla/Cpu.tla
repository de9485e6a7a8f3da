-------------------------------- MODULE Cpu --------------------------------
(***************************************************************************)
(* rtl/cpu.v: the single-cycle core.  All its state is the program counter *)
(* and the memories; everything else is combinational.                     *)
(*                                                                         *)
(* The register file it shares with the pipeline reads the write port of   *)
(* the same cycle (write-first bypass), and here the write port is driven  *)
(* by the instruction that reads.  write_back_data can therefore depend on *)
(* itself.  Its value is modelled as what the wires may settle on: any w   *)
(* that reproduces itself, and any word at all when there is none.         *)
(***************************************************************************)
EXTENDS Datapath

VARIABLES reset, imem, pc, registers, dmem

vars == <<reset, imem, pc, registers, dmem>>

-----------------------------------------------------------------------------
(* Wires that do not depend on the loop. *)

instruction == fetch(imem, pc)
control     == control_unit(instruction.opcode)
immediate   == immediate_generator(instruction)
pc_plus_4   == ToWord(pc + 4)

(* Wires that do: w is the value of write_back_data. *)

read_data1(w) ==
  register_read(registers, control.RegWrite, instruction.rd, w, instruction.rs1)
read_data2(w) ==
  register_read(registers, control.RegWrite, instruction.rd, w, instruction.rs2)

\* Fault: a U-type instruction takes operand A from the register file.
alu_input_a_NoOverride(w) == read_data1(w)

alu_input_a(w) ==
  CASE control.Op1Sel = "PC"   -> pc
    [] control.Op1Sel = "ZERO" -> 0
    [] OTHER                   -> read_data1(w)

alu_input_b(w) == IF control.ALUSrc THEN immediate ELSE read_data2(w)

alu_result(w) ==
  alu(alu_control(control.ALUOp, instruction.funct3, instruction.funct7, control.ALUSrc),
      alu_input_a(w), alu_input_b(w))

branch_taken(w) == branch_comparator(read_data1(w), read_data2(w), instruction.funct3)

\* Fault: the branch condition is ignored.
next_pc_AlwaysTaken(w) ==
  IF control.Jump \/ control.Branch
  THEN branch_target(control.JALR, alu_input_a(w), immediate, pc)
  ELSE pc_plus_4

next_pc(w) ==
  IF control.Jump \/ (control.Branch /\ branch_taken(w))
  THEN branch_target(control.JALR, alu_input_a(w), immediate, pc)
  ELSE pc_plus_4

\* What write_back_data can become while it is w: more than one value only if
\* a load reads outside data memory.
write_backs(w) ==
  { write_back_data(control.Jump, control.MemtoReg, pc_plus_4, memory_data, alu_result(w)) :
      memory_data \in memory_reads(dmem, control.MemRead, alu_result(w)) }

\* The values with which the wires are at rest.
settled == {w \in Word : w \in write_backs(w)}

outcomes == IF settled # {} THEN settled ELSE Word

-----------------------------------------------------------------------------

Init ==
  /\ reset = TRUE
  /\ imem \in Programs
  /\ pc = 0
  /\ registers = ZeroRegisters
  /\ dmem \in PowerUp

ClockEdge ==
  /\ ~reset
  /\ \E w \in outcomes :
       /\ registers' = register_write(registers, control.RegWrite, instruction.rd, w)
       /\ dmem' \in memory_writes(dmem, control.MemWrite, alu_result(w), read_data2(w))
       /\ pc' = next_pc(w)
  /\ UNCHANGED <<reset, imem>>

\* Fault: the register file has no reset.
AssertReset_KeepsRegisters ==
  /\ ~reset
  /\ reset' = TRUE
  /\ pc' = 0
  /\ UNCHANGED <<imem, registers, dmem>>

\* posedge reset
AssertReset ==
  /\ ~reset
  /\ reset' = TRUE
  /\ pc' = 0
  /\ registers' = ZeroRegisters
  /\ UNCHANGED <<imem, dmem>>

ReleaseReset ==
  /\ reset
  /\ reset' = FALSE
  /\ UNCHANGED <<imem, pc, registers, dmem>>

\* A clock edge while reset is held: data memory has no reset, and the
\* instruction at address 0 already drives its write port.
ClockEdgeInReset ==
  /\ reset
  /\ \E w \in outcomes :
       dmem' \in memory_writes(dmem, control.MemWrite, alu_result(w), read_data2(w))
  /\ UNCHANGED <<reset, imem, pc, registers>>

Next == ClockEdge \/ AssertReset \/ ReleaseReset \/ ClockEdgeInReset

Spec == Init /\ [][Next]_vars

-----------------------------------------------------------------------------

\* Every register holds a value of its width.
TypeOK ==
  /\ reset \in BOOLEAN
  /\ imem \in Programs
  /\ pc \in Word
  /\ registers \in [Reg -> Word]
  /\ dmem \in [DmemIndex -> Word]

\* The instruction's result can depend on the register it writes.
reads_own_destination(i) ==
  LET ctl == control_unit(i.opcode)
  IN /\ ctl.RegWrite /\ ~(ctl.Jump /\ ~ctl.JALR) /\ i.rd # 0
     /\ \/ i.rd = i.rs1 /\ ctl.Op1Sel = "REG"
        \/ i.rd = i.rs2 /\ ~ctl.ALUSrc

\* The bypass makes a combinational loop only where an instruction really
\* reads its own destination: unused register fields that happen to match,
\* as in the immediates of LUI, AUIPC, JAL and I-type instructions, do no harm.
LoopOnlyOnOwnDestination ==
  ~reads_own_destination(instruction) =>
    \A w \in Word : write_backs(w) = write_backs(0) /\ next_pc(w) = next_pc(0)

\* A first instruction that is a store is executed at every clock edge in
\* reset (cpu.v:161-173).  All such an edge can do to data memory is what the
\* instruction does again as the program's first step: one word, named by its
\* immediate, becomes 0, whatever ran before reset and however often.
OnlyFirstStoreInReset ==
  [][reset /\ dmem' # dmem =>
       LET address == ToWord(immediate_generator(imem[0])) % DMEM_WORDS
       IN imem[0].opcode = "STORE" /\ dmem' = [dmem EXCEPT ![address] = 0]]_vars

Arch == INSTANCE Isa

\* The single-cycle core runs every program one instruction per clock edge.
RefinesIsa == Arch!Spec

\* A clock edge in reset executes the store the program starts with;
\* OnlyFirstStoreInReset says what it can change.
StoreInReset == reset /\ reset' /\ imem[0].opcode = "STORE" /\ UNCHANGED <<pc, registers>>

\* Every step of the core but a store in reset is a step of the sequential
\* machine: one instruction per clock edge, and a reset that clears.
RefinesIsaButInReset == Arch!Init /\ [][Arch!Next \/ StoreInReset]_vars

=============================================================================
