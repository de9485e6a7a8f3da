---------------------------- MODULE CpuPipeline ----------------------------
(***************************************************************************)
(* rtl/cpu_pipeline.v: the five-stage pipeline.  The state is the program  *)
(* counter, the register file, the data memory and the four pipeline       *)
(* registers; every wire of the module is a state function.  One action    *)
(* per event the flip-flops react to: a clock edge, with reset low or      *)
(* high, and the two edges of the asynchronous reset.                      *)
(***************************************************************************)
EXTENDS Datapath

VARIABLES
  reset,       (* the reset input                                          *)
  imem,        (* instruction_memory.memory, never written                 *)
  pc,          (* program_counter.pc                                       *)
  registers,   (* register_file.registers                                  *)
  dmem,        (* data_memory.memory                                       *)
  if_id, id_ex, ex_mem, mem_wb,   (* the pipeline registers                *)
  live         (* history, not in the code: whether each of the first three
                  pipeline registers holds an instruction of the program or
                  a bubble, and the address of the one in EX/MEM           *)

latches == <<if_id, id_ex, ex_mem, mem_wb>>
vars == <<reset, imem, pc, registers, dmem, if_id, id_ex, ex_mem, mem_wb, live>>

-----------------------------------------------------------------------------
(* What reset, and a flush of the first two, loads into the pipeline registers. *)

IfIdBubble == [pc |-> 0, instruction |-> ZeroInstruction]

NoControl == control_unit("OTHER")

IdExBubble ==
  [pc |-> 0, read_data1 |-> 0, read_data2 |-> 0, immediate |-> 0,
   rs1 |-> 0, rs2 |-> 0, rd |-> 0, funct3 |-> 0, funct7 |-> 0, ctl |-> NoControl]

ExMemReset ==
  [alu_result |-> 0, write_data |-> 0, rd |-> 0, branch_target |-> 0,
   branch_taken |-> FALSE, pc_plus4 |-> 0, RegWrite |-> FALSE, MemRead |-> FALSE,
   MemWrite |-> FALSE, MemtoReg |-> FALSE, Branch |-> FALSE, Jump |-> FALSE]

MemWbReset ==
  [read_data |-> 0, alu_result |-> 0, pc_plus4 |-> 0, rd |-> 0,
   RegWrite |-> FALSE, MemtoReg |-> FALSE, Jump |-> FALSE]

NothingLive == [if_id |-> FALSE, id_ex |-> FALSE, ex_mem |-> FALSE, pc |-> 0]

-----------------------------------------------------------------------------
(* WB: the value on the register file's write port. *)

wb_write_back_data ==
  write_back_data(mem_wb.Jump, mem_wb.MemtoReg, mem_wb.pc_plus4,
                  mem_wb.read_data, mem_wb.alu_result)

\* Faults used to test the properties carry the name of the definition they
\* replace; each stands before it.

\* Fault: any instruction in EX stalls its reader, not only a load.
hazard_stall_AnyWriter ==
  id_ex.rd # 0 /\ id_ex.rd \in {if_id.instruction.rs1, if_id.instruction.rs2}

\* Fault: x0 is a destination like any other.
hazard_stall_X0 == id_ex.rd \in {if_id.instruction.rs1, if_id.instruction.rs2}

(* ID: hazard_detection_unit.v compares the raw rs1 and rs2 bit fields of  *)
(* the instruction in ID with the destination of a load in EX.             *)
hazard_stall ==
  /\ id_ex.ctl.MemRead
  /\ id_ex.rd # 0
  /\ id_ex.rd \in {if_id.instruction.rs1, if_id.instruction.rs2}

(* id_stage.v: what ID/EX loads when it is neither flushed nor stalled.    *)
(* Reads go through the register file's write-first bypass.                *)
decode(p, i, data1, data2) ==
  [pc |-> p, read_data1 |-> data1, read_data2 |-> data2,
   immediate |-> immediate_generator(i),
   rs1 |-> i.rs1, rs2 |-> i.rs2, rd |-> i.rd,
   funct3 |-> i.funct3, funct7 |-> i.funct7,
   ctl |-> control_unit(i.opcode)]

\* Fault: the register file has no write-first bypass.
id_read_NoBypass(rs) == register_read(registers, FALSE, 0, 0, rs)

id_read(rs) ==
  register_read(registers, mem_wb.RegWrite, mem_wb.rd, wb_write_back_data, rs)

id_stage ==
  decode(if_id.pc, if_id.instruction,
         id_read(if_id.instruction.rs1), id_read(if_id.instruction.rs2))

\* Fault: the older result wins.
forward_OlderFirst(rs) ==
  CASE mem_wb.RegWrite /\ mem_wb.rd # 0 /\ mem_wb.rd = rs -> "MEM/WB"
    [] ~(mem_wb.RegWrite /\ mem_wb.rd # 0 /\ mem_wb.rd = rs)
       /\ ex_mem.RegWrite /\ ex_mem.rd # 0 /\ ex_mem.rd = rs -> "EX/MEM"
    [] OTHER -> "ID/EX"

(* EX: forwarding_unit.v, in which EX/MEM, the more recent result, wins.   *)
forward(rs) ==
  CASE ex_mem.RegWrite /\ ex_mem.rd # 0 /\ ex_mem.rd = rs -> "EX/MEM"
    [] ~(ex_mem.RegWrite /\ ex_mem.rd # 0 /\ ex_mem.rd = rs)
       /\ mem_wb.RegWrite /\ mem_wb.rd # 0 /\ mem_wb.rd = rs -> "MEM/WB"
    [] OTHER -> "ID/EX"

forwardA == forward(id_ex.rs1)
forwardB == forward(id_ex.rs2)

\* The multiplexers the forwarding unit drives in ex_stage.v.
forwarded(source, read_data) ==
  CASE source = "EX/MEM" -> ex_mem.alu_result
    [] source = "MEM/WB" -> wb_write_back_data
    [] OTHER             -> read_data

operand1_fwd  == forwarded(forwardA, id_ex.read_data1)
operand2_base == forwarded(forwardB, id_ex.read_data2)

ex_stage ==
  execute(id_ex.ctl, id_ex.funct3, id_ex.funct7, id_ex.immediate, id_ex.pc,
          operand1_fwd, operand2_base)

\* A taken branch or a jump in EX squashes the two younger instructions.
pipeline_flush ==
  (id_ex.ctl.Branch /\ ex_stage.branch_taken) \/ id_ex.ctl.Jump

-----------------------------------------------------------------------------
(* The value each flip-flop loads at a clock edge with reset low. *)

\* Fault: the incrementer is wider than the program counter.
next_pc_NoWrap ==
  CASE hazard_stall                     -> pc
    [] ~hazard_stall /\ pipeline_flush  -> ex_stage.branch_target
    [] OTHER                            -> pc + 4

next_pc ==
  CASE hazard_stall                     -> pc
    [] ~hazard_stall /\ pipeline_flush  -> ex_stage.branch_target
    [] OTHER                            -> ToWord(pc + 4)

next_if_id ==
  CASE pipeline_flush                   -> IfIdBubble
    [] ~pipeline_flush /\ hazard_stall  -> if_id
    [] OTHER -> [pc |-> pc, instruction |-> fetch(imem, pc)]

\* Fault: a stall inserts no bubble.
next_id_ex_NoBubble == IF pipeline_flush THEN IdExBubble ELSE id_stage

next_id_ex == IF pipeline_flush \/ hazard_stall THEN IdExBubble ELSE id_stage

ex_mem_load(rd, ctl, e) ==
  [alu_result |-> e.alu_result, write_data |-> e.store_data, rd |-> rd,
   branch_target |-> e.branch_target, branch_taken |-> e.branch_taken,
   pc_plus4 |-> e.pc_plus4,
   RegWrite |-> ctl.RegWrite, MemRead |-> ctl.MemRead, MemWrite |-> ctl.MemWrite,
   MemtoReg |-> ctl.MemtoReg, Branch |-> ctl.Branch, Jump |-> ctl.Jump]

next_ex_mem == ex_mem_load(id_ex.rd, id_ex.ctl, ex_stage)

next_mem_wb(mem_read_data) ==
  [read_data  |-> mem_read_data,
   alu_result |-> ex_mem.alu_result,
   pc_plus4   |-> ex_mem.pc_plus4,
   rd         |-> ex_mem.rd,
   RegWrite   |-> ex_mem.RegWrite,
   MemtoReg   |-> ex_mem.MemtoReg,
   Jump       |-> ex_mem.Jump]

next_registers ==
  register_write(registers, mem_wb.RegWrite, mem_wb.rd, wb_write_back_data)

next_live ==
  [if_id  |-> ~pipeline_flush /\ (hazard_stall => live.if_id),
   id_ex  |-> ~pipeline_flush /\ ~hazard_stall /\ live.if_id,
   ex_mem |-> live.id_ex,
   pc     |-> id_ex.pc]

-----------------------------------------------------------------------------

Init ==
  /\ reset = TRUE
  /\ imem \in Programs
  /\ pc = 0
  /\ registers = ZeroRegisters
  /\ dmem \in PowerUp
  /\ if_id = IfIdBubble
  /\ id_ex = IdExBubble
  /\ ex_mem = ExMemReset
  /\ mem_wb = MemWbReset
  /\ live = NothingLive

\* data_memory is not reset: its write port is clocked whatever reset is.
mem_stage_write ==
  dmem' \in memory_writes(dmem, ex_mem.MemWrite, ex_mem.alu_result, ex_mem.write_data)

ClockEdge ==
  /\ ~reset
  /\ pc' = next_pc
  /\ if_id' = next_if_id
  /\ id_ex' = next_id_ex
  /\ ex_mem' = next_ex_mem
  /\ \E mem_read_data \in memory_reads(dmem, ex_mem.MemRead, ex_mem.alu_result) :
       mem_wb' = next_mem_wb(mem_read_data)
  /\ registers' = next_registers
  /\ mem_stage_write
  /\ live' = next_live
  /\ UNCHANGED <<reset, imem>>

\* Fault: EX/MEM has no reset.
AssertReset_KeepsExMem ==
  /\ ~reset
  /\ reset' = TRUE
  /\ pc' = 0
  /\ registers' = ZeroRegisters
  /\ if_id' = IfIdBubble
  /\ id_ex' = IdExBubble
  /\ mem_wb' = MemWbReset
  /\ live' = NothingLive
  /\ UNCHANGED <<imem, dmem, ex_mem>>

\* posedge reset: every flip-flop with an asynchronous reset clears at once.
AssertReset ==
  /\ ~reset
  /\ reset' = TRUE
  /\ pc' = 0
  /\ registers' = ZeroRegisters
  /\ if_id' = IfIdBubble
  /\ id_ex' = IdExBubble
  /\ ex_mem' = ExMemReset
  /\ mem_wb' = MemWbReset
  /\ live' = NothingLive
  /\ UNCHANGED <<imem, dmem>>

ReleaseReset ==
  /\ reset
  /\ reset' = FALSE
  /\ UNCHANGED <<imem, pc, registers, dmem, latches, live>>

\* A clock edge while reset is held: only the data memory can change.
ClockEdgeInReset ==
  /\ reset
  /\ mem_stage_write
  /\ UNCHANGED <<reset, imem, pc, registers, latches, live>>

Next == ClockEdge \/ AssertReset \/ ReleaseReset \/ ClockEdgeInReset

Spec == Init /\ [][Next]_vars

\* The clock runs for ever: an edge that can come does come.
FairSpec == Spec /\ WF_vars(ClockEdge)

-----------------------------------------------------------------------------
(***************************************************************************)
(* The refinement.  An instruction takes effect when it leaves EX/MEM: its *)
(* store is then in data memory and its result is in MEM/WB, from where    *)
(* the register file will take it.  The architectural registers are        *)
(* therefore the register file with MEM/WB's write applied.                *)
(***************************************************************************)

arch_registers == next_registers

\* The address of the oldest instruction younger than the one in EX/MEM.
following_pc ==
  CASE live.id_ex                  -> id_ex.pc
    [] ~live.id_ex /\ live.if_id   -> if_id.pc
    [] OTHER                       -> pc

\* The instruction that will take effect next is the oldest one in flight.
arch_pc ==
  IF live.ex_mem THEN live.pc ELSE following_pc

Arch == INSTANCE Isa WITH pc <- arch_pc, registers <- arch_registers

-----------------------------------------------------------------------------

IfId == [pc : Word, instruction : Instruction]

IdEx ==
  [pc : Word, read_data1 : Word, read_data2 : Word, immediate : Word,
   rs1 : Reg, rs2 : Reg, rd : Reg, funct3 : 0..7, funct7 : 0..127, ctl : Control]

ExMem ==
  [alu_result : Word, write_data : Word, rd : Reg, branch_target : Word,
   branch_taken : BOOLEAN, pc_plus4 : Word, RegWrite : BOOLEAN, MemRead : BOOLEAN,
   MemWrite : BOOLEAN, MemtoReg : BOOLEAN, Branch : BOOLEAN, Jump : BOOLEAN]

MemWb ==
  [read_data : Word, alu_result : Word, pc_plus4 : Word, rd : Reg,
   RegWrite : BOOLEAN, MemtoReg : BOOLEAN, Jump : BOOLEAN]

\* Every register holds a value of its width.
TypeOK ==
  /\ reset \in BOOLEAN
  /\ imem \in Programs
  /\ pc \in Word
  /\ registers \in [Reg -> Word]
  /\ dmem \in [DmemIndex -> Word]
  /\ if_id \in IfId
  /\ id_ex \in IdEx
  /\ ex_mem \in ExMem
  /\ mem_wb \in MemWb
  /\ live \in [if_id : BOOLEAN, id_ex : BOOLEAN, ex_mem : BOOLEAN, pc : Word]

\* The pipeline computes what the one-instruction-at-a-time machine computes:
\* forwarding, stalls, squashed fetches and an asynchronous reset never show
\* in the registers, in memory or in the order of the instructions.
RefinesIsa == Arch!Spec

-----------------------------------------------------------------------------
(* The argument for RefinesIsa, register by register. *)

arch_read(rs) == register_read(registers, FALSE, 0, 0, rs)

\* IF/ID holds what instruction_memory holds at its address, or nothing.
IfIdFetched ==
  IF live.if_id THEN if_id.instruction = fetch(imem, if_id.pc)
                ELSE if_id = IfIdBubble

\* ID/EX holds the decoded instruction with the operands of the register
\* file as it is now: the bypass covered the one write that could be missed.
IdExDecoded ==
  IF live.id_ex
  THEN LET i == fetch(imem, id_ex.pc)
       IN id_ex = decode(id_ex.pc, i, arch_read(i.rs1), arch_read(i.rs2))
  ELSE id_ex = IdExBubble

\* EX/MEM holds the result the architecture defines for its instruction:
\* every operand it used, forwarded or not, was the architectural one.  A
\* bubble writes no register and no memory and redirects nothing.
ExMemArchitectural ==
  IF live.ex_mem
  THEN LET i == fetch(imem, live.pc)
       IN ex_mem = ex_mem_load(i.rd, control_unit(i.opcode), Arch!executed)
  ELSE ~ex_mem.RegWrite /\ ~ex_mem.MemRead /\ ~ex_mem.MemWrite
       /\ ~ex_mem.MemtoReg /\ ~ex_mem.Branch /\ ~ex_mem.Jump

ex_mem_redirects == ex_mem.Jump \/ (ex_mem.Branch /\ ex_mem.branch_taken)

\* The instructions in flight are consecutive on the path the program really
\* takes: what follows a resolved branch or jump is its target, with nothing
\* of the wrong path left behind it.
OnePath ==
  /\ live.id_ex => live.if_id /\ if_id.pc = ToWord(id_ex.pc + 4)
  /\ live.if_id => pc = ToWord(if_id.pc + 4)
  /\ live.ex_mem =>
       following_pc = IF ex_mem_redirects THEN ex_mem.branch_target ELSE ex_mem.pc_plus4
  /\ ex_mem_redirects => ~live.id_ex /\ ~live.if_id

\* EX/MEM forwarding passes alu_result on, which for a load is its address.
\* The stall keeps the reader of a load one stage further behind.
LoadUseSeparated ==
  live.id_ex /\ ex_mem.MemRead /\ ex_mem.rd # 0 => ex_mem.rd \notin {id_ex.rs1, id_ex.rs2}

\* A stalled program counter ignores next_pc (program_counter.v:17), so a
\* redirect in the same cycle would be lost.
NoRedirectWhileStalled == ~(hazard_stall /\ pipeline_flush)

\* No cycle is lost without a reason: an empty slot right behind an instruction
\* is the shadow of a redirect or the bubble of a load-use stall, and fetching
\* resumes in the cycle after the redirect, or after reset (at address 0).
BubbleHasCause ==
  /\ live.ex_mem /\ ~live.id_ex =>
       \/ ex_mem_redirects
       \/ /\ ex_mem.MemRead /\ ex_mem.rd # 0 /\ live.if_id
          /\ ex_mem.rd \in {if_id.instruction.rs1, if_id.instruction.rs2}
  /\ ~live.ex_mem /\ ~live.id_ex /\ ~live.if_id => pc = 0

\* While reset is held the pipeline is empty.
ResetEmpty == reset => live = NothingLive

\* The inductive invariant: each register against the instruction it holds.
PipelineInv ==
  /\ ResetEmpty
  /\ IfIdFetched
  /\ IdExDecoded
  /\ ExMemArchitectural
  /\ OnePath
  /\ LoadUseSeparated

\* A load-use hazard costs one cycle: the bubble it inserts ends it.
StallLastsOneCycle == [][hazard_stall => ~hazard_stall']_vars

\* An asynchronous reset never lets a store through, although data memory is
\* not reset and its write port stays clocked.
ResetStoresNothing == [][reset \/ reset' => dmem' = dmem]_vars

\* Once reset stays low, instructions keep completing.
Progress == <>[]~reset => []<>live.ex_mem

=============================================================================
