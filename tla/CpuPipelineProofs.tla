------------------------- MODULE CpuPipelineProofs -------------------------
(***************************************************************************)
(* The pipeline refines the one-instruction-at-a-time machine, for every   *)
(* program, word width and memory size.  The datapath (alu, immediates,    *)
(* comparator, memory outcomes) stays opaque: nothing is used of it but    *)
(* that equal inputs give equal outputs.  Then what follows for the ports  *)
(* of the synthesis wrapper (SynthTop), and for the always blocks of the   *)
(* core under the simulator (ClockedProcesses).                            *)
(***************************************************************************)
EXTENDS SynthTop, ClockedProcesses, DatapathProofs, FiniteSetTheorems

(* What the proof needs of the types: the register file is indexed by Reg, *)
(* and the fields that index it are in Reg.  Data words need no type.      *)
IndexOK ==
  /\ imem \in Programs
  /\ registers = [r \in Reg |-> registers[r]]
  /\ ex_mem.rd \in Reg
  /\ mem_wb.rd \in Reg

Inv == IndexOK /\ PipelineInv

\* The architectural registers once the instruction in EX/MEM has completed,
\* with d the word data memory gives it.
RegistersAfter(d) ==
  register_write(arch_registers, ex_mem.RegWrite, ex_mem.rd,
    write_back_data(ex_mem.Jump, ex_mem.MemtoReg, ex_mem.pc_plus4, d, ex_mem.alu_result))

\* The controls of a bubble, as reset and flush load them into ID/EX.
LEMMA BubbleControls ==
  /\ ~NoControl.RegWrite /\ ~NoControl.MemRead /\ ~NoControl.MemWrite
  /\ ~NoControl.MemtoReg /\ ~NoControl.Branch /\ ~NoControl.Jump
  BY DEF NoControl, control_unit

-----------------------------------------------------------------------------
(* Consequences of the invariant in one state. *)

\* A bubble in EX neither stalls nor redirects; a load stalls, a branch or
\* jump redirects, and nothing does both.
LEMMA StallOrRedirect ==
  ASSUME Inv
  PROVE  /\ NoRedirectWhileStalled
         /\ ~live.id_ex => ~hazard_stall /\ ~pipeline_flush
<1>1. CASE live.id_ex
  <2>1. id_ex.ctl = control_unit(fetch(imem, id_ex.pc).opcode)
    BY <1>1 DEF Inv, PipelineInv, IdExDecoded, decode
  <2> QED
    BY <1>1, <2>1, DecodeExclusive DEF NoRedirectWhileStalled, hazard_stall, pipeline_flush
<1>2. CASE ~live.id_ex
  <2>1. id_ex.ctl = NoControl
    BY <1>2 DEF Inv, PipelineInv, IdExDecoded, IdExBubble
  <2> QED
    BY <2>1, BubbleControls DEF NoRedirectWhileStalled, hazard_stall, pipeline_flush
<1> QED
  BY <1>1, <1>2

\* What ID/EX holds for an instruction.
LEMMA IdExFields ==
  ASSUME Inv, live.id_ex, NEW i, i = fetch(imem, id_ex.pc)
  PROVE  /\ i \in Instruction
         /\ id_ex.rs1 = i.rs1 /\ id_ex.rs2 = i.rs2 /\ id_ex.rd = i.rd
         /\ id_ex.rs1 \in Reg /\ id_ex.rs2 \in Reg /\ id_ex.rd \in Reg
         /\ id_ex.funct3 = i.funct3 /\ id_ex.funct7 = i.funct7
         /\ id_ex.immediate = immediate_generator(i)
         /\ id_ex.ctl = control_unit(i.opcode)
         /\ id_ex.read_data1 = arch_read(id_ex.rs1)
         /\ id_ex.read_data2 = arch_read(id_ex.rs2)
<1>1. i \in Instruction
  BY FetchType DEF Inv, IndexOK
<1>2. id_ex = decode(id_ex.pc, i, arch_read(i.rs1), arch_read(i.rs2))
  BY DEF Inv, PipelineInv, IdExDecoded
<1> QED
  BY <1>1, <1>2 DEF decode, Instruction

\* EX/MEM can only be forwarded from when its result is its ALU output: it is
\* no load (the stall) and no jump (the flush).
LEMMA ForwardsAluResult ==
  ASSUME Inv, live.id_ex, NEW rs \in {id_ex.rs1, id_ex.rs2},
         ex_mem.RegWrite, ex_mem.rd # 0, ex_mem.rd = rs
  PROVE  ~ex_mem.Jump /\ ~ex_mem.MemtoReg
<1>1. ~ex_mem.Jump
  BY DEF Inv, PipelineInv, OnePath, ex_mem_redirects
<1>2. live.ex_mem
  BY DEF Inv, PipelineInv, ExMemArchitectural
<1>3. ex_mem.MemRead = ex_mem.MemtoReg
  <2>1. /\ ex_mem.MemRead = control_unit(fetch(imem, live.pc).opcode).MemRead
        /\ ex_mem.MemtoReg = control_unit(fetch(imem, live.pc).opcode).MemtoReg
    BY <1>2 DEF Inv, PipelineInv, ExMemArchitectural, ex_mem_load
  <2> QED
    BY <2>1, DecodeExclusive
<1>4. ~ex_mem.MemRead
  BY DEF Inv, PipelineInv, LoadUseSeparated
<1> QED
  BY <1>1, <1>3, <1>4

\* The forwarding multiplexer selects the value the register will have when
\* the instruction in EX takes effect.
LEMMA ForwardIsArchitectural ==
  ASSUME Inv, live.id_ex, NEW rs \in {id_ex.rs1, id_ex.rs2}, NEW d
  PROVE  forwarded(forward(rs), arch_read(rs))
           = register_read(RegistersAfter(d), FALSE, 0, 0, rs)
<1> DEFINE A == ex_mem.RegWrite /\ ex_mem.rd # 0 /\ ex_mem.rd = rs
           B == mem_wb.RegWrite /\ mem_wb.rd # 0 /\ mem_wb.rd = rs
           wbd == write_back_data(ex_mem.Jump, ex_mem.MemtoReg, ex_mem.pc_plus4, d,
                                  ex_mem.alu_result)
<1>1. rs \in Reg
  BY IdExFields
<1>2. arch_registers = [r \in Reg |-> arch_registers[r]]
  BY WriteShape DEF Inv, IndexOK, arch_registers, next_registers
<1>3. register_read(RegistersAfter(d), FALSE, 0, 0, rs)
        = IF rs # 0 /\ ex_mem.RegWrite /\ ex_mem.rd = rs THEN wbd
          ELSE register_read(arch_registers, FALSE, 0, 0, rs)
  <2>1. ex_mem.rd \in Reg
    BY DEF Inv, IndexOK
  <2> HIDE DEF wbd
  <2>2. register_read(register_write(arch_registers, ex_mem.RegWrite, ex_mem.rd, wbd),
                      FALSE, 0, 0, rs)
          = IF rs # 0 /\ ex_mem.RegWrite /\ ex_mem.rd = rs THEN wbd
            ELSE register_read(arch_registers, FALSE, 0, 0, rs)
    BY <1>1, <1>2, <2>1 DEF register_read, register_write, Reg
  <2> QED
    BY <2>2 DEF RegistersAfter, wbd
<1>4. register_read(arch_registers, FALSE, 0, 0, rs)
        = IF rs # 0 /\ mem_wb.RegWrite /\ mem_wb.rd = rs THEN wb_write_back_data
          ELSE arch_read(rs)
  <2>1. mem_wb.rd \in Reg /\ registers = [r \in Reg |-> registers[r]]
    BY DEF Inv, IndexOK
  <2>2. register_read(register_write(registers, mem_wb.RegWrite, mem_wb.rd,
                                     wb_write_back_data), FALSE, 0, 0, rs)
          = IF rs # 0 /\ mem_wb.RegWrite /\ mem_wb.rd = rs THEN wb_write_back_data
            ELSE register_read(registers, FALSE, 0, 0, rs)
    BY <1>1, <2>1 DEF register_read, register_write, Reg
  <2> QED
    BY <2>2 DEF arch_registers, next_registers, arch_read
<1>5. CASE A
  <2>1. wbd = ex_mem.alu_result
    BY <1>5, ForwardsAluResult DEF write_back_data
  <2> QED
    BY <1>3, <1>5, <2>1 DEF forward, forwarded
<1>6. CASE ~A /\ B
  <2>1. forward(rs) = "MEM/WB"
    BY <1>6 DEF forward
  <2>2. forwarded("MEM/WB", arch_read(rs)) = wb_write_back_data
    BY DEF forwarded
  <2>3. register_read(RegistersAfter(d), FALSE, 0, 0, rs)
          = register_read(arch_registers, FALSE, 0, 0, rs)
    <3>1. ~(rs # 0 /\ ex_mem.RegWrite /\ ex_mem.rd = rs)
      BY <1>6
    <3> HIDE DEF wbd
    <3> QED
      BY <1>3, <3>1, Zenon
  <2>4. register_read(arch_registers, FALSE, 0, 0, rs) = wb_write_back_data
    BY <1>4, <1>6
  <2> QED
    BY <2>1, <2>2, <2>3, <2>4
<1>7. CASE ~A /\ ~B
  BY <1>3, <1>4, <1>7 DEF forward, forwarded
<1> QED
  BY <1>5, <1>6, <1>7

-----------------------------------------------------------------------------
(* A clock edge with reset low. *)

\* The register file catches up with the architectural registers, which in
\* turn move on to the instruction in EX/MEM.
LEMMA EdgeRegisters ==
  ASSUME ClockEdge, NEW d, mem_wb' = next_mem_wb(d)
  PROVE  registers' = arch_registers /\ arch_registers' = RegistersAfter(d)
<1>1. registers' = arch_registers
  BY DEF ClockEdge, arch_registers
<1>2. /\ mem_wb'.RegWrite = ex_mem.RegWrite /\ mem_wb'.rd = ex_mem.rd
      /\ mem_wb'.Jump = ex_mem.Jump /\ mem_wb'.MemtoReg = ex_mem.MemtoReg
      /\ mem_wb'.pc_plus4 = ex_mem.pc_plus4 /\ mem_wb'.read_data = d
      /\ mem_wb'.alu_result = ex_mem.alu_result
  BY DEF next_mem_wb
<1> QED
  BY <1>1, <1>2 DEF RegistersAfter, arch_registers, next_registers, wb_write_back_data

\* A clock edge keeps every register number in range.
LEMMA EdgeIndexOK ==
  ASSUME Inv, ClockEdge
  PROVE  IndexOK'
<1>1. imem' \in Programs
  BY DEF ClockEdge, Inv, IndexOK
<1>2. registers' = [r \in Reg |-> registers'[r]]
  BY WriteShape DEF ClockEdge, next_registers, Inv, IndexOK
<1>3. ex_mem'.rd \in Reg
  <2>1. ex_mem'.rd = id_ex.rd
    BY DEF ClockEdge, next_ex_mem, ex_mem_load
  <2>2. CASE live.id_ex
    BY <2>1, <2>2, IdExFields
  <2>3. CASE ~live.id_ex
    BY <2>1, <2>3 DEF Inv, PipelineInv, IdExDecoded, IdExBubble, Reg
  <2> QED
    BY <2>2, <2>3
<1>4. mem_wb'.rd \in Reg
  BY DEF ClockEdge, next_mem_wb, Inv, IndexOK
<1> QED
  BY <1>1, <1>2, <1>3, <1>4 DEF IndexOK

\* A clock edge leaves in IF/ID a fetched instruction, held or new, or a bubble.
LEMMA EdgeIfId ==
  ASSUME Inv, ClockEdge
  PROVE  IfIdFetched'
<1>1. /\ live'.if_id = (~pipeline_flush /\ (hazard_stall => live.if_id))
      /\ if_id' = next_if_id /\ imem' = imem
  BY DEF ClockEdge, next_live
<1>2. CASE pipeline_flush
  BY <1>1, <1>2 DEF next_if_id, IfIdFetched
<1>3. CASE ~pipeline_flush /\ hazard_stall
  BY <1>1, <1>3 DEF next_if_id, IfIdFetched, Inv, PipelineInv
<1>4. CASE ~pipeline_flush /\ ~hazard_stall
  BY <1>1, <1>4 DEF next_if_id, IfIdFetched
<1> QED
  BY <1>2, <1>3, <1>4

\* A clock edge leaves in ID/EX the decoded instruction with up to date operands:
\* the one write the array read would miss is the one the bypass supplies.
LEMMA EdgeIdEx ==
  ASSUME Inv, ClockEdge
  PROVE  IdExDecoded'
<1>1. /\ live'.id_ex = (~pipeline_flush /\ ~hazard_stall /\ live.if_id)
      /\ id_ex' = next_id_ex /\ imem' = imem
      /\ registers' = register_write(registers, mem_wb.RegWrite, mem_wb.rd, wb_write_back_data)
  BY DEF ClockEdge, next_live, next_registers
<1>2. CASE pipeline_flush \/ hazard_stall
  BY <1>1, <1>2 DEF next_id_ex, IdExDecoded
<1>3. CASE ~pipeline_flush /\ ~hazard_stall /\ live.if_id
  <2> DEFINE i == fetch(imem, if_id.pc)
  <2>1. if_id.instruction = i /\ i.rs1 \in Reg /\ i.rs2 \in Reg
    BY <1>3, FetchType DEF Inv, IndexOK, PipelineInv, IfIdFetched, Instruction
  <2>2. ASSUME NEW rs \in Reg
        PROVE  id_read(rs) = register_read(registers', FALSE, 0, 0, rs)
    <3>1. mem_wb.rd \in Reg /\ registers = [r \in Reg |-> registers[r]]
      BY DEF Inv, IndexOK
    <3> QED
      BY <1>1, <3>1 DEF id_read, register_read, register_write, Reg
  <2>3. id_ex' = decode(if_id.pc, i, register_read(registers', FALSE, 0, 0, i.rs1),
                       register_read(registers', FALSE, 0, 0, i.rs2))
    BY <1>1, <1>3, <2>1, <2>2 DEF next_id_ex, id_stage
  <2>4. id_ex'.pc = if_id.pc
    BY <2>3 DEF decode
  <2> QED
    BY <1>1, <1>3, <2>3, <2>4 DEF IdExDecoded, arch_read
<1>4. CASE ~pipeline_flush /\ ~hazard_stall /\ ~live.if_id
  <2>1. if_id = IfIdBubble
    BY <1>4 DEF Inv, PipelineInv, IfIdFetched
  <2>2. id_stage = IdExBubble
    <3>1. immediate_generator(ZeroInstruction) = 0
      BY DEF immediate_generator, ZeroInstruction
    <3>2. id_read(0) = 0
      BY DEF id_read, register_read
    <3> QED
      BY <2>1, <3>1, <3>2
      DEF id_stage, IfIdBubble, IdExBubble, ZeroInstruction, decode, NoControl
  <2> QED
    BY <1>1, <1>4, <2>2 DEF next_id_ex, IdExDecoded
<1> QED
  BY <1>2, <1>3, <1>4

\* A clock edge leaves in EX/MEM the architectural result: the operands EX used
\* are the ones forwarding supplied (ForwardIsArchitectural).
LEMMA EdgeExMem ==
  ASSUME Inv, ClockEdge
  PROVE  ExMemArchitectural'
<1> PICK d : mem_wb' = next_mem_wb(d)
  BY DEF ClockEdge
<1>1. /\ live'.ex_mem = live.id_ex /\ live'.pc = id_ex.pc /\ imem' = imem
      /\ ex_mem' = ex_mem_load(id_ex.rd, id_ex.ctl, ex_stage)
  BY DEF ClockEdge, next_live, next_ex_mem
<1>2. CASE live.id_ex
  <2> DEFINE i == fetch(imem, id_ex.pc)
             after(rs) == register_read(arch_registers', FALSE, 0, 0, rs)
  <2>1. /\ id_ex.rs1 = i.rs1 /\ id_ex.rs2 = i.rs2 /\ id_ex.rd = i.rd
        /\ id_ex.funct3 = i.funct3 /\ id_ex.funct7 = i.funct7
        /\ id_ex.immediate = immediate_generator(i)
        /\ id_ex.ctl = control_unit(i.opcode)
        /\ id_ex.read_data1 = arch_read(id_ex.rs1)
        /\ id_ex.read_data2 = arch_read(id_ex.rs2)
    BY <1>2, IdExFields
  <2>2. operand1_fwd = after(i.rs1) /\ operand2_base = after(i.rs2)
    <3>1. arch_registers' = RegistersAfter(d)
      BY EdgeRegisters
    <3>2. /\ forwarded(forward(id_ex.rs1), arch_read(id_ex.rs1))
               = register_read(RegistersAfter(d), FALSE, 0, 0, id_ex.rs1)
          /\ forwarded(forward(id_ex.rs2), arch_read(id_ex.rs2))
               = register_read(RegistersAfter(d), FALSE, 0, 0, id_ex.rs2)
      BY <1>2, ForwardIsArchitectural
    <3> QED
      BY <2>1, <3>1, <3>2 DEF operand1_fwd, operand2_base, forwardA, forwardB
  <2>3. arch_pc' = id_ex.pc
    BY <1>1, <1>2 DEF arch_pc
  <2>4. Arch!executed' = execute(control_unit(i.opcode), i.funct3, i.funct7,
                                immediate_generator(i), id_ex.pc, after(i.rs1), after(i.rs2))
    BY <1>1, <2>3 DEF Arch!executed, Arch!read
  <2>5. ex_stage = Arch!executed'
    BY <2>1, <2>2, <2>4 DEF ex_stage
  <2> QED
    BY <1>1, <1>2, <2>1, <2>5 DEF ExMemArchitectural
<1>3. CASE ~live.id_ex
  <2>1. id_ex.ctl = NoControl
    BY <1>3 DEF Inv, PipelineInv, IdExDecoded, IdExBubble
  <2> QED
    BY <1>1, <1>3, <2>1, BubbleControls DEF ExMemArchitectural, ex_mem_load
<1> QED
  BY <1>2, <1>3

\* The stall keeps the reader of a load out of EX while the load is in MEM.
LEMMA EdgeLoadUse ==
  ASSUME Inv, ClockEdge
  PROVE  LoadUseSeparated'
<1> SUFFICES ASSUME live'.id_ex, ex_mem'.MemRead, ex_mem'.rd # 0
             PROVE  ex_mem'.rd \notin {id_ex'.rs1, id_ex'.rs2}
  BY DEF LoadUseSeparated
<1>1. ~pipeline_flush /\ ~hazard_stall
  BY DEF ClockEdge, next_live
<1>2. id_ex'.rs1 = if_id.instruction.rs1 /\ id_ex'.rs2 = if_id.instruction.rs2
  BY <1>1 DEF ClockEdge, next_id_ex, id_stage, decode
<1>3. ex_mem'.rd = id_ex.rd /\ ex_mem'.MemRead = id_ex.ctl.MemRead
  BY DEF ClockEdge, next_ex_mem, ex_mem_load
<1> QED
  BY <1>1, <1>2, <1>3 DEF hazard_stall

\* A clock edge keeps the instructions in flight consecutive: a redirect squashes
\* both younger ones and a stall, which never meets a redirect, holds them.
LEMMA EdgeOnePath ==
  ASSUME Inv, ClockEdge
  PROVE  OnePath'
<1>1. /\ live'.if_id = (~pipeline_flush /\ (hazard_stall => live.if_id))
      /\ live'.id_ex = (~pipeline_flush /\ ~hazard_stall /\ live.if_id)
      /\ live'.ex_mem = live.id_ex
      /\ pc' = next_pc /\ if_id' = next_if_id /\ id_ex' = next_id_ex
  BY DEF ClockEdge, next_live
<1>2. /\ ex_mem'.Jump = id_ex.ctl.Jump /\ ex_mem'.Branch = id_ex.ctl.Branch
      /\ ex_mem'.branch_taken = ex_stage.branch_taken
      /\ ex_mem'.branch_target = ex_stage.branch_target
      /\ ex_mem'.pc_plus4 = ex_stage.pc_plus4
  BY DEF ClockEdge, next_ex_mem, ex_mem_load
<1>3. ex_mem_redirects' = pipeline_flush
  BY <1>2 DEF ex_mem_redirects, pipeline_flush
<1>4. ex_stage.pc_plus4 = ToWord(id_ex.pc + 4)
  BY DEF ex_stage, execute
<1>5. ~(hazard_stall /\ pipeline_flush)
  BY StallOrRedirect DEF NoRedirectWhileStalled
<1>6. CASE pipeline_flush
  <2>1. ~live'.if_id /\ ~live'.id_ex /\ pc' = ex_stage.branch_target
    BY <1>1, <1>5, <1>6 DEF next_pc
  <2> QED
    BY <1>2, <1>3, <1>6, <2>1 DEF OnePath, following_pc
<1>7. CASE ~pipeline_flush /\ hazard_stall
  <2>1. ~live'.id_ex /\ (live'.if_id <=> live.if_id) /\ pc' = pc /\ if_id' = if_id
    BY <1>1, <1>7 DEF next_pc, next_if_id
  <2>2. live.id_ex /\ live.if_id /\ if_id.pc = ToWord(id_ex.pc + 4)
    BY <1>7, StallOrRedirect DEF Inv, PipelineInv, OnePath
  <2>3. following_pc' = ToWord(id_ex.pc + 4)
    BY <2>1, <2>2 DEF following_pc
  <2>4. pc' = ToWord(if_id'.pc + 4)
    BY <2>1, <2>2 DEF Inv, PipelineInv, OnePath
  <2> QED
    BY <1>2, <1>3, <1>4, <1>7, <2>1, <2>3, <2>4 DEF OnePath
<1>8. CASE ~pipeline_flush /\ ~hazard_stall
  <2>1. /\ live'.if_id /\ (live'.id_ex <=> live.if_id)
        /\ pc' = ToWord(pc + 4) /\ if_id'.pc = pc /\ id_ex'.pc = if_id.pc
    BY <1>1, <1>8 DEF next_pc, next_if_id, next_id_ex, id_stage, decode
  <2>2. live.if_id => pc = ToWord(if_id.pc + 4)
    BY DEF Inv, PipelineInv, OnePath
  <2>3. live.id_ex => live.if_id /\ if_id.pc = ToWord(id_ex.pc + 4)
    BY DEF Inv, PipelineInv, OnePath
  <2>4. live.id_ex => following_pc' = ToWord(id_ex.pc + 4)
    BY <2>1, <2>3 DEF following_pc
  <2> QED
    BY <1>1, <1>2, <1>3, <1>4, <1>8, <2>1, <2>2, <2>4 DEF OnePath
<1> QED
  BY <1>6, <1>7, <1>8

\* The program moves to the instruction after the one in EX/MEM.
LEMMA EdgePc ==
  ASSUME Inv, ClockEdge
  PROVE  arch_pc' = following_pc
<1>1. /\ live'.if_id = (~pipeline_flush /\ (hazard_stall => live.if_id))
      /\ live'.id_ex = (~pipeline_flush /\ ~hazard_stall /\ live.if_id)
      /\ live'.ex_mem = live.id_ex /\ live'.pc = id_ex.pc
      /\ if_id' = next_if_id /\ id_ex' = next_id_ex
  BY DEF ClockEdge, next_live
<1>2. CASE live.id_ex
  BY <1>1, <1>2 DEF arch_pc, following_pc
<1>3. CASE ~live.id_ex
  <2>1. ~hazard_stall /\ ~pipeline_flush
    BY <1>3, StallOrRedirect
  <2>2. if_id'.pc = pc /\ id_ex'.pc = if_id.pc
    BY <1>1, <2>1 DEF next_if_id, next_id_ex, id_stage, decode
  <2> QED
    BY <1>1, <1>3, <2>1, <2>2 DEF arch_pc, following_pc
<1> QED
  BY <1>2, <1>3

-----------------------------------------------------------------------------
(* The invariant. *)

\* The empty pipeline after power-up satisfies the invariant.
LEMMA InvInit == Init => Inv
<1> SUFFICES ASSUME Init PROVE Inv
  OBVIOUS
<1>1. IndexOK
  BY DEF Init, IndexOK, ZeroRegisters, ExMemReset, MemWbReset, Reg
<1>2. ResetEmpty /\ IfIdFetched /\ IdExDecoded /\ LoadUseSeparated
  BY DEF Init, ResetEmpty, IfIdFetched, IdExDecoded, LoadUseSeparated, NothingLive
<1>3. ExMemArchitectural
  BY DEF Init, ExMemArchitectural, NothingLive, ExMemReset
<1>4. OnePath
  BY DEF Init, OnePath, NothingLive, ExMemReset, ex_mem_redirects
<1> QED
  BY <1>1, <1>2, <1>3, <1>4 DEF Inv, PipelineInv

\* An asynchronous reset, at any moment, empties the pipeline.
LEMMA InvAssertReset ==
  ASSUME Inv, AssertReset
  PROVE  Inv'
<1>1. IndexOK'
  BY DEF AssertReset, Inv, IndexOK, ZeroRegisters, ExMemReset, MemWbReset, Reg
<1>2. ResetEmpty' /\ IfIdFetched' /\ IdExDecoded' /\ LoadUseSeparated'
  BY DEF AssertReset, ResetEmpty, IfIdFetched, IdExDecoded, LoadUseSeparated, NothingLive
<1>3. ExMemArchitectural'
  BY DEF AssertReset, ExMemArchitectural, NothingLive, ExMemReset
<1>4. OnePath'
  BY DEF AssertReset, OnePath, NothingLive, ExMemReset, ex_mem_redirects
<1> QED
  BY <1>1, <1>2, <1>3, <1>4 DEF Inv, PipelineInv

\* Nothing in the invariant but ResetEmpty is about reset or data memory.
LEMMA InvUnchanged ==
  ASSUME Inv, ResetEmpty',
         UNCHANGED <<imem, pc, registers, if_id, id_ex, ex_mem, mem_wb, live>>
  PROVE  Inv'
<1>1. IndexOK'
  BY DEF Inv, IndexOK
<1>2. IfIdFetched' /\ LoadUseSeparated'
  BY DEF Inv, PipelineInv, IfIdFetched, LoadUseSeparated
<1>3. IdExDecoded'
  BY DEF Inv, PipelineInv, IdExDecoded, arch_read
<1>4. ExMemArchitectural'
  <2>1. Arch!executed' = Arch!executed
    BY DEF Arch!executed, Arch!read, arch_pc, following_pc, arch_registers, next_registers,
           wb_write_back_data
  <2> QED
    BY <2>1 DEF Inv, PipelineInv, ExMemArchitectural
<1>5. OnePath'
  BY DEF Inv, PipelineInv, OnePath, following_pc, ex_mem_redirects
<1> QED
  BY <1>1, <1>2, <1>3, <1>4, <1>5 DEF Inv, PipelineInv

\* Every step keeps the invariant: one case per action.
LEMMA InvNext == Inv /\ [Next]_vars => Inv'
<1> SUFFICES ASSUME Inv, [Next]_vars PROVE Inv'
  OBVIOUS
<1>1. CASE ClockEdge
  <2>1. ResetEmpty'
    BY <1>1 DEF ClockEdge, ResetEmpty
  <2> QED
    BY <1>1, <2>1, EdgeIndexOK, EdgeIfId, EdgeIdEx, EdgeExMem, EdgeLoadUse, EdgeOnePath
    DEF Inv, PipelineInv
<1>2. CASE AssertReset
  BY <1>2, InvAssertReset
<1>3. CASE ReleaseReset
  BY <1>3, InvUnchanged DEF ReleaseReset, ResetEmpty, latches
<1>4. CASE ClockEdgeInReset
  BY <1>4, InvUnchanged DEF ClockEdgeInReset, ResetEmpty, latches, Inv, PipelineInv
<1>5. CASE UNCHANGED vars
  BY <1>5, InvUnchanged DEF vars, ResetEmpty, Inv, PipelineInv
<1> QED
  BY <1>1, <1>2, <1>3, <1>4, <1>5 DEF Next

\* The invariant holds throughout.
LEMMA InvAlways == Spec => []Inv
  BY InvInit, InvNext, PTL DEF Spec

-----------------------------------------------------------------------------
(* The theorems. *)

\* Every pipeline register holds what the architecture defines for the
\* instruction in it, whatever mixture of forwarding, stalls, squashes and
\* resets led there.
THEOREM InvariantHolds == Spec => []PipelineInv
<1>1. Inv => PipelineInv
  BY DEF Inv
<1> QED
  BY <1>1, InvAlways, PTL

\* No redirect is computed in a cycle whose program counter is frozen.
THEOREM NoLostRedirect == Spec => []NoRedirectWhileStalled
<1>1. Inv => NoRedirectWhileStalled
  BY StallOrRedirect
<1> QED
  BY <1>1, InvAlways, PTL

\* An empty slot behind an instruction has one of two causes, and a redirect
\* leaves no cycle without a fetch.
THEOREM BubblesHaveCause == Spec => []BubbleHasCause
<1>1. Init => BubbleHasCause
  BY DEF Init, BubbleHasCause, NothingLive
<1>2. Inv /\ BubbleHasCause /\ [Next]_vars => BubbleHasCause'
  <2> SUFFICES ASSUME Inv, BubbleHasCause, [Next]_vars PROVE BubbleHasCause'
    OBVIOUS
  <2>1. CASE ClockEdge
    <3>1. /\ live'.if_id = (~pipeline_flush /\ (hazard_stall => live.if_id))
          /\ live'.id_ex = (~pipeline_flush /\ ~hazard_stall /\ live.if_id)
          /\ live'.ex_mem = live.id_ex
      BY <2>1 DEF ClockEdge, next_live
    <3>2. CASE live.id_ex /\ pipeline_flush
      <4>1. ex_mem_redirects'
        BY <2>1, <3>2 DEF ClockEdge, next_ex_mem, ex_mem_load, ex_mem_redirects, pipeline_flush
      <4> QED
        BY <3>1, <3>2, <4>1 DEF BubbleHasCause
    <3>3. CASE live.id_ex /\ ~pipeline_flush /\ hazard_stall
      <4>1. live.if_id
        BY <3>3 DEF Inv, PipelineInv, OnePath
      <4>2. /\ ex_mem'.rd = id_ex.rd /\ ex_mem'.MemRead = id_ex.ctl.MemRead
            /\ if_id' = if_id
        BY <2>1, <3>3 DEF ClockEdge, next_ex_mem, ex_mem_load, next_if_id
      <4> QED
        BY <3>1, <3>3, <4>1, <4>2 DEF BubbleHasCause, hazard_stall
    <3>4. CASE live.id_ex /\ ~pipeline_flush /\ ~hazard_stall
      BY <3>1, <3>4 DEF BubbleHasCause, Inv, PipelineInv, OnePath
    <3>5. CASE ~live.id_ex
      BY <3>1, <3>5, StallOrRedirect DEF BubbleHasCause
    <3> QED
      BY <3>2, <3>3, <3>4, <3>5
  <2>2. CASE AssertReset
    BY <2>2 DEF AssertReset, BubbleHasCause, NothingLive
  <2>3. CASE UNCHANGED <<pc, latches, live>>
    BY <2>3 DEF BubbleHasCause, ex_mem_redirects, latches
  <2> QED
    BY <2>1, <2>2, <2>3 DEF Next, ReleaseReset, ClockEdgeInReset, vars, latches
<1> QED
  BY <1>1, <1>2, InvAlways, PTL DEF Spec

\* A bubble in MEM writes no memory.
LEMMA BubbleStoresNothing ==
  ASSUME Inv, ~live.ex_mem, mem_stage_write
  PROVE  dmem' = dmem
<1>1. ~ex_mem.MemWrite
  BY DEF Inv, PipelineInv, ExMemArchitectural
<1> QED
  BY <1>1 DEF mem_stage_write, memory_writes

\* The hazard detection unit never stalls two cycles running.
THEOREM StallIsSingle == Spec => StallLastsOneCycle
<1>1. Inv /\ [Next]_vars => [hazard_stall => ~hazard_stall']_vars
  <2> SUFFICES ASSUME Inv, Next, hazard_stall PROVE ~hazard_stall'
    BY DEF vars
  <2>1. CASE id_ex' = IdExBubble
    <3>1. ~(id_ex'.ctl.MemRead)
      BY <2>1, BubbleControls DEF IdExBubble
    <3> QED
      BY <3>1 DEF hazard_stall
  <2>2. CASE ClockEdge
    BY <2>1, <2>2 DEF ClockEdge, next_id_ex
  <2>3. CASE AssertReset
    BY <2>1, <2>3 DEF AssertReset
  <2>4. CASE ReleaseReset \/ ClockEdgeInReset
    <3>1. ~live.id_ex
      BY <2>4 DEF ReleaseReset, ClockEdgeInReset, Inv, PipelineInv, ResetEmpty, NothingLive
    <3> QED
      BY <3>1, StallOrRedirect
  <2> QED
    BY <2>2, <2>3, <2>4 DEF Next
<1> QED
  BY <1>1, InvAlways, PTL DEF Spec, StallLastsOneCycle

\* No store reaches data memory at a reset or while reset is held.
THEOREM ResetIsClean == Spec => ResetStoresNothing
<1>1. Inv /\ [Next]_vars => [reset \/ reset' => dmem' = dmem]_vars
  <2> SUFFICES ASSUME Inv, Next, reset \/ reset' PROVE dmem' = dmem
    BY DEF vars
  <2>1. CASE ClockEdge
    BY <2>1 DEF ClockEdge
  <2>2. CASE AssertReset \/ ReleaseReset
    BY <2>2 DEF AssertReset, ReleaseReset
  <2>3. CASE ClockEdgeInReset
    <3>1. ~live.ex_mem
      BY <2>3 DEF ClockEdgeInReset, Inv, PipelineInv, ResetEmpty, NothingLive
    <3> QED
      BY <2>3, <3>1, BubbleStoresNothing DEF ClockEdgeInReset
  <2> QED
    BY <2>1, <2>2, <2>3 DEF Next
<1> QED
  BY <1>1, InvAlways, PTL DEF Spec, ResetStoresNothing

-----------------------------------------------------------------------------
(* The refinement. *)

\* The reset pipeline is the sequential machine at address 0.
LEMMA RefineInit == Init => Arch!Init
<1> SUFFICES ASSUME Init PROVE Arch!Init
  OBVIOUS
<1>1. arch_pc = 0
  BY DEF Init, arch_pc, following_pc, NothingLive
<1>2. arch_registers = ZeroRegisters
  BY DEF Init, arch_registers, next_registers, register_write, MemWbReset
<1> QED
  BY <1>1, <1>2 DEF Init, Arch!Init

\* An edge with an instruction in EX/MEM is that instruction's step.
LEMMA RefineStep ==
  ASSUME Inv, ClockEdge, live.ex_mem
  PROVE  Arch!Step
<1> DEFINE i   == fetch(imem, arch_pc)
           ctl == control_unit(i.opcode)
           e   == Arch!executed
<1>1. arch_pc = live.pc
  BY DEF arch_pc
<1>2. /\ ex_mem.alu_result = e.alu_result /\ ex_mem.write_data = e.store_data
      /\ ex_mem.rd = i.rd /\ ex_mem.branch_target = e.branch_target
      /\ ex_mem.branch_taken = e.branch_taken /\ ex_mem.pc_plus4 = e.pc_plus4
      /\ ex_mem.RegWrite = ctl.RegWrite /\ ex_mem.MemRead = ctl.MemRead
      /\ ex_mem.MemWrite = ctl.MemWrite /\ ex_mem.MemtoReg = ctl.MemtoReg
      /\ ex_mem.Branch = ctl.Branch /\ ex_mem.Jump = ctl.Jump
  BY <1>1 DEF Inv, PipelineInv, ExMemArchitectural, ex_mem_load
<1>3. PICK d \in memory_reads(dmem, ex_mem.MemRead, ex_mem.alu_result) :
        mem_wb' = next_mem_wb(d)
  BY DEF ClockEdge
<1>4. arch_registers' = RegistersAfter(d)
  BY <1>3, EdgeRegisters
<1>5. \E read_data \in memory_reads(dmem, ctl.MemRead, e.alu_result) :
        arch_registers' = register_write(arch_registers, ctl.RegWrite, i.rd,
          write_back_data(ctl.Jump, ctl.MemtoReg, e.pc_plus4, read_data, e.alu_result))
  <2>1. d \in memory_reads(dmem, ctl.MemRead, e.alu_result)
    BY <1>2
  <2>2. arch_registers' = register_write(arch_registers, ctl.RegWrite, i.rd,
          write_back_data(ctl.Jump, ctl.MemtoReg, e.pc_plus4, d, e.alu_result))
    BY <1>2, <1>4 DEF RegistersAfter
  <2> HIDE DEF i, ctl, e
  <2> QED
    BY <2>1, <2>2
<1>6. dmem' \in memory_writes(dmem, ctl.MemWrite, e.alu_result, e.store_data)
  BY <1>2 DEF ClockEdge, mem_stage_write
<1>7. arch_pc' = Arch!next_pc(ctl, e)
  <2>1. arch_pc' = IF ex_mem.Jump \/ (ex_mem.Branch /\ ex_mem.branch_taken)
                   THEN ex_mem.branch_target ELSE ex_mem.pc_plus4
    BY EdgePc DEF Inv, PipelineInv, OnePath, ex_mem_redirects
  <2> QED
    BY <1>2, <2>1 DEF Arch!next_pc
<1>8. ~reset /\ UNCHANGED <<reset, imem>>
  BY DEF ClockEdge
<1> QED
  BY <1>5, <1>6, <1>7, <1>8 DEF Arch!Step

\* An edge with a bubble in EX/MEM changes nothing a program can see.
LEMMA RefineBubble ==
  ASSUME Inv, ClockEdge, ~live.ex_mem
  PROVE  UNCHANGED Arch!vars
<1>1. PICK d : mem_wb' = next_mem_wb(d)
  BY DEF ClockEdge
<1>2. arch_registers' = RegistersAfter(d)
  BY <1>1, EdgeRegisters
<1>3. ~ex_mem.RegWrite
  BY DEF Inv, PipelineInv, ExMemArchitectural
<1>4. arch_registers' = arch_registers
  BY <1>2, <1>3 DEF RegistersAfter, register_write
<1>5. arch_pc' = arch_pc
  BY EdgePc DEF arch_pc
<1>6. dmem' = dmem
  BY BubbleStoresNothing DEF ClockEdge
<1> QED
  BY <1>4, <1>5, <1>6 DEF ClockEdge, Arch!vars

\* The architectural state depends on these variables only.
LEMMA RefineUnchanged ==
  ASSUME UNCHANGED <<pc, registers, if_id, id_ex, ex_mem, mem_wb, live>>
  PROVE  UNCHANGED <<arch_pc, arch_registers>>
  BY DEF arch_pc, following_pc, arch_registers, next_registers, wb_write_back_data

\* Every step of the pipeline is a step of the sequential machine or none.
LEMMA RefineNext == Inv /\ [Next]_vars => [Arch!Next]_(Arch!vars)
<1> SUFFICES ASSUME Inv, [Next]_vars PROVE Arch!Next \/ UNCHANGED Arch!vars
  OBVIOUS
<1>1. CASE ClockEdge
  BY <1>1, RefineStep, RefineBubble DEF Arch!Next
<1>2. CASE AssertReset
  <2>1. arch_pc' = 0
    BY <1>2 DEF AssertReset, arch_pc, following_pc, NothingLive
  <2>2. arch_registers' = ZeroRegisters
    BY <1>2 DEF AssertReset, arch_registers, next_registers, register_write, MemWbReset
  <2> QED
    BY <1>2, <2>1, <2>2 DEF AssertReset, Arch!AssertReset, Arch!Next
<1>3. CASE ReleaseReset
  BY <1>3, RefineUnchanged DEF ReleaseReset, latches, Arch!ReleaseReset, Arch!Next
<1>4. CASE ClockEdgeInReset
  <2>1. ~live.ex_mem
    BY <1>4 DEF ClockEdgeInReset, Inv, PipelineInv, ResetEmpty, NothingLive
  <2>2. dmem' = dmem
    BY <1>4, <2>1, BubbleStoresNothing DEF ClockEdgeInReset
  <2> QED
    BY <1>4, <2>2, RefineUnchanged DEF ClockEdgeInReset, latches, Arch!vars
<1>5. CASE UNCHANGED vars
  BY <1>5, RefineUnchanged DEF vars, Arch!vars
<1> QED
  BY <1>1, <1>2, <1>3, <1>4, <1>5 DEF Next

\* The pipeline implements the one-instruction-at-a-time machine, for every
\* program, word width, memory size and power-up contents.
THEOREM PipelineRefinesIsa == Spec => RefinesIsa
<1>1. Spec => Arch!Init /\ [][Arch!Next]_(Arch!vars)
  BY RefineInit, RefineNext, InvAlways, PTL DEF Spec
<1> QED
  BY <1>1 DEF RefinesIsa, Arch!Spec

-----------------------------------------------------------------------------
(* The types. *)

\* What reset and a flush load has the type of the register it is loaded into.
LEMMA ResetTypes ==
  /\ IfIdBubble \in IfId /\ IdExBubble \in IdEx
  /\ ExMemReset \in ExMem /\ MemWbReset \in MemWb
  /\ ZeroRegisters \in [Reg -> Word]
  /\ NothingLive \in [if_id : BOOLEAN, id_ex : BOOLEAN, ex_mem : BOOLEAN, pc : Word]
<1>1. 0 \in Word /\ 0 \in Reg
  BY WordRange DEF Reg
<1>2. IfIdBubble \in IfId
  BY <1>1 DEF IfIdBubble, IfId, ZeroInstruction, Instruction, Opcodes, Reg
<1>3. IdExBubble \in IdEx
  BY <1>1, ControlType DEF IdExBubble, IdEx, NoControl
<1>4. ExMemReset \in ExMem /\ MemWbReset \in MemWb
  BY <1>1 DEF ExMemReset, ExMem, MemWbReset, MemWb
<1> QED
  BY <1>1, <1>2, <1>3, <1>4 DEF ZeroRegisters, NothingLive

\* The value on the write port is a word.
LEMMA WriteBackType ==
  ASSUME TypeOK
  PROVE  wb_write_back_data \in Word
<1>1. /\ mem_wb.pc_plus4 \in Word /\ mem_wb.read_data \in Word /\ mem_wb.alu_result \in Word
  BY DEF TypeOK, MemWb
<1> QED
  BY <1>1, Zenon DEF wb_write_back_data, write_back_data

\* EX computes words, from whichever of the three sources its operands come.
LEMMA ExStageType ==
  ASSUME TypeOK
  PROVE  ex_stage \in Executed
<1>1. /\ id_ex.ctl \in Control /\ id_ex.funct3 \in 0..7 /\ id_ex.immediate \in Word
      /\ id_ex.pc \in Word /\ id_ex.read_data1 \in Word /\ id_ex.read_data2 \in Word
      /\ ex_mem.alu_result \in Word
  BY DEF TypeOK, IdEx, ExMem
<1>2. operand1_fwd \in Word /\ operand2_base \in Word
  BY <1>1, WriteBackType, Zenon DEF operand1_fwd, operand2_base, forwarded
<1> QED
  BY <1>1, <1>2, ExecuteType DEF ex_stage

\* A store outside data memory or inside leaves words in it.
LEMMA StoreType ==
  ASSUME TypeOK, mem_stage_write
  PROVE  dmem' \in [DmemIndex -> Word]
<1>1. ex_mem.alu_result \in Word /\ ex_mem.write_data \in Word
      /\ dmem \in [DmemIndex -> Word]
  BY DEF TypeOK, ExMem
<1> QED
  BY <1>1, MemoryWritesType DEF mem_stage_write

\* A clock edge loads every register with a value of its width.
LEMMA EdgeType ==
  ASSUME TypeOK, ClockEdge
  PROVE  TypeOK'
<1>1. reset' \in BOOLEAN /\ imem' \in Programs
  BY DEF TypeOK, ClockEdge
<1>2. /\ pc \in Word /\ if_id \in IfId /\ id_ex \in IdEx /\ ex_mem \in ExMem
      /\ mem_wb \in MemWb /\ imem \in Programs /\ registers \in [Reg -> Word]
      /\ dmem \in [DmemIndex -> Word]
      /\ live \in [if_id : BOOLEAN, id_ex : BOOLEAN, ex_mem : BOOLEAN, pc : Word]
  BY DEF TypeOK
<1>3. ex_stage \in Executed /\ wb_write_back_data \in Word
  BY ExStageType, WriteBackType
<1>4. pc' \in Word
  <2>1. ex_stage.branch_target \in Word
    BY <1>3 DEF Executed
  <2>2. ToWord(pc + 4) \in Word
    BY <1>2, WordRange DEF Word
  <2>3. next_pc \in {pc, ex_stage.branch_target, ToWord(pc + 4)}
    BY Zenon DEF next_pc
  <2> QED
    BY <1>2, <2>1, <2>2, <2>3 DEF ClockEdge
<1>5. if_id' \in IfId
  <2>1. [pc |-> pc, instruction |-> fetch(imem, pc)] \in IfId
    BY <1>2, FetchType DEF IfId
  <2>2. next_if_id \in {IfIdBubble, if_id, [pc |-> pc, instruction |-> fetch(imem, pc)]}
    BY Zenon DEF next_if_id
  <2> QED
    BY <1>2, <2>1, <2>2, ResetTypes DEF ClockEdge
<1>6. id_ex' \in IdEx
  <2> DEFINE i == if_id.instruction
  <2>1. if_id.pc \in Word /\ i \in Instruction
    BY <1>2 DEF IfId
  <2>2. /\ i.rs1 \in Reg /\ i.rs2 \in Reg /\ i.rd \in Reg
        /\ i.funct3 \in 0..7 /\ i.funct7 \in 0..127
    BY <2>1 DEF Instruction
  <2>3. immediate_generator(i) \in Word /\ control_unit(i.opcode) \in Control
    BY <2>1, ImmediateType, ControlType
  <2>4. id_read(i.rs1) \in Word /\ id_read(i.rs2) \in Word
    BY <1>2, <1>3, <2>2, RegisterReadType DEF id_read
  <2>5. id_stage \in IdEx
    BY <2>1, <2>2, <2>3, <2>4 DEF id_stage, decode, IdEx
  <2> QED
    BY <2>5, ResetTypes DEF ClockEdge, next_id_ex
<1>7. ex_mem' \in ExMem
  <2>1. id_ex.rd \in Reg /\ id_ex.ctl \in Control
    BY <1>2 DEF IdEx
  <2> QED
    BY <1>3, <2>1 DEF ClockEdge, next_ex_mem, ex_mem_load, ExMem, Executed, Control
<1>8. mem_wb' \in MemWb
  <2>1. PICK d \in memory_reads(dmem, ex_mem.MemRead, ex_mem.alu_result) :
          mem_wb' = next_mem_wb(d)
    BY DEF ClockEdge
  <2>2. d \in Word
    BY <1>2, <2>1, MemoryReadsType DEF ExMem
  <2> QED
    BY <1>2, <2>1, <2>2 DEF next_mem_wb, MemWb, ExMem
<1>9. registers' \in [Reg -> Word] /\ dmem' \in [DmemIndex -> Word]
  BY <1>2, <1>3, RegisterWriteType, StoreType DEF ClockEdge, next_registers
<1>10. live' \in [if_id : BOOLEAN, id_ex : BOOLEAN, ex_mem : BOOLEAN, pc : Word]
  <2>1. pipeline_flush \in BOOLEAN /\ hazard_stall \in BOOLEAN /\ id_ex.pc \in Word
    BY <1>2 DEF pipeline_flush, hazard_stall, IdEx
  <2> QED
    BY <1>2, <2>1 DEF ClockEdge, next_live
<1> QED
  BY <1>1, <1>4, <1>5, <1>6, <1>7, <1>8, <1>9, <1>10 DEF TypeOK

\* The pipeline has its types after power-up.
LEMMA TypeInit == Init => TypeOK
<1> SUFFICES ASSUME Init PROVE TypeOK
  OBVIOUS
<1>1. 0 \in Word
  BY WordRange
<1>2. dmem \in [DmemIndex -> Word]
  BY PowerUpAssumption DEF Init
<1> QED
  BY <1>1, <1>2, ResetTypes DEF Init, TypeOK

\* Every step keeps them.
LEMMA TypeNext == TypeOK /\ [Next]_vars => TypeOK'
<1> SUFFICES ASSUME TypeOK, [Next]_vars PROVE TypeOK'
  OBVIOUS
<1>1. CASE ClockEdge
  BY <1>1, EdgeType
<1>2. CASE AssertReset
  BY <1>2, ResetTypes, WordRange DEF AssertReset, TypeOK
<1>3. CASE ReleaseReset
  BY <1>3 DEF ReleaseReset, TypeOK, latches
<1>4. CASE ClockEdgeInReset
  BY <1>4, StoreType DEF ClockEdgeInReset, TypeOK, latches
<1>5. CASE UNCHANGED vars
  BY <1>5 DEF vars, TypeOK
<1> QED
  BY <1>1, <1>2, <1>3, <1>4, <1>5 DEF Next

\* Every register of the pipeline always holds a value of its width and data
\* memory its words, wherever stores and loads point.
THEOREM WidthsHold == Spec => []TypeOK
  BY TypeInit, TypeNext, PTL DEF Spec

-----------------------------------------------------------------------------
(* What the ports of synthesis/cpu_pipeline_synth_top.v show, and where    *)
(* the clock cycles go, for every program and memory size.                 *)

One(b) == IF b THEN 1 ELSE 0

\* The instructions in flight are counted stage by stage.
LEMMA InFlightSum ==
  InFlight = One(live.if_id) + One(live.id_ex) + One(live.ex_mem)
<1> DEFINE none == {}
           s1 == IF live["if_id"] THEN none \cup {"if_id"} ELSE none
           s2 == IF live["id_ex"] THEN s1 \cup {"id_ex"} ELSE s1
           s3 == IF live["ex_mem"] THEN s2 \cup {"ex_mem"} ELSE s2
<1>1. IsFiniteSet(none) /\ Cardinality(none) = 0
  BY FS_EmptySet
<1>2. IsFiniteSet(s1) /\ Cardinality(s1) = One(live["if_id"])
  BY <1>1, FS_AddElement DEF One
<1>3. IsFiniteSet(s2) /\ Cardinality(s2) = One(live["if_id"]) + One(live["id_ex"])
  <2>1. "id_ex" \notin s1 /\ Cardinality(s1) \in Nat
    BY <1>2 DEF One
  <2> HIDE DEF s1
  <2>2. /\ IsFiniteSet(s1 \cup {"id_ex"})
        /\ Cardinality(s1 \cup {"id_ex"}) = Cardinality(s1) + 1
    BY <1>2, <2>1, FS_AddElement
  <2> QED
    BY <1>2, <2>1, <2>2 DEF One
<1>4. Cardinality(s3) = One(live["if_id"]) + One(live["id_ex"]) + One(live["ex_mem"])
  <2>1. "ex_mem" \notin s2 /\ Cardinality(s2) \in Nat
    BY <1>3 DEF One
  <2> HIDE DEF s2
  <2>2. /\ IsFiniteSet(s2 \cup {"ex_mem"})
        /\ Cardinality(s2 \cup {"ex_mem"}) = Cardinality(s2) + 1
    BY <1>3, <2>1, FS_AddElement
  <2> QED
    BY <1>3, <2>1, <2>2 DEF One
<1>5. s3 = {stage \in {"if_id", "id_ex", "ex_mem"} : live[stage]}
  OBVIOUS
<1> QED
  BY <1>4, <1>5 DEF InFlight

\* Every step of the recorder is a step of the core or leaves it alone.
LEMMA TopCoreNext == [TopNext]_topVars => [Next]_vars
  BY DEF TopNext, topVars, TopEdge, TopReset, TopRelease, TopEdgeInReset, Next

-----------------------------------------------------------------------------
(* The recorder's invariant. *)

\* How long the ports have been idle, by the stage the next instruction to
\* complete has reached; while the pipeline fills, by the edges since reset.
IdleByStage ==
  /\ Len(pcs) = 0 <=> ~live.if_id /\ ~live.id_ex /\ ~live.ex_mem
  /\ Len(pcs) <= 3 => idle = Len(pcs)
  /\ Len(pcs) = 1 => live.if_id /\ ~live.id_ex /\ ~live.ex_mem
  /\ Len(pcs) = 2 => live.if_id /\ live.id_ex /\ ~live.ex_mem
  /\ Len(pcs) = 3 => live.ex_mem
  /\ Len(pcs) >= 4 => /\ idle <= 2
                      /\ ~live.ex_mem => idle <= 1
                      /\ ~live.ex_mem /\ ~live.id_ex => idle = 0

\* The addresses dbg_pc shows: now, one edge ago, and so on.
trail == <<pc>> \o pcs

\* h says that the instruction at address p was fetched k edges ago and never
\* waited in ID.
Direct(h, k, p) == Len(h) >= k + 1 /\ h[k] = ToWord(p + 4) /\ h[k + 1] = p

\* h says that it was fetched k + 1 edges ago and waited one cycle for a load.
Waited(h, k, p) ==
  /\ Len(h) >= k + 2
  /\ h[k] = ToWord(p + 4) /\ h[k + 1] = ToWord(p + 4) /\ h[k + 2] = p

Shown(h, k, p) == p \in Word /\ (Direct(h, k, p) \/ Waited(h, k, p))

\* w, in MEM/WB, is the result of the instruction at address p.
Wrote(mem, w, p) ==
  LET i == fetch(mem, p)
      ctl == control_unit(i.opcode)
  IN /\ w.RegWrite = ctl.RegWrite /\ w.rd = i.rd
     /\ w.Jump = ctl.Jump /\ w.pc_plus4 = ToWord(p + 4)

\* Each stage's instruction against the addresses dbg_pc has shown.
AddressesShown ==
  /\ live.if_id => Shown(trail, 1, if_id.pc)
  /\ live.if_id /\ live.id_ex => Direct(trail, 1, if_id.pc)
  /\ live.id_ex => Shown(trail, 2, id_ex.pc)
  /\ live.ex_mem => Shown(trail, 3, live.pc)
  /\ mem_wb.RegWrite => \E p \in Word : Shown(trail, 4, p) /\ Wrote(imem, mem_wb, p)

RecorderInv ==
  /\ pcs \in Seq(Word) /\ Len(pcs) <= History
  /\ idle \in 0..History
  /\ owed = One(live.if_id) + One(live.id_ex) + One(live.ex_mem)
  /\ IdleByStage
  /\ AddressesShown

TopInv == Inv /\ TypeOK /\ RecorderInv

-----------------------------------------------------------------------------
(* One sample. *)

\* h with one more address in front, the oldest beyond the recorder's reach.
Extends(g, h) ==
  /\ Len(g) = IF Len(h) <= History THEN Len(h) + 1 ELSE History + 1
  /\ \A j \in 1..History : j <= Len(h) => g[j + 1] = h[j]

\* A sample pushes the address of the edge and forgets what is too old.
LEMMA SampleTrail ==
  ASSUME TypeOK, pcs \in Seq(Word), Len(pcs) <= History, Sample, pc' \in Word
  PROVE  /\ pcs' \in Seq(Word) /\ Len(pcs') <= History
         /\ Len(pcs') = IF Len(pcs) < History THEN Len(pcs) + 1 ELSE History
         /\ Extends(trail', trail) /\ trail'[1] = pc' /\ trail[1] = pc
         /\ Len(trail') = Len(pcs') + 1
<1> DEFINE n == IF Len(pcs) < History THEN Len(pcs) ELSE History - 1
           tail == SubSeq(pcs, 1, n)
<1>1. pc \in Word /\ n \in Nat /\ n <= Len(pcs) /\ n <= History - 1
  BY DEF TypeOK, History
<1>2. /\ tail \in Seq(Word) /\ Len(tail) = n
      /\ \A j \in 1..n : tail[j] = pcs[j]
  <2> HIDE DEF n
  <2> QED BY <1>1
<1>3. pcs' = <<pc>> \o tail
  BY DEF Sample, dbg_pc
<1>4. /\ pcs' \in Seq(Word) /\ Len(pcs') = n + 1 /\ pcs'[1] = pc
      /\ \A j \in 1..n : pcs'[j + 1] = pcs[j]
  <2> HIDE DEF tail, n
  <2> QED BY <1>1, <1>2, <1>3
<1>5. /\ Len(trail) = Len(pcs) + 1 /\ trail[1] = pc
      /\ \A j \in 1..Len(pcs) : trail[j + 1] = pcs[j]
  BY <1>1 DEF trail
<1>6. /\ Len(trail') = Len(pcs') + 1 /\ trail'[1] = pc'
      /\ \A j \in 1..Len(pcs') : trail'[j + 1] = pcs'[j]
  <2> HIDE DEF n
  <2> QED BY <1>4 DEF trail
<1>7. Extends(trail', trail)
  <2>1. Len(trail') = IF Len(trail) <= History THEN Len(trail) + 1 ELSE History + 1
    BY <1>4, <1>5, <1>6 DEF History
  <2>2. ASSUME NEW j \in 1..History, j <= Len(trail) PROVE trail'[j + 1] = trail[j]
    <3>1. CASE j = 1
      <4>1. 1 \in 1..Len(pcs') /\ trail'[1 + 1] = pcs'[1]
        <5>1. Len(pcs') >= 1 /\ Len(pcs') \in Int
          <6> HIDE DEF n
          <6> QED BY <1>1, <1>4
        <5>2. 1 \in 1..Len(pcs')
          BY <5>1
        <5> QED BY <1>6, <5>2
      <4> QED BY <1>4, <1>5, <3>1, <4>1
    <3>2. CASE j > 1
      <4>1. j - 1 \in 1..n /\ j - 1 \in 1..Len(pcs) /\ j \in 1..Len(pcs')
        BY <1>4, <1>5, <2>2, <3>2 DEF History
      <4>2. trail'[j + 1] = pcs'[j] /\ pcs'[(j - 1) + 1] = pcs[j - 1]
            /\ trail[(j - 1) + 1] = pcs[j - 1]
        <5> HIDE DEF n
        <5> QED BY <1>4, <1>5, <1>6, <4>1
      <4>3. (j - 1) + 1 = j
        OBVIOUS
      <4> HIDE DEF n
      <4> QED BY <4>2, <4>3
    <3> QED BY <3>1, <3>2
  <2> QED BY <2>1, <2>2 DEF Extends
<1> QED
  BY <1>1, <1>4, <1>5, <1>6, <1>7 DEF History

\* What a stage's instruction shows moves on with it.
LEMMA ShownAges ==
  ASSUME NEW g, NEW h, Len(h) \in Nat, Extends(g, h), NEW k \in 1..3, NEW p, Shown(h, k, p)
  PROVE  Shown(g, k + 1, p)
  BY DEF Shown, Direct, Waited, Extends, History

\* What a clock edge does to the instructions in flight.
LEMMA EdgeLive ==
  ASSUME Inv, TypeOK, ClockEdge
  PROVE  /\ pipeline_flush => live.id_ex /\ live.if_id /\ ~hazard_stall
         /\ hazard_stall => live.id_ex /\ live.if_id
         /\ (live'.if_id <=> ~pipeline_flush /\ (hazard_stall => live.if_id))
         /\ (live'.id_ex <=> ~pipeline_flush /\ ~hazard_stall /\ live.if_id)
         /\ (live'.ex_mem <=> live.id_ex) /\ live'.pc = id_ex.pc
         /\ live.id_ex => live.if_id
         /\ live.if_id \in BOOLEAN /\ live.id_ex \in BOOLEAN /\ live.ex_mem \in BOOLEAN
<1>1. live.id_ex => live.if_id
  BY DEF Inv, PipelineInv, OnePath
<1> QED
  BY <1>1, StallOrRedirect DEF NoRedirectWhileStalled, ClockEdge, next_live, TypeOK

\* Each edge is charged to an instruction, a stall or a redirect.
LEMMA EdgeOwed ==
  ASSUME TopInv, TopEdge
  PROVE  owed' = One(live'.if_id) + One(live'.id_ex) + One(live'.ex_mem)
<1>1. /\ owed = One(live.if_id) + One(live.id_ex) + One(live.ex_mem)
      /\ owed' = owed + 1 - (IF live.ex_mem THEN 1 ELSE 0)
                          - (IF hazard_stall THEN 1 ELSE 0)
                          - (IF pipeline_flush THEN 2 ELSE 0)
  BY DEF TopInv, RecorderInv, TopEdge, Sample
<1>2. /\ pipeline_flush => live.id_ex /\ live.if_id /\ ~hazard_stall
      /\ hazard_stall => live.id_ex /\ live.if_id
      /\ (live'.if_id <=> ~pipeline_flush /\ (hazard_stall => live.if_id))
      /\ (live'.id_ex <=> ~pipeline_flush /\ ~hazard_stall /\ live.if_id)
      /\ (live'.ex_mem <=> live.id_ex)
  BY EdgeLive DEF TopInv, TopEdge
<1>3. CASE pipeline_flush
  BY <1>1, <1>2, <1>3 DEF One
<1>4. CASE ~pipeline_flush /\ hazard_stall
  BY <1>1, <1>2, <1>4 DEF One
<1>5. CASE ~pipeline_flush /\ ~hazard_stall
  BY <1>1, <1>2, <1>5 DEF One
<1> QED
  BY <1>3, <1>4, <1>5

\* The ports are never idle for longer than the next instruction needs.
LEMMA EdgeIdle ==
  ASSUME TopInv, TopEdge,
         Len(pcs') = IF Len(pcs) < History THEN Len(pcs) + 1 ELSE History
  PROVE  IdleByStage' /\ idle' \in 0..History
<1>1. /\ pipeline_flush => live.id_ex /\ live.if_id /\ ~hazard_stall
      /\ hazard_stall => live.id_ex /\ live.if_id
      /\ (live'.if_id <=> ~pipeline_flush /\ (hazard_stall => live.if_id))
      /\ (live'.id_ex <=> ~pipeline_flush /\ ~hazard_stall /\ live.if_id)
      /\ (live'.ex_mem <=> live.id_ex)
      /\ live.id_ex => live.if_id
  BY EdgeLive DEF TopInv, TopEdge
<1>2. /\ idle \in 0..History /\ Len(pcs) \in Nat /\ Len(pcs) <= History
      /\ idle' = IF live.ex_mem THEN 0 ELSE IF idle < History THEN idle + 1 ELSE idle
  BY DEF TopInv, RecorderInv, TopEdge, Sample
<1>3. IdleByStage
  BY DEF TopInv, RecorderInv
<1>4. idle' \in 0..History
  BY <1>2 DEF History
<1>5. CASE Len(pcs) \in 0..2
  <2>1. CASE Len(pcs) = 0
    BY <1>1, <1>2, <1>3, <1>4, <2>1 DEF IdleByStage, History
  <2>2. CASE Len(pcs) = 1
    BY <1>1, <1>2, <1>3, <1>4, <2>2 DEF IdleByStage, History
  <2>3. CASE Len(pcs) = 2
    BY <1>1, <1>2, <1>3, <1>4, <2>3 DEF IdleByStage, History
  <2> QED BY <1>5, <2>1, <2>2, <2>3
<1>6. CASE Len(pcs) = 3
  BY <1>1, <1>2, <1>3, <1>4, <1>6 DEF IdleByStage, History
<1>7. CASE Len(pcs) >= 4
  <2>1. Len(pcs') >= 4
    BY <1>2, <1>7 DEF History
  <2> QED
    BY <1>1, <1>2, <1>3, <1>4, <1>7, <2>1 DEF IdleByStage, History
<1>8. Len(pcs) \in 0..2 \/ Len(pcs) = 3 \/ Len(pcs) >= 4
  <2> DEFINE n == Len(pcs)
  <2>1. n \in Nat
    BY <1>2
  <2> HIDE DEF n
  <2>2. n \in 0..2 \/ n = 3 \/ n >= 4
    BY <2>1
  <2> QED BY <2>2 DEF n
<1> QED
  BY <1>5, <1>6, <1>7, <1>8

\* Every stage's instruction takes what dbg_pc showed of it along.
LEMMA EdgeAddresses ==
  ASSUME TopInv, ClockEdge, pc' \in Word,
         Extends(trail', trail), trail'[1] = pc', trail[1] = pc, Len(trail) \in Nat \ {0}
  PROVE  AddressesShown'
<1>1. /\ pipeline_flush => live.id_ex /\ live.if_id /\ ~hazard_stall
      /\ hazard_stall => live.id_ex /\ live.if_id
      /\ (live'.if_id <=> ~pipeline_flush /\ (hazard_stall => live.if_id))
      /\ (live'.id_ex <=> ~pipeline_flush /\ ~hazard_stall /\ live.if_id)
      /\ (live'.ex_mem <=> live.id_ex) /\ live'.pc = id_ex.pc
  BY EdgeLive DEF TopInv
<1>2. /\ live.if_id => Shown(trail, 1, if_id.pc)
      /\ live.if_id /\ live.id_ex => Direct(trail, 1, if_id.pc)
      /\ live.id_ex => Shown(trail, 2, id_ex.pc)
      /\ live.ex_mem => Shown(trail, 3, live.pc)
  BY DEF TopInv, RecorderInv, AddressesShown
<1>3. pc \in Word /\ if_id.pc \in Word
  BY DEF TopInv, TypeOK, IfId
<1>4. ASSUME NEW k \in 1..3, NEW p, Shown(trail, k, p) PROVE Shown(trail', k + 1, p)
  BY <1>4, ShownAges
<1>5. /\ live'.if_id => Shown(trail', 1, if_id'.pc)
      /\ live'.if_id /\ live'.id_ex => Direct(trail', 1, if_id'.pc)
  <2>1. CASE hazard_stall
    <3>1. pc' = pc /\ if_id' = if_id
      BY <1>1, <2>1 DEF ClockEdge, next_pc, next_if_id
    <3>2. Direct(trail, 1, if_id.pc)
      BY <1>1, <1>2, <2>1
    <3>3. Waited(trail', 1, if_id.pc)
      BY <3>1, <3>2 DEF Direct, Waited, Extends, History
    <3> QED
      BY <1>1, <1>3, <2>1, <3>1, <3>3 DEF Shown
  <2>2. CASE ~hazard_stall /\ ~pipeline_flush
    <3>1. pc' = ToWord(pc + 4) /\ if_id'.pc = pc
      BY <2>2 DEF ClockEdge, next_pc, next_if_id
    <3>2. Direct(trail', 1, pc)
      BY <3>1 DEF Direct, Extends, History
    <3> QED
      BY <1>3, <3>1, <3>2 DEF Shown
  <2> QED
    BY <1>1, <2>1, <2>2
<1>6. live'.id_ex => Shown(trail', 2, id_ex'.pc)
  <2> SUFFICES ASSUME live'.id_ex PROVE Shown(trail', 2, id_ex'.pc)
    OBVIOUS
  <2>1. id_ex'.pc = if_id.pc
    BY <1>1 DEF ClockEdge, next_id_ex, id_stage, decode
  <2>2. Shown(trail', 1 + 1, if_id.pc)
    BY <1>1, <1>2, <1>4
  <2> QED
    BY <2>1, <2>2
<1>7. live'.ex_mem => Shown(trail', 3, live'.pc)
  <2>1. live.id_ex => Shown(trail', 2 + 1, id_ex.pc)
    BY <1>2, <1>4
  <2> QED
    BY <1>1, <2>1
<1>8. mem_wb'.RegWrite => \E p \in Word : Shown(trail', 4, p) /\ Wrote(imem', mem_wb', p)
  <2> SUFFICES ASSUME mem_wb'.RegWrite
               PROVE  \E p \in Word : Shown(trail', 4, p) /\ Wrote(imem', mem_wb', p)
    OBVIOUS
  <2>1. PICK d : mem_wb' = next_mem_wb(d)
    BY DEF ClockEdge
  <2>2. ex_mem.RegWrite /\ imem' = imem
    BY <2>1 DEF next_mem_wb, ClockEdge
  <2>3. live.ex_mem
    BY <2>2 DEF TopInv, Inv, PipelineInv, ExMemArchitectural
  <2> DEFINE i == fetch(imem, live.pc)
  <2>4. ex_mem = ex_mem_load(i.rd, control_unit(i.opcode), Arch!executed)
    BY <2>3 DEF TopInv, Inv, PipelineInv, ExMemArchitectural
  <2>5. Arch!executed.pc_plus4 = ToWord(live.pc + 4)
    BY <2>3 DEF Arch!executed, execute, arch_pc
  <2>6. Wrote(imem', mem_wb', live.pc)
    BY <2>1, <2>2, <2>4, <2>5 DEF next_mem_wb, ex_mem_load, Wrote
  <2>7. Shown(trail', 3 + 1, live.pc)
    BY <1>2, <1>4, <2>3
  <2>8. live.pc \in Word
    BY DEF TopInv, TypeOK
  <2> QED
    BY <2>6, <2>7, <2>8
<1> QED
  BY <1>5, <1>6, <1>7, <1>8 DEF AddressesShown

-----------------------------------------------------------------------------
(* The invariant. *)

\* Reset empties the pipeline and the recorder with it.
LEMMA EmptyRecorder ==
  ASSUME live = NothingLive, mem_wb = MemWbReset, pcs = <<>>, owed = 0, idle = 0
  PROVE  RecorderInv
<1>1. pcs \in Seq(Word) /\ Len(pcs) = 0
  OBVIOUS
<1> QED
  BY <1>1 DEF RecorderInv, NothingLive, MemWbReset, One, IdleByStage, AddressesShown, History

\* The invariant holds of the pipeline and the recorder after power-up.
LEMMA TopInvInit == TopInit => TopInv
  BY InvInit, TypeInit, EmptyRecorder DEF TopInit, Init, TopInv

\* The recorder's invariant depends on these variables only.
LEMMA RecorderUnchanged ==
  ASSUME RecorderInv, UNCHANGED <<imem, pc, if_id, id_ex, mem_wb, live, recorder>>
  PROVE  RecorderInv'
<1>1. IdleByStage'
  BY DEF RecorderInv, IdleByStage, recorder
<1>2. AddressesShown'
  BY DEF RecorderInv, AddressesShown, recorder, trail
<1> QED
  BY <1>1, <1>2 DEF RecorderInv, recorder

\* Every step keeps the invariant: one case per action.
LEMMA TopInvNext == TopInv /\ [TopNext]_topVars => TopInv'
<1> SUFFICES ASSUME TopInv, [TopNext]_topVars PROVE TopInv'
  OBVIOUS
<1>1. Inv' /\ TypeOK'
  BY TopCoreNext, InvNext, TypeNext DEF TopInv
<1>2. CASE TopEdge
  <2>1. pc' \in Word /\ pcs \in Seq(Word) /\ Len(pcs) <= History
    BY <1>1 DEF TypeOK, TopInv, RecorderInv
  <2>2. /\ pcs' \in Seq(Word) /\ Len(pcs') <= History
        /\ Len(pcs') = IF Len(pcs) < History THEN Len(pcs) + 1 ELSE History
        /\ Extends(trail', trail) /\ trail'[1] = pc' /\ trail[1] = pc
    BY <1>2, <2>1, SampleTrail DEF TopEdge, TopInv
  <2>3. Len(trail) \in Nat \ {0}
    BY <2>1 DEF trail, TopInv, TypeOK
  <2> QED
    BY <1>1, <1>2, <2>1, <2>2, <2>3, EdgeOwed, EdgeIdle, EdgeAddresses
    DEF TopInv, RecorderInv, TopEdge
<1>3. CASE TopReset
  <2>1. pcs' \in Seq(Word) /\ Len(pcs') = 0
    BY <1>3 DEF TopReset
  <2>2. live' = NothingLive /\ mem_wb' = MemWbReset /\ owed' = 0 /\ idle' = 0
    BY <1>3 DEF TopReset, AssertReset
  <2>3. RecorderInv'
    BY <2>1, <2>2
    DEF RecorderInv, NothingLive, MemWbReset, One, IdleByStage, AddressesShown, History
  <2> QED BY <1>1, <2>3 DEF TopInv
<1>4. CASE TopRelease \/ TopEdgeInReset \/ UNCHANGED topVars
  <2>1. UNCHANGED <<imem, pc, if_id, id_ex, mem_wb, live, recorder>>
    BY <1>4 DEF TopRelease, ReleaseReset, TopEdgeInReset, ClockEdgeInReset, topVars, vars, latches
  <2> QED BY <1>1, <2>1, RecorderUnchanged DEF TopInv
<1> QED
  BY <1>2, <1>3, <1>4 DEF TopNext

\* The invariant holds throughout.
LEMMA TopInvAlways == TopSpec => []TopInv
  BY TopInvInit, TopInvNext, PTL DEF TopSpec

-----------------------------------------------------------------------------
(* The theorems. *)

\* The cost model of docs/Hazard_Unit.md is exact: one cycle per instruction,
\* one more per load-use stall, two more per taken branch or jump; and no two
\* completions are further apart than these costs allow.
THEOREM CostIsExact == TopSpec => []CycleCost
<1>1. TopInv => CycleCost
  <2> SUFFICES ASSUME TopInv PROVE CycleCost
    OBVIOUS
  <2>1. owed = InFlight
    BY InFlightSum DEF TopInv, RecorderInv
  <2>2. NeverIdleLong
    <3> DEFINE n == Len(pcs)
    <3>1. n \in Nat /\ idle \in Nat
      BY DEF TopInv, RecorderInv
    <3>2. (n <= 3 => idle = n) /\ (n >= 4 => idle <= 2)
      BY DEF TopInv, RecorderInv, IdleByStage
    <3>3. idle <= IF n < 5 THEN 3 ELSE 2
      <4> HIDE DEF n
      <4> QED BY <3>1, <3>2
    <3> QED BY <3>3 DEF NeverIdleLong, History
  <2> QED BY <2>1, <2>2 DEF CycleCost
<1> QED
  BY <1>1, TopInvAlways, PTL

\* From XLEN = 3 on, the next instruction has another address.
LEMMA NextDiffers ==
  ASSUME XLEN > 2, NEW p \in Word
  PROVE  ToWord(p + 4) # p
<1> DEFINE w == 2^XLEN  v == 2^(XLEN - 1)  u == 2^(XLEN - 2)  t == 2^(XLEN - 3)
<1>1. t \in Nat \ {0}
  <2>1. XLEN - 3 \in 0..XLEN
    BY WidthAssumption
  <2> QED BY <2>1, PowerPositive
<1>2. w = 2 * v /\ v = 2 * u /\ u = 2 * t
  <2>1. /\ XLEN - 1 \in 0..(XLEN - 1) /\ (XLEN - 1) + 1 = XLEN
        /\ XLEN - 2 \in 0..(XLEN - 1) /\ (XLEN - 2) + 1 = XLEN - 1
        /\ XLEN - 3 \in 0..(XLEN - 1) /\ (XLEN - 3) + 1 = XLEN - 2
    BY WidthAssumption
  <2> QED BY <2>1, WidthAssumption
<1>3. p \in 0..(w - 1)
  BY DEF Word
<1>4. (p + 4) % w # p
  <2> HIDE DEF w, v, u, t
  <2>1. w \in Nat /\ w >= 8
    BY <1>1, <1>2
  <2>2. CASE p + 4 < w
    <3>1. (p + 4) % w = p + 4
      BY <1>3, <2>1, <2>2
    <3> QED BY <1>3, <3>1
  <2>3. CASE ~(p + 4 < w)
    <3>1. p + 4 - w \in 0..(w - 1)
      BY <1>3, <2>1, <2>3
    <3>2. (p + 4) % w = p + 4 - w
      BY <1>3, <2>1, <3>1
    <3> QED BY <1>3, <2>1, <3>2
  <2> QED BY <2>2, <2>3
<1> QED
  BY <1>4 DEF ToWord

\* The ports alone tell whose write they show, at every width at which two
\* consecutive instructions have different addresses.
THEOREM WriterIsShown ==
  ASSUME XLEN > 2
  PROVE  TopSpec => []WriterShown
<1>1. TopInv => WriterShown
  <2> SUFFICES ASSUME TopInv, mem_wb.RegWrite PROVE WriterShown
    BY DEF WriterShown, dbg_wb_regwrite
  <2>1. PICK p \in Word : Shown(trail, 4, p) /\ Wrote(imem, mem_wb, p)
    BY DEF TopInv, RecorderInv, AddressesShown
  <2>2. /\ pc \in Word /\ pcs \in Seq(Word)
    BY DEF TopInv, TypeOK, RecorderInv
  <2>3. /\ Len(trail) = Len(pcs) + 1
        /\ \A j \in 1..Len(pcs) : trail[j + 1] = pcs[j]
    BY <2>2 DEF trail
  <2> DEFINE n == IF pcs[3] = pcs[4] THEN 5 ELSE 4
  <2>4. pcs[n] = p
    <3>1. CASE Direct(trail, 4, p)
      <4>1. pcs[3] = ToWord(p + 4) /\ pcs[4] = p
        <5>1. Len(pcs) >= 4 /\ trail[4] = ToWord(p + 4) /\ trail[5] = p
          BY <2>2, <2>3, <3>1 DEF Direct
        <5>2. trail[3 + 1] = pcs[3] /\ trail[4 + 1] = pcs[4]
          BY <2>2, <2>3, <5>1
        <5> QED BY <5>1, <5>2
      <4> QED BY <4>1, NextDiffers
    <3>2. CASE Waited(trail, 4, p)
      <4>1. Len(pcs) >= 5 /\ trail[4] = trail[5] /\ trail[6] = p
        BY <2>2, <2>3, <3>2 DEF Waited
      <4>2. trail[3 + 1] = pcs[3] /\ trail[4 + 1] = pcs[4] /\ trail[5 + 1] = pcs[5]
        BY <2>2, <2>3, <4>1
      <4> QED BY <4>1, <4>2
    <3> QED BY <2>1, <3>1, <3>2 DEF Shown
  <2>5. mem_wb.Jump => wb_write_back_data = mem_wb.pc_plus4
    BY Zenon DEF wb_write_back_data, write_back_data
  <2> HIDE DEF n
  <2> QED
    BY <2>1, <2>4, <2>5 DEF WriterShown, Wrote, dbg_wb_rd, dbg_wb_data, n
<1> QED
  BY <1>1, TopInvAlways, PTL

-----------------------------------------------------------------------------
(* The always blocks of the pipelined core under the simulator: whatever   *)
(* the order in which they run and their assignments are performed, reset  *)
(* is never overtaken by an older assignment, and a clock edge ends in the *)
(* state that CpuPipeline's one step gives.                                *)

-----------------------------------------------------------------------------
(* The queues of assignments. *)

\* The simulation's registers, and for every block two queues of values.
Shape ==
  /\ DOMAIN sim = Blocks \cup {"imem"}
  /\ DOMAIN nbassign = Blocks /\ DOMAIN active = Blocks
  /\ \E Values : \A b \in Blocks : nbassign[b] \in Seq(Values) /\ active[b] \in Seq(Values)

\* The register of block b will hold v once all that is scheduled has been
\* performed, unless b is still to run.
Comes(b, v) ==
  \/ b \in awake
  \/ nbassign[b] # <<>> /\ nbassign[b][Len(nbassign[b])] = v
  \/ nbassign[b] = <<>> /\ active[b] # <<>> /\ active[b][Len(active[b])] = v
  \/ nbassign[b] = <<>> /\ active[b] = <<>> /\ sim[b] = v

\* Once reset is high every register that has one is on its way to its reset
\* value.
ResetInv == Shape /\ (reset => \A b \in ResetBlocks : Comes(b, ResetValue[b]))

\* The atomic machine's registers, by block.
atomic ==
  [pc |-> pc, registers |-> registers, dmem |-> dmem, if_id |-> if_id,
   id_ex |-> id_ex, ex_mem |-> ex_mem, mem_wb |-> mem_wb]

\* What each block has still to do ends in the atomic machine's state.  A
\* block that has not run yet can assign nothing else; once assignments of the
\* edge are being performed, only reset can have woken a block.
AtomicInv ==
  /\ reset => \A b \in ResetBlocks : atomic[b] = ResetValue[b]
  /\ \A b \in Blocks : Comes(b, atomic[b])
  /\ awake \subseteq Blocks
  /\ \A b \in awake : Assigned(b) = {atomic[b]}
  /\ awake # {} /\ (\E b \in Blocks : active[b] # <<>>) => reset /\ awake \subseteq ResetBlocks
  /\ boot \in {BootOrder, <<"testbench">>, <<>>}
  /\ boot # <<>> => awake = {}
  /\ DOMAIN sim.imem = DOMAIN imem
  /\ boot = <<>> => sim.imem = imem

\* The instruction in MEM reads and writes inside data memory.
AccessInside == ex_mem.MemRead \/ ex_mem.MemWrite => ex_mem.alu_result \in DmemIndex

-----------------------------------------------------------------------------
(* The queues. *)

\* A sequence of values is one of more values too.
LEMMA SeqWider ==
  ASSUME NEW A, NEW B, A \subseteq B, NEW s \in Seq(A)
  PROVE  s \in Seq(B)
  OBVIOUS

\* always block b runs: what it assigns is queued last, nothing else changes.
LEMMA RunQueues ==
  ASSUME Shape, NEW b \in Blocks, Run(b)
  PROVE  /\ Shape'
         /\ \E val \in Assigned(b) : Comes(b, val)'
         /\ \A v : \A c \in Blocks \ {b} : Comes(c, v) => Comes(c, v)'
<1>1. PICK val \in Assigned(b) : nbassign' = [nbassign EXCEPT ![b] = Append(@, val)]
  BY DEF Run
<1>2. PICK Values : \A c \in Blocks : nbassign[c] \in Seq(Values) /\ active[c] \in Seq(Values)
  BY DEF Shape
<1>3. sim' = sim /\ active' = active /\ awake' = awake \ {b}
  BY DEF Run
<1>4. /\ DOMAIN nbassign' = Blocks
      /\ nbassign'[b] = Append(nbassign[b], val)
      /\ \A c \in Blocks \ {b} : nbassign'[c] = nbassign[c]
  BY <1>1 DEF Shape
<1>5. \A c \in Blocks : /\ nbassign[c] \in Seq(Values \cup {val})
                        /\ active[c] \in Seq(Values \cup {val})
  BY <1>2, SeqWider
<1>6. /\ nbassign'[b] \in Seq(Values \cup {val})
      /\ nbassign'[b] # <<>> /\ nbassign'[b][Len(nbassign'[b])] = val
  <2>1. nbassign[b] \in Seq(Values \cup {val})
    BY <1>5
  <2> QED BY <1>4, <2>1
<1>7. Shape'
  BY <1>3, <1>4, <1>5, <1>6 DEF Shape
<1>8. Comes(b, val)'
  BY <1>6 DEF Comes
<1>9. \A v : \A c \in Blocks \ {b} : Comes(c, v) => Comes(c, v)'
  BY <1>3, <1>4 DEF Comes
<1> QED
  BY <1>1, <1>7, <1>8, <1>9

\* An assignment is performed: what the block ends with is not changed.
LEMMA PerformQueues ==
  ASSUME Shape, NEW b \in Blocks, Perform(b)
  PROVE  /\ Shape'
         /\ \A v : \A c \in Blocks : Comes(c, v) => Comes(c, v)'
<1>1. PICK Values : \A c \in Blocks : nbassign[c] \in Seq(Values) /\ active[c] \in Seq(Values)
  BY DEF Shape
<1>2. /\ active[b] # <<>> /\ nbassign' = nbassign /\ awake' = awake
      /\ sim' = [sim EXCEPT ![b] = Head(active[b])]
      /\ active' = [active EXCEPT ![b] = Tail(@)]
  BY DEF Perform
<1>3. /\ DOMAIN active' = Blocks /\ DOMAIN sim' = Blocks \cup {"imem"}
      /\ active'[b] = Tail(active[b]) /\ sim'[b] = Head(active[b])
      /\ \A c \in Blocks \ {b} : active'[c] = active[c] /\ sim'[c] = sim[c]
  BY <1>2 DEF Shape
<1>4. active'[b] \in Seq(Values)
  BY <1>1, <1>2, <1>3
<1>5. Shape'
  BY <1>1, <1>2, <1>3, <1>4 DEF Shape
<1>6. \A v : Comes(b, v) => Comes(b, v)'
  <2>1. CASE active'[b] = <<>>
    <3>1. active[b] \in Seq(Values) /\ active[b] # <<>>
      BY <1>1, <1>2
    <3>2. Tail(active[b]) = <<>>
      BY <1>3, <2>1
    <3>3. Len(active[b]) = 1
      <4>1. Len(Tail(active[b])) = Len(active[b]) - 1 /\ Len(active[b]) \in Nat
        BY <3>1
      <4>2. Len(<<>>) = 0
        OBVIOUS
      <4>3. Len(Tail(active[b])) = 0
        BY <3>2, <4>2, Zenon
      <4> QED BY <4>1, <4>3
    <3>4. active[b][Len(active[b])] = Head(active[b])
      BY <3>1, <3>3
    <3> QED BY <1>2, <1>3, <2>1, <3>4 DEF Comes
  <2>2. CASE active'[b] # <<>>
    <3>1. active'[b][Len(active'[b])] = active[b][Len(active[b])]
      BY <1>1, <1>2, <1>3, <2>2
    <3> QED BY <1>2, <2>2, <3>1 DEF Comes
  <2> QED BY <2>1, <2>2
<1>7. \A v : \A c \in Blocks \ {b} : Comes(c, v) => Comes(c, v)'
  BY <1>2, <1>3 DEF Comes
<1> QED
  BY <1>5, <1>6, <1>7

\* The waiting assignments become the active queue, in the same order.
LEMMA NbaQueues ==
  ASSUME Shape, NbaRegion
  PROVE  /\ Shape'
         /\ \A v : \A c \in Blocks : Comes(c, v) => Comes(c, v)'
<1>1. /\ active = None /\ active' = nbassign /\ nbassign' = None
      /\ sim' = sim /\ awake' = awake
  BY DEF NbaRegion
<1>2. \A c \in Blocks : None[c] = <<>>
  BY DEF None
<1>3. \A Values : \A c \in Blocks : None[c] \in Seq(Values)
  <2>1. \A Values : <<>> \in Seq(Values)
    OBVIOUS
  <2> QED BY <1>2, <2>1
<1>4. Shape'
  BY <1>1, <1>3 DEF Shape, None
<1> QED
  BY <1>1, <1>2, <1>4 DEF Comes

-----------------------------------------------------------------------------
(* Reset. *)

\* What a block with a reset does while reset is high.
LEMMA AssignedInReset ==
  ASSUME reset, NEW b \in ResetBlocks
  PROVE  Assigned(b) = {ResetValue[b]}
  BY DEF Assigned

\* Every step keeps the invariant: whatever runs in reset assigns the reset
\* value, and an edge of reset wakes every block that has one.
LEMMA ResetStep ==
  ASSUME ResetInv, [SimNext]_simVars
  PROVE  ResetInv'
<1>1. ResetBlocks \subseteq Blocks
  BY DEF ResetBlocks
<1>2. ASSUME NEW b \in Blocks, Run(b)
      PROVE  ResetInv'
  <2>1. reset' = reset
    BY <1>2 DEF Run, vars
  <2>2. PICK val \in Assigned(b) : Comes(b, val)'
    BY <1>2, RunQueues DEF ResetInv
  <2>3. reset /\ b \in ResetBlocks => val = ResetValue[b]
    BY <2>2, AssignedInReset
  <2>4. ResetValue' = ResetValue
    BY DEF ResetValue
  <2>5. ASSUME reset, NEW c \in ResetBlocks PROVE Comes(c, ResetValue[c])'
    <3>1. CASE c = b
      BY <2>2, <2>3, <2>5, <3>1
    <3>2. CASE c # b
      BY <1>1, <1>2, <2>5, <3>2, RunQueues DEF ResetInv
    <3> QED BY <3>1, <3>2
  <2> QED BY <1>2, <2>1, <2>5, RunQueues DEF ResetInv
<1>3. ASSUME NEW b \in Blocks, Perform(b)
      PROVE  ResetInv'
  <2>1. reset' = reset
    BY <1>3 DEF Perform, vars
  <2> QED BY <1>1, <1>3, <2>1, PerformQueues DEF ResetInv
<1>4. CASE NbaRegion
  <2>1. reset' = reset
    BY <1>4 DEF NbaRegion, vars
  <2> QED BY <1>1, <1>4, <2>1, NbaQueues DEF ResetInv
<1>5. CASE RunInitial
  <2>1. /\ reset' = reset /\ awake' = awake /\ nbassign' = nbassign /\ active' = active
        /\ DOMAIN sim' = DOMAIN sim /\ \A b \in Blocks : sim'[b] = sim[b]
    BY <1>5 DEF RunInitial, vars, ResetInv, Shape, Blocks
  <2>2. Shape'
    BY <2>1 DEF ResetInv, Shape
  <2>3. \A v : \A b \in Blocks : Comes(b, v) => Comes(b, v)'
    BY <2>1 DEF Comes
  <2> QED BY <1>1, <2>1, <2>2, <2>3 DEF ResetInv
<1>6. CASE PosedgeClk \/ PosedgeReset
  <2>1. /\ ResetBlocks \subseteq awake'
        /\ sim' = sim /\ nbassign' = nbassign /\ active' = active
    BY <1>1, <1>6 DEF PosedgeClk, PosedgeReset
  <2>2. \A v : \A b \in ResetBlocks : Comes(b, v)'
    BY <2>1 DEF Comes
  <2> QED BY <2>1, <2>2 DEF ResetInv, Shape
<1>7. CASE NegedgeReset
  BY <1>7 DEF NegedgeReset, ReleaseReset, ResetInv, Shape
<1>8. CASE UNCHANGED simVars
  <2>1. UNCHANGED <<reset, sim, awake, nbassign, active>>
    BY <1>8 DEF simVars, vars
  <2> QED BY <2>1 DEF ResetInv, Shape, Comes
<1> QED
  BY <1>2, <1>3, <1>4, <1>5, <1>6, <1>7, <1>8 DEF SimNext

\* Before time 0 nothing is scheduled and every register is in reset.
LEMMA ResetBegins == SimInit => ResetInv
<1> SUFFICES ASSUME SimInit PROVE ResetInv
  OBVIOUS
<1>1. \A b \in Blocks : nbassign[b] = <<>> /\ active[b] = <<>>
  BY DEF SimInit, None
<1>2. DOMAIN sim = Blocks \cup {"imem"}
  BY DEF SimInit, Blocks
<1>3. \A b \in ResetBlocks : sim[b] = ResetValue[b]
  BY DEF SimInit, Init, ResetBlocks, Blocks, ResetValue
<1>4. Shape
  <2>1. <<>> \in Seq({})
    OBVIOUS
  <2> QED BY <1>1, <1>2, <2>1 DEF Shape, SimInit, None
<1> QED
  BY <1>1, <1>3, <1>4 DEF ResetInv, Comes, ResetBlocks

\* Two queues one behind the other end with the second's last element.
LEMMA LastOfBoth ==
  ASSUME NEW V, NEW s \in Seq(V), NEW t \in Seq(V), t # <<>>
  PROVE  s \o t # <<>> /\ (s \o t)[Len(s \o t)] = t[Len(t)]
<1>1. /\ Len(t) \in Nat \ {0} /\ Len(s) \in Nat /\ Len(s \o t) = Len(s) + Len(t)
      /\ (s \o t)[Len(s) + Len(t)] = t[Len(t)]
  OBVIOUS
<1>2. Len(s \o t) # 0 /\ Len(<<>>) = 0
  BY <1>1
<1> QED
  BY <1>1, <1>2, Zenon

\* rtl/program_counter.v, register_file.v and the pipeline registers under
\* vvp: when reset is high, no assignment that an earlier clock edge left in
\* the queues can be the last one a register receives.
THEOREM ResetIsLast == SimSpec => []ResetWins
<1>1. ResetInv => ResetWins
  <2> SUFFICES ASSUME ResetInv, reset, NEW b \in ResetBlocks,
                      NEW queue, queue = active[b] \o nbassign[b]
               PROVE  \/ b \in awake
                      \/ queue # <<>> /\ queue[Len(queue)] = ResetValue[b]
                      \/ queue = <<>> /\ sim[b] = ResetValue[b]
    BY DEF ResetWins
  <2>1. PICK Values : active[b] \in Seq(Values) /\ nbassign[b] \in Seq(Values)
    BY DEF ResetInv, Shape, ResetBlocks
  <2>2. Comes(b, ResetValue[b])
    BY DEF ResetInv
  <2>3. CASE nbassign[b] # <<>>
    <3>1. queue # <<>> /\ queue[Len(queue)] = nbassign[b][Len(nbassign[b])]
      BY <2>1, <2>3, LastOfBoth, Zenon
    <3> QED BY <2>2, <2>3, <3>1 DEF Comes
  <2>4. CASE nbassign[b] = <<>>
    <3>1. queue = active[b]
      BY <2>1, <2>4
    <3> QED BY <2>2, <2>4, <3>1 DEF Comes
  <2> QED BY <2>3, <2>4
<1> QED
  BY <1>1, ResetBegins, ResetStep, PTL DEF SimSpec

-----------------------------------------------------------------------------
(* A clock edge. *)

\* The atomic machine is stepped as CpuPipeline says, or not at all.
LEMMA SimIsPipeline == SimSpec => Spec
<1>1. SimInit => Init
  BY DEF SimInit
<1>2. [SimNext]_simVars => [Next]_vars
  BY DEF SimNext, simVars, RunInitial, PosedgeClk, PosedgeReset, NegedgeReset, NbaRegion,
         Run, Perform, Next
<1> QED
  BY <1>1, <1>2, PTL DEF SimSpec, Spec

\* The simulation's registers are the atomic machine's.
SimAgrees ==
  /\ sim.imem = imem /\ sim.pc = pc /\ sim.registers = registers /\ sim.dmem = dmem
  /\ sim.if_id = if_id /\ sim.id_ex = id_ex /\ sim.ex_mem = ex_mem /\ sim.mem_wb = mem_wb

\* The combinational blocks are the same functions in both.
LEMMA SameBlocks ==
  /\ \A n : S!ToWord(n) = ToWord(n)
  /\ \A a, p : S!fetch(a, p) = fetch(a, p)
  /\ \A i : S!immediate_generator(i) = immediate_generator(i)
  /\ \A o : S!control_unit(o) = control_unit(o)
  /\ \A g, we, rd, w, rs : S!register_read(g, we, rd, w, rs) = register_read(g, we, rd, w, rs)
  /\ \A g, we, rd, w : S!register_write(g, we, rd, w) = register_write(g, we, rd, w)
  /\ \A j, m, p, d, a : S!write_back_data(j, m, p, d, a) = write_back_data(j, m, p, d, a)
  /\ \A ctl, f3, f7, imm, p, a, b :
       S!execute(ctl, f3, f7, imm, p, a, b) = execute(ctl, f3, f7, imm, p, a, b)
<1>1. \A n : S!ToWord(n) = ToWord(n)
  BY Zenon DEF S!ToWord, ToWord
<1>2. \A a, p : S!fetch(a, p) = fetch(a, p)
  BY Zenon DEF S!fetch, fetch, S!ZeroInstruction, ZeroInstruction
<1>3. \A i : S!immediate_generator(i) = immediate_generator(i)
  BY Zenon DEF S!immediate_generator, immediate_generator, S!ToWord, ToWord, S!i_imm, i_imm,
     S!s_imm, s_imm, S!b_imm, b_imm, S!u_imm, u_imm, S!j_imm, j_imm, S!SignedOf, SignedOf,
     S!Bit, Bit
<1>4. \A o : S!control_unit(o) = control_unit(o)
  BY Zenon DEF S!control_unit, control_unit
<1>5. \A g, we, rd, w, rs : S!register_read(g, we, rd, w, rs) = register_read(g, we, rd, w, rs)
  BY Zenon DEF S!register_read, register_read
<1>6. \A g, we, rd, w : S!register_write(g, we, rd, w) = register_write(g, we, rd, w)
  BY Zenon DEF S!register_write, register_write
<1>7. \A j, m, p, d, a : S!write_back_data(j, m, p, d, a) = write_back_data(j, m, p, d, a)
  BY Zenon DEF S!write_back_data, write_back_data
<1>8. \A o, a, b : S!alu(o, a, b) = alu(o, a, b)
  <2>1. S!AndGate = AndGate /\ S!OrGate = OrGate /\ S!XorGate = XorGate
    BY DEF S!AndGate, AndGate, S!OrGate, OrGate, S!XorGate, XorGate
  <2>2. \A g, a, b : S!BitMap(g, a, b) = BitMap(g, a, b)
    BY Zenon DEF S!BitMap, BitMap, S!Bit, Bit
  <2>3. \A a : S!Signed(a) = Signed(a)
    BY Zenon DEF S!Signed, Signed, S!SignedOf, SignedOf
  <2>4. \A a, n : S!shift_right_arithmetic(a, n) = shift_right_arithmetic(a, n)
    BY <1>1, <2>3, Zenon DEF S!shift_right_arithmetic, shift_right_arithmetic
  <2>5. \A A : S!Min(A) = Min(A)
    BY Zenon DEF S!Min, Min
  <2>6. ASSUME NEW o, NEW a, NEW b PROVE S!alu(o, a, b) = alu(o, a, b)
    BY <1>1, <2>1, <2>2, <2>3, <2>4, <2>5, Zenon DEF S!alu, alu
  <2> QED BY <2>6
<1>9. \A o, f3, f7, t : S!alu_control(o, f3, f7, t) = alu_control(o, f3, f7, t)
  BY Zenon DEF S!alu_control, alu_control, S!sub_alt, sub_alt, S!shift_alt, shift_alt, S!Bit, Bit
<1>10. \A a, b, f3 : S!branch_comparator(a, b, f3) = branch_comparator(a, b, f3)
  BY Zenon DEF S!branch_comparator, branch_comparator, S!Signed, Signed, S!SignedOf, SignedOf
<1>11. \A j, a, imm, p : S!branch_target(j, a, imm, p) = branch_target(j, a, imm, p)
  BY Zenon DEF S!branch_target, branch_target, S!ToWord, ToWord
<1>12. \A ctl, f3, f7, imm, p, a, b :
         S!execute(ctl, f3, f7, imm, p, a, b) = execute(ctl, f3, f7, imm, p, a, b)
  BY <1>1, <1>8, <1>9, <1>10, <1>11 DEF S!execute, execute
<1> QED
  BY <1>1, <1>2, <1>3, <1>4, <1>5, <1>6, <1>7, <1>12

\* Every wire of the simulated core is then the atomic machine's.
LEMMA SameWires ==
  ASSUME SimAgrees
  PROVE  /\ S!next_pc = next_pc /\ S!next_registers = next_registers
         /\ S!next_if_id = next_if_id /\ S!next_id_ex = next_id_ex
         /\ S!next_ex_mem = next_ex_mem
         /\ \A data : S!next_mem_wb(data) = next_mem_wb(data)
<1>1. S!wb_write_back_data = wb_write_back_data
  BY SameBlocks DEF SimAgrees, S!wb_write_back_data, wb_write_back_data
<1>2. S!hazard_stall <=> hazard_stall
  BY DEF SimAgrees, S!hazard_stall, hazard_stall
<1>3. \A rs : S!id_read(rs) = id_read(rs)
  BY SameBlocks, <1>1 DEF SimAgrees, S!id_read, id_read
<1>4. S!id_stage = id_stage
  BY SameBlocks, <1>3 DEF SimAgrees, S!id_stage, id_stage, S!decode, decode
<1>5. \A rs : S!forward(rs) = forward(rs)
  BY DEF SimAgrees, S!forward, forward
<1>6. \A source, data : S!forwarded(source, data) = forwarded(source, data)
  BY <1>1 DEF SimAgrees, S!forwarded, forwarded
<1>7. S!ex_stage = ex_stage
  BY SameBlocks, <1>5, <1>6 DEF SimAgrees, S!ex_stage, ex_stage, S!operand1_fwd, operand1_fwd,
     S!operand2_base, operand2_base, S!forwardA, forwardA, S!forwardB, forwardB
<1>8. S!pipeline_flush <=> pipeline_flush
  BY <1>7 DEF SimAgrees, S!pipeline_flush, pipeline_flush
<1>9. S!next_pc = next_pc
  BY SameBlocks, <1>2, <1>7, <1>8 DEF SimAgrees, S!next_pc, next_pc
<1>10. S!next_if_id = next_if_id
  BY SameBlocks, <1>2, <1>8 DEF SimAgrees, S!next_if_id, next_if_id, S!IfIdBubble, IfIdBubble,
     S!ZeroInstruction, ZeroInstruction
<1>11. S!next_id_ex = next_id_ex
  BY SameBlocks, <1>2, <1>4, <1>8 DEF S!next_id_ex, next_id_ex, S!IdExBubble, IdExBubble, S!NoControl,
     NoControl
<1>12. S!next_ex_mem = next_ex_mem
  BY <1>7 DEF SimAgrees, S!next_ex_mem, next_ex_mem, S!ex_mem_load, ex_mem_load
<1>13. S!next_registers = next_registers
  BY SameBlocks, <1>1 DEF SimAgrees, S!next_registers, next_registers
<1>14. \A data : S!next_mem_wb(data) = next_mem_wb(data)
  BY DEF SimAgrees, S!next_mem_wb, next_mem_wb
<1> QED
  BY <1>9, <1>10, <1>11, <1>12, <1>13, <1>14

\* What a block would assign depends on the registers and on reset only.
LEMMA AssignedStable ==
  ASSUME sim' = sim, reset' = reset, NEW b
  PROVE  Assigned(b)' = Assigned(b)
<1>1. S!wb_write_back_data' = S!wb_write_back_data
  BY DEF S!wb_write_back_data
<1>2. S!hazard_stall' <=> S!hazard_stall
  BY DEF S!hazard_stall
<1>3. \A rs : S!id_read(rs)' = S!id_read(rs)
  BY <1>1 DEF S!id_read
<1>4. S!id_stage' = S!id_stage
  BY <1>3 DEF S!id_stage, S!decode
<1>5. \A rs : S!forward(rs)' = S!forward(rs)
  BY DEF S!forward
<1>6. \A source, data : S!forwarded(source, data)' = S!forwarded(source, data)
  BY <1>1 DEF S!forwarded
<1>7. S!ex_stage' = S!ex_stage
  BY <1>1 DEF S!ex_stage, S!operand1_fwd, S!operand2_base, S!forwardA, S!forwardB, S!forward,
     S!forwarded
<1>8. S!pipeline_flush' <=> S!pipeline_flush
  BY <1>7 DEF S!pipeline_flush
<1>9. S!next_pc' = S!next_pc
  BY <1>2, <1>7, <1>8 DEF S!next_pc
<1>10. S!next_if_id' = S!next_if_id
  BY <1>2, <1>8 DEF S!next_if_id
<1>11. S!next_id_ex' = S!next_id_ex
  BY <1>2, <1>4, <1>8 DEF S!next_id_ex
<1>12. S!next_ex_mem' = S!next_ex_mem
  BY <1>7 DEF S!next_ex_mem, S!ex_mem_load
<1>13. S!next_registers' = S!next_registers
  BY <1>1 DEF S!next_registers
<1>14. \A data : S!next_mem_wb(data)' = S!next_mem_wb(data)
  BY DEF S!next_mem_wb
<1>15. ResetValue' = ResetValue
  BY DEF ResetValue
<1> QED
  BY <1>9, <1>10, <1>11, <1>12, <1>13, <1>14, <1>15 DEF Assigned

\* When nothing is left to do the simulation is where the atomic machine is.
LEMMA QuietAgrees == ASSUME AtomicInv, Quiet PROVE SimAgrees
<1>1. \A b \in Blocks : sim[b] = atomic[b]
  BY DEF AtomicInv, Quiet, Comes, None
<1> QED
  BY <1>1 DEF AtomicInv, Quiet, SimAgrees, Blocks, atomic

\* An access inside data memory has one outcome.
LEMMA OneOutcome ==
  ASSUME TypeOK, AccessInside
  PROVE  /\ \E data : memory_reads(dmem, ex_mem.MemRead, ex_mem.alu_result) = {data}
         /\ \E d : memory_writes(dmem, ex_mem.MemWrite, ex_mem.alu_result, ex_mem.write_data)
                     = {d}
<1>1. DOMAIN dmem = DmemIndex
  BY DEF TypeOK
<1>2. \/ ~ex_mem.MemRead
      \/ ex_mem.MemRead /\ ex_mem.alu_result \in DOMAIN dmem
  BY <1>1 DEF AccessInside
<1>3. \/ ~ex_mem.MemWrite
      \/ ex_mem.MemWrite /\ ex_mem.alu_result \in DOMAIN dmem
  BY <1>1 DEF AccessInside
<1>4. \E data : memory_reads(dmem, ex_mem.MemRead, ex_mem.alu_result) = {data}
  BY <1>2 DEF memory_reads
<1>5. \E d : memory_writes(dmem, ex_mem.MemWrite, ex_mem.alu_result, ex_mem.write_data) = {d}
  BY <1>3 DEF memory_writes
<1> QED
  BY <1>4, <1>5

\* Woken by a clock edge in agreeing states, each block assigns what the
\* atomic step gives its register, and nothing else.
LEMMA EdgeAssigned ==
  ASSUME TypeOK, AccessInside, SimAgrees, ClockEdge \/ ClockEdgeInReset,
         reset => \A c \in ResetBlocks : atomic[c] = ResetValue[c],
         NEW b \in Blocks
  PROVE  Assigned(b) = {atomic'[b]}
<1>1. CASE b = "dmem"
  <2>1. Assigned(b) = memory_writes(dmem, ex_mem.MemWrite, ex_mem.alu_result, ex_mem.write_data)
    <3>1. b \notin ResetBlocks
      BY <1>1 DEF ResetBlocks
    <3>2. Assigned("dmem") = memory_writes(sim.dmem, sim.ex_mem.MemWrite,
                                           sim.ex_mem.alu_result, sim.ex_mem.write_data)
      BY <1>1, <3>1, Zenon DEF Assigned
    <3> QED BY <1>1, <3>2 DEF SimAgrees
  <2>2. dmem' \in memory_writes(dmem, ex_mem.MemWrite, ex_mem.alu_result, ex_mem.write_data)
    BY DEF ClockEdge, ClockEdgeInReset, mem_stage_write
  <2>3. atomic'[b] = dmem'
    BY <1>1 DEF atomic
  <2> QED BY <2>1, <2>2, <2>3, OneOutcome
<1>2. CASE b # "dmem" /\ reset
  <2>1. b \in ResetBlocks
    BY <1>2 DEF ResetBlocks
  <2>2. ClockEdgeInReset
    BY <1>2 DEF ClockEdge
  <2>3. atomic'[b] = atomic[b]
    BY <2>1, <2>2 DEF ClockEdgeInReset, latches, atomic, ResetBlocks, Blocks
  <2> QED BY <1>2, <2>1, <2>3, AssignedInReset
<1>3. CASE b # "dmem" /\ ~reset
  <2>1. ClockEdge
    BY <1>3 DEF ClockEdgeInReset
  <2>2. CASE b = "mem_wb"
    <3>1. Assigned("mem_wb")
            = {S!next_mem_wb(data) :
                 data \in memory_reads(sim.dmem, sim.ex_mem.MemRead, sim.ex_mem.alu_result)}
      BY <1>3, Zenon DEF Assigned
    <3>2. Assigned("mem_wb")
            = {next_mem_wb(data) :
                 data \in memory_reads(dmem, ex_mem.MemRead, ex_mem.alu_result)}
      BY <3>1, SameWires DEF SimAgrees
    <3>3. PICK data : memory_reads(dmem, ex_mem.MemRead, ex_mem.alu_result) = {data}
      BY OneOutcome
    <3>4. mem_wb' = next_mem_wb(data)
      BY <2>1, <3>3 DEF ClockEdge
    <3>5. atomic'[b] = mem_wb'
      BY <2>2 DEF atomic
    <3> QED BY <2>2, <3>2, <3>3, <3>4, <3>5
  <2>3. /\ Assigned("pc") = {S!next_pc} /\ Assigned("registers") = {S!next_registers}
        /\ Assigned("if_id") = {S!next_if_id} /\ Assigned("id_ex") = {S!next_id_ex}
        /\ Assigned("ex_mem") = {S!next_ex_mem}
    BY <1>3, Zenon DEF Assigned
  <2>4. CASE b \in {"pc", "registers", "if_id", "id_ex", "ex_mem"}
    BY <2>1, <2>3, <2>4, SameWires DEF ClockEdge, atomic
  <2> QED BY <1>3, <2>2, <2>4 DEF Blocks
<1> QED
  BY <1>1, <1>2, <1>3

\* Every step keeps the simulation on its way to the atomic machine's state.
LEMMA AtomicStep ==
  ASSUME Shape, AtomicInv, TypeOK, AccessInside, [SimNext]_simVars
  PROVE  AtomicInv'
<1>1. ASSUME NEW b \in Blocks, Run(b)
      PROVE  AtomicInv'
  <2>1. /\ UNCHANGED <<reset, imem, sim, boot, active>> /\ atomic' = atomic
        /\ b \in awake /\ awake' = awake \ {b}
    BY <1>1 DEF Run, vars, latches, atomic
  <2>2. ResetValue' = ResetValue
    BY DEF ResetValue
  <2>3. Comes(b, atomic[b])'
    BY <1>1, <2>1, RunQueues DEF AtomicInv
  <2>4. \A c \in Blocks \ {b} : Comes(c, atomic[c])'
    <3>1. \A v : \A c \in Blocks \ {b} : Comes(c, v) => Comes(c, v)'
      BY <1>1, RunQueues
    <3> QED BY <2>1, <3>1 DEF AtomicInv, Comes
  <2>5. \A c \in awake' : Assigned(c)' = {atomic'[c]}
    BY <2>1, AssignedStable DEF AtomicInv
  <2> QED BY <2>1, <2>2, <2>3, <2>4, <2>5 DEF AtomicInv, Comes
<1>2. ASSUME NEW b \in Blocks, Perform(b)
      PROVE  AtomicInv'
  <2>1. /\ UNCHANGED <<reset, imem, boot, awake>> /\ atomic' = atomic
        /\ active[b] # <<>> /\ sim' = [sim EXCEPT ![b] = Head(active[b])]
        /\ active' = [active EXCEPT ![b] = Tail(@)]
    BY <1>2 DEF Perform, vars, latches, atomic
  <2>2. ResetValue' = ResetValue
    BY DEF ResetValue
  <2>3. awake # {} => reset /\ awake \subseteq ResetBlocks
    BY <2>1 DEF AtomicInv
  <2>4. \A c \in awake' : Assigned(c)' = {atomic'[c]}
    BY <2>1, <2>2, <2>3 DEF AtomicInv, Assigned
  <2>5. sim'.imem = sim.imem
    BY <2>1 DEF Shape, Blocks
  <2>6. \A c \in Blocks : Comes(c, atomic[c])'
    <3>1. \A v : \A c \in Blocks : Comes(c, v) => Comes(c, v)'
      BY <1>2, PerformQueues
    <3> QED BY <2>1, <3>1 DEF AtomicInv, Comes
  <2> QED BY <2>1, <2>2, <2>3, <2>4, <2>5, <2>6 DEF AtomicInv, Comes
<1>3. CASE NbaRegion
  <2>1. UNCHANGED <<reset, imem, sim, boot, awake>> /\ atomic' = atomic /\ awake = {}
    BY <1>3 DEF NbaRegion, vars, latches, atomic
  <2>2. ResetValue' = ResetValue
    BY DEF ResetValue
  <2>3. \A c \in Blocks : Comes(c, atomic[c])'
    <3>1. \A v : \A c \in Blocks : Comes(c, v) => Comes(c, v)'
      BY <1>3, NbaQueues
    <3> QED BY <2>1, <3>1 DEF AtomicInv, Comes
  <2> QED BY <2>1, <2>2, <2>3 DEF AtomicInv, Comes
<1>4. CASE RunInitial
  <2>1. /\ UNCHANGED <<reset, imem, awake, nbassign, active>> /\ atomic' = atomic
        /\ awake = {} /\ boot # <<>> /\ boot' = Tail(boot)
    BY <1>4 DEF RunInitial, vars, latches, atomic, AtomicInv
  <2>2. ResetValue' = ResetValue
    BY DEF ResetValue
  <2>3. \A b \in Blocks : sim'[b] = sim[b]
    BY <1>4 DEF RunInitial, Shape, Blocks
  <2>4. DOMAIN sim'.imem = DOMAIN imem
    BY <1>4 DEF RunInitial, Shape, AtomicInv
  <2>5. boot' \in {BootOrder, <<"testbench">>, <<>>}
    <3>1. Tail(BootOrder) = <<"testbench">> /\ Tail(<<"testbench">>) = <<>>
      BY DEF BootOrder
    <3> QED BY <2>1, <3>1 DEF AtomicInv
  <2>6. ASSUME boot' = <<>> PROVE sim'.imem = imem
    <3>1. boot = <<"testbench">>
      <4>1. Tail(BootOrder) = <<"testbench">> /\ <<"testbench">> # <<>>
        BY DEF BootOrder
      <4> QED BY <2>1, <2>6, <4>1 DEF AtomicInv
    <3>2. sim'.imem = [n \in DOMAIN sim.imem |-> IF n \in DOMAIN imem THEN imem[n]
                                                 ELSE sim.imem[n]]
      BY <1>4, <3>1 DEF RunInitial, Shape
    <3>3. sim'.imem = [n \in DOMAIN imem |-> imem[n]]
      BY <3>2 DEF AtomicInv
    <3> QED BY <3>3, ProgramsAssumption DEF TypeOK
  <2>7. \A b \in Blocks : Comes(b, atomic[b])'
    BY <2>1, <2>3 DEF AtomicInv, Comes
  <2> QED BY <2>1, <2>2, <2>4, <2>5, <2>6, <2>7 DEF AtomicInv, Comes
<1>5. CASE PosedgeClk
  <2>1. /\ Quiet /\ awake' = Blocks
        /\ UNCHANGED <<sim, boot, nbassign, active>>
    BY <1>5 DEF PosedgeClk
  <2>2. ClockEdge \/ ClockEdgeInReset
    BY <1>5 DEF PosedgeClk
  <2>3. reset' = reset /\ imem' = imem
    BY <2>2 DEF ClockEdge, ClockEdgeInReset
  <2>4. SimAgrees
    BY <2>1, QuietAgrees
  <2>5. \A b \in Blocks : Assigned(b)' = {atomic'[b]}
    BY <2>1, <2>2, <2>3, <2>4, EdgeAssigned, AssignedStable DEF AtomicInv
  <2>6. reset' => \A b \in ResetBlocks : atomic'[b] = ResetValue'[b]
    <3> SUFFICES ASSUME reset PROVE \A b \in ResetBlocks : atomic'[b] = ResetValue'[b]
      BY <2>3
    <3>1. ClockEdgeInReset
      BY <2>2 DEF ClockEdge
    <3>2. ResetValue' = ResetValue
      BY DEF ResetValue
    <3>3. \A b \in ResetBlocks : atomic'[b] = atomic[b]
      BY <3>1 DEF ClockEdgeInReset, latches, atomic, ResetBlocks, Blocks
    <3> QED BY <3>2, <3>3 DEF AtomicInv
  <2>7. \A b \in Blocks : active'[b] = <<>>
    BY <2>1 DEF Quiet, None
  <2> QED BY <2>1, <2>3, <2>5, <2>6, <2>7 DEF AtomicInv, Comes, Quiet
<1>6. CASE PosedgeReset
  <2>1. /\ boot = <<>> /\ AssertReset /\ awake' = awake \cup ResetBlocks
        /\ UNCHANGED <<sim, boot, nbassign, active>>
    BY <1>6 DEF PosedgeReset
  <2>2. ~reset /\ reset' /\ imem' = imem /\ dmem' = dmem
    BY <2>1 DEF AssertReset
  <2>3. \A b \in ResetBlocks : atomic'[b] = ResetValue'[b]
    BY <2>1 DEF AssertReset, atomic, ResetValue, ResetBlocks, Blocks
  <2>4. \A b \in ResetBlocks : Assigned(b)' = {atomic'[b]}
    BY <2>2, <2>3 DEF Assigned
  <2>5. atomic'["dmem"] = atomic["dmem"]
    BY <2>2 DEF atomic
  <2>6. "dmem" \in awake => Assigned("dmem")' = {atomic'["dmem"]}
    <3>1. /\ Assigned("dmem") = memory_writes(sim.dmem, sim.ex_mem.MemWrite,
                                              sim.ex_mem.alu_result, sim.ex_mem.write_data)
          /\ Assigned("dmem")' = memory_writes(sim.dmem, sim.ex_mem.MemWrite,
                                               sim.ex_mem.alu_result, sim.ex_mem.write_data)'
      BY Zenon DEF Assigned, ResetBlocks
    <3> QED BY <2>1, <2>5, <3>1 DEF AtomicInv
  <2>7. awake' \subseteq Blocks /\ ResetBlocks = Blocks \ {"dmem"}
    BY <2>1 DEF AtomicInv, ResetBlocks
  <2>8. Comes("dmem", atomic["dmem"])'
    <3>1. "dmem" \notin ResetBlocks /\ "dmem" \in Blocks
      BY DEF ResetBlocks, Blocks
    <3>2. Comes("dmem", atomic["dmem"])
      BY <3>1 DEF AtomicInv
    <3> QED BY <2>1, <2>5, <3>1, <3>2 DEF Comes
  <2>9. \A b \in Blocks : Comes(b, atomic[b])'
    BY <2>1, <2>5, <2>7, <2>8 DEF Comes
  <2>10. awake # {} /\ (\E b \in Blocks : active[b] # <<>>) => FALSE
    BY <2>2 DEF AtomicInv
  <2>11. (\E b \in Blocks : active'[b] # <<>>) => awake = {}
    BY <2>1, <2>10
  <2>12. \A b \in awake' : Assigned(b)' = {atomic'[b]}
    BY <2>1, <2>4, <2>6, <2>7 DEF Blocks
  <2> QED BY <2>1, <2>2, <2>3, <2>7, <2>9, <2>11, <2>12 DEF AtomicInv
<1>7. CASE NegedgeReset
  <2>1. /\ Quiet /\ ReleaseReset /\ UNCHANGED <<sim, boot, awake, nbassign, active>>
    BY <1>7 DEF NegedgeReset
  <2>2. ~reset' /\ imem' = imem /\ atomic' = atomic
    BY <2>1 DEF ReleaseReset, latches, atomic
  <2> QED BY <2>1, <2>2 DEF AtomicInv, Comes, Quiet, None
<1>8. CASE UNCHANGED simVars
  <2>1. UNCHANGED <<reset, imem, sim, boot, awake, nbassign, active>> /\ atomic' = atomic
    BY <1>8 DEF simVars, vars, latches, atomic
  <2>2. ResetValue' = ResetValue
    BY DEF ResetValue
  <2>3. \A b : Assigned(b)' = Assigned(b)
    BY <2>1, AssignedStable
  <2> QED BY <2>1, <2>2, <2>3 DEF AtomicInv, Comes
<1> QED
  BY <1>1, <1>2, <1>3, <1>4, <1>5, <1>6, <1>7, <1>8 DEF SimNext

\* rtl/*.v under vvp: for every program that stays inside data memory, and in
\* whatever order the always blocks run and their assignments are performed,
\* with reset rising at any moment, a clock edge ends in the state of
\* CpuPipeline's one step, and the instruction memory holds the testbench's
\* program.
THEOREM EdgesAreAtomic == SimSpec /\ []AccessInside => []EdgeIsAtomic
<1>1. SimInit => AtomicInv
  <2> SUFFICES ASSUME SimInit PROVE AtomicInv
    OBVIOUS
  <2>1. \A b \in Blocks : nbassign[b] = <<>> /\ active[b] = <<>> /\ sim[b] = atomic[b]
    BY DEF SimInit, None, atomic, Blocks
  <2>2. \A b \in ResetBlocks : atomic[b] = ResetValue[b]
    BY DEF SimInit, Init, ResetBlocks, Blocks, ResetValue, atomic
  <2>3. DOMAIN sim.imem = DOMAIN imem /\ boot # <<>>
    BY DEF SimInit, BootOrder
  <2> QED BY <2>1, <2>2, <2>3 DEF SimInit, AtomicInv, Comes
<1>2. AtomicInv => EdgeIsAtomic
  BY QuietAgrees DEF EdgeIsAtomic, SimAgrees
<1>3. ResetInv => Shape
  BY DEF ResetInv
<1>4. ResetInv /\ AtomicInv /\ TypeOK /\ AccessInside /\ [SimNext]_simVars
        => ResetInv' /\ AtomicInv'
  BY <1>3, ResetStep, AtomicStep
<1> QED
  BY <1>1, <1>2, <1>4, ResetBegins, SimIsPipeline, WidthsHold, PTL DEF SimSpec

=============================================================================
