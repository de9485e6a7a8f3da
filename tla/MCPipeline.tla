----------------------------- MODULE MCPipeline -----------------------------
(* Every short program over a small set of instructions, on the pipeline.  *)
EXTENDS CpuPipeline, Assembler, TLC

\* The set the programs are drawn from; every kind of dependence between
\* neighbours (register, load-use, store data, branch, link, x0) can be built.
MCInstructions ==
  { addi(1, 1, 1), addi(0, 0, 5), add(2, 1, 1), lw(1, 1, 0), lw(2, 0, 1),
    sw(1, 1, 0), bne(1, 2, 8), jal(1, 8), jalr(1, 1, 1), lui(1, 264), auipc(2, 264) }

MCPrograms == [0..3 -> MCInstructions]

MCShortPrograms == [0..2 -> MCInstructions]

MCPowerUp == { [n \in DmemIndex |-> 5 + n] }

-----------------------------------------------------------------------------
(* Statements of the documentation that the code does not bear out, each    *)
(* with a program that shows it.                                            *)

\* lw x1, 0(x0); lui x1, 264: the rs1 and rs2 bits of LUI are immediate bits.
MCLuiAfterLoad == { (0 :> lw(1, 0, 0)) @@ (1 :> lui(1, 264)) }

\* lw x1, 0(x0); addi x2, x1, 1: the load-use case.
MCLoadUse == { (0 :> lw(1, 0, 0)) @@ (1 :> addi(2, 1, 1)) }

\* addi x1, x0, 7; sw x1, 4(x0): the second word of data memory.
MCStoreWord == { (0 :> addi(1, 0, 7)) @@ (1 :> sw(1, 4, 0)) }

source_registers(i) ==
  (IF i.opcode \in {"OP", "OP_IMM", "LOAD", "STORE", "BRANCH", "JALR"} THEN {i.rs1} ELSE {})
    \cup (IF i.opcode \in {"OP", "STORE", "BRANCH"} THEN {i.rs2} ELSE {})

\* hazard_detection_unit.v:4-6 says of a stall that the instruction in ID
\* "needs that load's result *this* cycle".
StallOnlyForReaders ==
  hazard_stall => id_ex.rd \in source_registers(if_id.instruction)

\* docs/Hazard_Unit.md:72-73 says that after the stall "the load's result is in
\* EX/MEM and reachable by ordinary EX/MEM forwarding": the reader, one bubble
\* behind its load, takes the operand from there.
LoadReachesReaderFromExMem ==
  live.id_ex /\ ~live.ex_mem /\ mem_wb.MemtoReg /\ mem_wb.rd = id_ex.rs1 /\ mem_wb.rd # 0
    => forwardA = "EX/MEM"

\* docs/Datapath.md:193 says data memory addressing "uses `address[9:2]`
\* (word-aligned)": an aligned store changes the word of that index alone.
WordAddressed ==
  [][ClockEdge /\ ex_mem.MemWrite /\ ex_mem.alu_result % 4 = 0
       /\ ex_mem.alu_result \div 4 \in DmemIndex
     => dmem' = [dmem EXCEPT ![ex_mem.alu_result \div 4] = ex_mem.write_data]]_vars

=============================================================================
