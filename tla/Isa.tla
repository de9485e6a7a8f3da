-------------------------------- MODULE Isa --------------------------------
(***************************************************************************)
(* What a program is promised: instructions run one at a time, in program  *)
(* order, each reading the registers and memory all its predecessors left. *)
(* docs/Architecture.md calls the single-cycle core, which has one clock   *)
(* edge per instruction, the reference of the pipeline; this module is     *)
(* that reference without its wiring.  Cpu and CpuPipeline refine it.      *)
(***************************************************************************)
CONSTANTS
  Programs, PowerUp,         (* possible contents of the two memories      *)
  ZeroRegisters,             (* the register file after reset              *)
  fetch(_, _), control_unit(_), immediate_generator(_),
  execute(_, _, _, _, _, _, _), write_back_data(_, _, _, _, _),
  register_read(_, _, _, _, _), register_write(_, _, _, _),
  memory_reads(_, _, _), memory_writes(_, _, _, _)
                             (* what single instructions do: Datapath      *)

VARIABLES
  reset,       (* the reset input                                    *)
  imem,        (* instruction_memory.memory, never written           *)
  pc,          (* address of the instruction to execute next         *)
  registers,   (* register_file.registers                            *)
  dmem         (* data_memory.memory, which reset does not clear     *)

vars == <<reset, imem, pc, registers, dmem>>

Init ==
  /\ reset = TRUE
  /\ imem \in Programs
  /\ pc = 0
  /\ registers = ZeroRegisters
  /\ dmem \in PowerUp

read(rs) == register_read(registers, FALSE, 0, 0, rs)

executed ==
  LET i == fetch(imem, pc)
  IN execute(control_unit(i.opcode), i.funct3, i.funct7, immediate_generator(i),
             pc, read(i.rs1), read(i.rs2))

\* The program counter after an instruction with these controls and results.
next_pc(ctl, e) ==
  IF ctl.Jump \/ (ctl.Branch /\ e.branch_taken) THEN e.branch_target ELSE e.pc_plus4

\* One instruction, from fetch to write-back.
Step ==
  LET i   == fetch(imem, pc)
      ctl == control_unit(i.opcode)
      e   == executed
  IN /\ ~reset
     /\ \E read_data \in memory_reads(dmem, ctl.MemRead, e.alu_result) :
          registers' = register_write(registers, ctl.RegWrite, i.rd,
                         write_back_data(ctl.Jump, ctl.MemtoReg, e.pc_plus4,
                                         read_data, e.alu_result))
     /\ dmem' \in memory_writes(dmem, ctl.MemWrite, e.alu_result, e.store_data)
     /\ pc' = next_pc(ctl, e)
     /\ UNCHANGED <<reset, imem>>

\* Reset restarts the program and clears the registers, never data memory.
AssertReset ==
  /\ ~reset
  /\ reset' = TRUE
  /\ pc' = 0
  /\ registers' = ZeroRegisters
  /\ UNCHANGED <<imem, dmem>>

ReleaseReset ==
  /\ reset
  /\ reset' = FALSE
  /\ UNCHANGED <<imem, pc, registers, dmem>>

Next == Step \/ AssertReset \/ ReleaseReset

Spec == Init /\ [][Next]_vars

=============================================================================
