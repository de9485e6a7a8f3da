-------------------------------- MODULE MCCpu --------------------------------
(* Short programs on the single-cycle core. *)
EXTENDS Cpu, Assembler, TLC

\* The offset of the jal has its destination's number where rs1 would be.
MCInstructions ==
  { addi(1, 2, 1), addi(0, 0, 5), add(2, 1, 1), lw(1, 1, 0), lw(2, 0, 1),
    sw(1, 1, 0), bne(1, 2, 8), jal(1, 32776), jalr(1, 1, 2), lui(1, 264), auipc(2, 264) }

\* No instruction reads its own destination.
MCPrograms == [0..2 -> MCInstructions]

\* addi x1, x0, 16; jalr x1, 0(x1): the jump through x1 also links into x1.
MCLoopPrograms == { (0 :> addi(1, 0, 16)) @@ (1 :> jalr(1, 0, 1)) }

MCPowerUp == { [n \in DmemIndex |-> 5 + n] }

=============================================================================
