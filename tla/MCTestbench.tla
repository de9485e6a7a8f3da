---------------------------- MODULE MCTestbench ----------------------------
(* The three integration testbenches of cpu_pipeline.v, as the simulator    *)
(* runs them: their programs, the clock edges they wait for, and the        *)
(* registers they expect to see then.                                       *)
EXTENDS ClockedProcesses, Assembler, TLC

CONSTANTS
  CycleBound,          (* clock edges after which the simulation ends *)
  ResetBound           (* the last cycle in which reset may rise      *)

VARIABLE cycle         (* clock edges since reset was released *)

(* testbench/cpu_pipeline_tb.v *)
HazardProgram ==
  <<addi(1, 0, 5), add(2, 1, 1), addi(3, 2, 0), sw(2, 0, 1), lw(4, 0, 1),
    addi(5, 4, 0), beq(1, 1, 8), addi(6, 0, 85), addi(7, 0, 99)>>

HazardExpected == <<5, 10, 10, 10, 10, 0, 99>>

(* testbench/cpu_pipeline_v11_tb.v *)
V11Program ==
  <<addi(1, 0, 5), addi(2, 0, 10), bne(1, 2, 8), addi(3, 0, 111), addi(3, 0, 7),
    blt(1, 2, 8), addi(4, 0, 222), addi(4, 0, 8), bge(2, 1, 8), addi(5, 0, 233),
    addi(5, 0, 9), addi(6, 0, -1), bltu(1, 6, 8), addi(7, 0, 244), addi(7, 0, 11),
    bgeu(6, 1, 8), addi(8, 0, 255), addi(8, 0, 12), addi(10, 0, -16), srai(11, 10, 2),
    srli(12, 6, 4), sra(13, 10, 1), auipc(14, 1), lui(15, 8), fence, addi(9, 0, 5)>>

V11Expected ==
  <<5, 10, 7, 8, 9, -1, 11, 12, 5, -16, -4, (2^XLEN - 1) \div 16, -1, 4184, 32768>>

(* testbench/cpu_pipeline_jalr_tb.v; the sentinel is word 27 *)
JalrProgram ==
  <<addi(1, 0, 3), addi(2, 0, -1), sltu(3, 1, 2), sltiu(4, 1, 5), sltiu(5, 2, 5),
    addi(7, 0, 100), jalr(6, 8, 7), addi(8, 0, 222)>>

JalrExpected == <<3, -1, 1, 1, 0, 28, 100, 0, 55>>

\* A sequence as the contents of instruction_memory, whose words start at 0.
Loaded(program) == [n \in 0..(Len(program) - 1) |-> program[n + 1]]

Testbenches ==
  { [imem |-> Loaded(HazardProgram), edges |-> 20, expected |-> HazardExpected],
    [imem |-> Loaded(V11Program), edges |-> 40, expected |-> V11Expected],
    [imem |-> Loaded(JalrProgram) @@ (27 :> addi(9, 0, 55)), edges |-> 20,
     expected |-> JalrExpected] }

MCPrograms == {t.imem : t \in Testbenches}

\* Data memory powers up with anything; two contents that differ everywhere.
MCPowerUp == { [n \in DmemIndex |-> 0], [n \in DmemIndex |-> 2^XLEN - 1] }

\* The program that instruction_memory.v writes to the words of every design.
MCDefault == Loaded(<<jal(1, 8), addi(2, 0, 1), addi(3, 0, 99)>>)

\* The simulation ends CycleBound edges after reset was released.  The
\* testbenches release it once; here it may rise again while the pipeline
\* fills.
TestbenchInit == SimInit /\ cycle = 0

TestbenchClock ==
  /\ cycle < CycleBound
  /\ PosedgeClk
  /\ cycle' = IF reset THEN 0 ELSE cycle + 1

TestbenchReset == cycle <= ResetBound /\ PosedgeReset /\ cycle' = 0

TestbenchRun ==
  /\ \/ RunInitial \/ NegedgeReset \/ NbaRegion
     \/ \E b \in Blocks : Run(b) \/ Perform(b)
  /\ UNCHANGED cycle

TestbenchNext == TestbenchClock \/ TestbenchReset \/ TestbenchRun

TestbenchSpec == TestbenchInit /\ [][TestbenchNext]_<<simVars, cycle>>

\* What each testbench prints next to "expect": from the edge at which it
\* reads the register file on, the registers have the expected values, the
\* program in memory being the one the testbench wrote, not the default one.
TestbenchPasses ==
  \A t \in Testbenches :
    Quiet /\ imem = t.imem /\ cycle >= t.edges =>
      \A r \in DOMAIN t.expected : sim.registers[r] = ToWord(t.expected[r])

=============================================================================
