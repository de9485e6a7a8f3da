------------------------- MODULE ClockedProcesses --------------------------
(***************************************************************************)
(* The pipelined core as the simulator runs it.  CpuPipeline takes a clock *)
(* edge as one step; here it is what it is in a simulation: seven always   *)
(* blocks woken together, each reading the other blocks' registers when    *)
(* its turn comes and each assigning its own by a nonblocking assignment,  *)
(* under the rules of the scheduler (Schedule): a thread runs at any time, *)
(* the nonblocking assignments wait until no thread and no earlier batch   *)
(* is left, and are then moved as one batch to the active queue.           *)
(*                                                                         *)
(* The variables of CpuPipeline are the atomic machine, stepped when clk   *)
(* or reset changes.  sim is the same state in the simulation.  The        *)
(* combinational blocks have settled when a clock edge comes and are, as   *)
(* in CpuPipeline, state functions.                                        *)
(***************************************************************************)
EXTENDS CpuPipeline, Sequences

CONSTANT DefaultProgram    \* what instruction_memory.v's initial block writes

VARIABLES sim,      \* the registers and memories in the simulation
          boot,     \* initial blocks still to run, in the order of the queue
          awake,    \* always blocks that are scheduled to run
          nbassign, \* each block's nonblocking assignments, in order
          active    \* those of the batch that is being performed

simVars == <<vars, sim, boot, awake, nbassign, active>>

\* Each clocked always block, named for the register it assigns.
Blocks == {"pc", "registers", "dmem", "if_id", "id_ex", "ex_mem", "mem_wb"}

\* always @(posedge clk or posedge reset): all but the data memory.
ResetBlocks == Blocks \ {"dmem"}

None == [b \in Blocks |-> <<>>]

S == INSTANCE CpuPipeline WITH
       imem <- sim.imem, pc <- sim.pc, registers <- sim.registers,
       dmem <- sim.dmem, if_id <- sim.if_id, id_ex <- sim.id_ex,
       ex_mem <- sim.ex_mem, mem_wb <- sim.mem_wb

ResetValue ==
    [pc |-> 0, registers |-> ZeroRegisters, if_id |-> IfIdBubble,
     id_ex |-> IdExBubble, ex_mem |-> ExMemReset, mem_wb |-> MemWbReset]

\* The values block b may assign, from what it reads when it runs.
Assigned(b) ==
    IF reset /\ b \in ResetBlocks THEN {ResetValue[b]}
    ELSE CASE b = "pc"        -> {S!next_pc}
           [] b = "registers" -> {S!next_registers}
           [] b = "if_id"     -> {S!next_if_id}
           [] b = "id_ex"     -> {S!next_id_ex}
           [] b = "ex_mem"    -> {S!next_ex_mem}
           [] b = "mem_wb"    ->
                {S!next_mem_wb(data) :
                 data \in memory_reads(sim.dmem, sim.ex_mem.MemRead, sim.ex_mem.alu_result)}
           [] b = "dmem"      ->
                memory_writes(sim.dmem, sim.ex_mem.MemWrite,
                              sim.ex_mem.alu_result, sim.ex_mem.write_data)

\* The initial blocks run in the order of the .thread statements, which is
\* the order of the modules, a testbench after what it instantiates.  Verilog
\* leaves the order open: in the other the default program overwrites theirs.
BootOrder == <<"instruction_memory", "testbench">>

SimInit ==
    /\ Init
    /\ sim = [imem |-> [n \in DOMAIN imem |-> ZeroInstruction], pc |-> pc,
              registers |-> registers, dmem |-> dmem, if_id |-> if_id,
              id_ex |-> id_ex, ex_mem |-> ex_mem, mem_wb |-> mem_wb]
    /\ boot = BootOrder
    /\ awake = {} /\ nbassign = None /\ active = None

\* An initial block writes its words of the instruction memory; the
\* testbench's is the program the atomic machine has.
RunInitial ==
    LET words == IF Head(boot) = "testbench" THEN imem ELSE DefaultProgram
    IN  /\ boot # <<>>
        /\ sim' = [sim EXCEPT !.imem = [n \in DOMAIN @ |->
                       IF n \in DOMAIN words THEN words[n] ELSE @[n]]]
        /\ boot' = Tail(boot)
        /\ UNCHANGED <<vars, awake, nbassign, active>>

\* Nothing is left to do at this simulation time.
Quiet == boot = <<>> /\ awake = {} /\ nbassign = None /\ active = None

\* The testbench's clk = ~clk, at a later time than everything before it.
PosedgeClk ==
    /\ Quiet
    /\ ClockEdge \/ ClockEdgeInReset
    /\ awake' = Blocks
    /\ UNCHANGED <<sim, boot, nbassign, active>>

\* A synchronous reset: the edge of reset wakes no block (mutant).
PosedgeResetUnseen ==
    /\ boot = <<>>
    /\ AssertReset
    /\ UNCHANGED <<sim, boot, awake, nbassign, active>>

\* reset rises, possibly while blocks woken by clk have not all run.  A
\* block that is scheduled already is not waiting and is not woken again.
PosedgeReset ==
    /\ boot = <<>>
    /\ AssertReset
    /\ awake' = awake \cup ResetBlocks
    /\ UNCHANGED <<sim, boot, nbassign, active>>

\* Every testbench releases reset on a falling edge of clk.
NegedgeReset ==
    /\ Quiet
    /\ ReleaseReset
    /\ UNCHANGED <<sim, boot, awake, nbassign, active>>

\* The assignment is a blocking one (mutant).
RunBlocking(b) ==
    /\ b \in awake
    /\ awake' = awake \ {b}
    /\ \E val \in Assigned(b) : sim' = [sim EXCEPT ![b] = val]
    /\ UNCHANGED <<vars, boot, nbassign, active>>

Run(b) ==
    /\ b \in awake
    /\ awake' = awake \ {b}
    /\ \E val \in Assigned(b) : nbassign' = [nbassign EXCEPT ![b] = Append(@, val)]
    /\ UNCHANGED <<vars, sim, boot, active>>

\* The active queue is empty: the waiting assignments become the queue.
NbaRegion ==
    /\ awake = {} /\ active = None /\ nbassign # None
    /\ active' = nbassign
    /\ nbassign' = None
    /\ UNCHANGED <<vars, sim, boot, awake>>

Perform(b) ==
    /\ active[b] # <<>>
    /\ sim' = [sim EXCEPT ![b] = Head(active[b])]
    /\ active' = [active EXCEPT ![b] = Tail(@)]
    /\ UNCHANGED <<vars, boot, awake, nbassign>>

SimNext ==
    \/ RunInitial \/ PosedgeClk \/ PosedgeReset \/ NegedgeReset \/ NbaRegion
    \/ \E b \in Blocks : Run(b) \/ Perform(b)

SimSpec == SimInit /\ [][SimNext]_simVars

-----------------------------------------------------------------------------
(* Properties *)

\* In whatever order the simulator runs the always blocks and performs
\* their assignments, and even if reset rises in the middle of it, a clock
\* edge ends in the state the atomic step gives: no block sees another's
\* new value.  And after time 0 the instruction memory holds the
\* testbench's program, not the one instruction_memory.v:13-17 writes to
\* the same words.
EdgeIsAtomic ==
    Quiet => /\ sim.imem = imem
             /\ sim.pc = pc /\ sim.registers = registers /\ sim.dmem = dmem
             /\ sim.if_id = if_id /\ sim.id_ex = id_ex
             /\ sim.ex_mem = ex_mem /\ sim.mem_wb = mem_wb

\* Once reset is high, a register that has not been cleared has a clearing
\* assignment still to come after everything else assigned to it.
ResetWins ==
    (reset /\ boot = <<>>) =>
        \A b \in ResetBlocks :
            LET queue == active[b] \o nbassign[b]
            IN  \/ b \in awake
                \/ queue # <<>> /\ queue[Len(queue)] = ResetValue[b]
                \/ queue = <<>> /\ sim[b] = ResetValue[b]
=============================================================================
