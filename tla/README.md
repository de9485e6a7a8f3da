# Verification of the RV32I cores and of the simulator that runs them

TLA+ models of the two processor cores in `rtl/` and of the simulation kernel in
`iverilog-13_0/vvp/` that executes their testbenches, checked with TLC, and TLAPS
proofs, for every program, width and number of events, that both cores implement the
instruction set one instruction at a time, that the simulator's blocks give the
pipeline's clock edge in whatever order they run, and that the simulator's scheduler,
delayed nets and forced signals do what they promise.

## 1. The system

The repository is a 32-bit RISC-V processor in Verilog (`rtl/`), its testbenches
(`testbench/`), its documentation (`docs/`), a synthesis flow (`synthesis/`) and a copy
of Icarus Verilog (`iverilog-13_0/`): a compiler that turns Verilog into a net list and
code, and `vvp`, the event-driven simulator that runs them.

| Component | State it keeps | Operations | What makes it correct |
|---|---|---|---|
| Datapath blocks: `control_unit`, `immediate_generator`, `alu_control`, `alu`, `branch_comparator` | none | combinational | each instruction computes what the ISA defines, at every width boundary and sign |
| `register_file` | 32 registers | asynchronous clear; write at a clock edge; combinational read with write-first bypass | x0 stays zero; a read in the cycle of the write sees it |
| `program_counter` | `pc` | asynchronous clear; load at an edge when `pc_write` | never loses a redirect |
| `instruction_memory`, `data_memory` | 256 words each | read; write at a clock edge, never reset | no store that the program does not make |
| IF/ID, ID/EX, EX/MEM, MEM/WB | one instruction in progress each | load, hold (IF/ID), flush (IF/ID, ID/EX), clear | each holds what the architecture defines for its instruction |
| `hazard_detection_unit`, `forwarding_unit` | none | decide stalls and operand sources | no reader of a load in EX while the load is in MEM; the newest value wins |
| `cpu_pipeline` | all of the above | clock edge, reset edges | behaves as one instruction at a time; never hangs |
| `cpu` (single-cycle) | `pc`, registers, memories | clock edge, reset edges | the same, one instruction per edge |
| Testbenches | a program and a clock count | load, reset, run, print | the cores give the registers they expect, in every order of the blocks |
| Synthesis wrapper | none of its own | four debug ports | the ports tell what the core does and when |
| `vvp/schedule.cc` | a list of time cells with seven queues each, flags | schedule, run, advance, stop, finish | events run at their time, in their region, and all of them |
| `vvp/vthread.cc` | heap of threads: parents, children, queues, waiters | fork, join, wait, disable, call, end | no dangling pointer, no lost wake-up, no leak |
| `vvp/vpi_callback.cc` | lists of callbacks | register, remove, walk | user code in a walk neither breaks the list nor is called twice |
| `vvp/vvp_net.cc` vectors, `vvp/arith.cc`, division opcodes | words and operands | pack, select, add, divide ... | the result is the operator's value at every width |
| `vvp/delay.cc` | pending output changes and wakeups | receive, wake, change a delay | inertial delay: a short pulse never shows, a long one always does |
| `vvp/vvp_net_sig.cc` | value, force mask, assign mask | write, force, release, assign, deassign | the signal reads as the statements say, and changes are told |
| `vvp/resolv.cc` | a tree of cached values | a driver changes | the net has the value its drivers give it |

How they interact. In the cores, interaction is by wires: all flip-flops load at the
same edge from functions of the state before it. In the simulator that edge is a burst
of events: the clocked blocks are threads, woken in some order, whose non-blocking
assignments wait in a region of their own; `schedule_simulate` executes one event at a
time, and an executing event (a thread, a net update, a callback) is what schedules the
others. Everything runs in one operating-system thread, so what interleaves is events.

What is hard. Up to five instructions share the pipeline's wires: a value may come from
the register array, its bypass, EX/MEM or MEM/WB; a stall and a redirect act on
overlapping sets of registers; reset is asynchronous, while data memory has no reset. The
single-cycle core shares the register file, whose bypass was made for the pipeline and
there feeds an instruction's result back to its own operands. In the simulator, an object
is freed while others point to it (threads, callbacks), a wake-up meets a thread that has
moved on, an input changes at the time its last change is due, and values are cached at
several levels (filters, resolver trees, unused bits of words). `PROJECT.json` lists these
hazards line by line with the properties that cover them.

## 2. Modules

| Module | What it is |
|---|---|
| `Datapath` | the combinational blocks and memory ports, as operators; constants and their assumptions |
| `RV32I`, `Assembler` | what single instructions mean, stated on bits, and encoders written from the formats: references for `Datapath` |
| `DatapathTest` | one instruction at a time through `Datapath`, beside what `RV32I` says of it |
| `Isa` | the abstract specification: fetch, execute and write back one instruction per step, plus reset |
| `CpuPipeline` | `cpu_pipeline.v` and its stages; refinement mapping to `Isa` |
| `Cpu` | `cpu.v`; refinement of `Isa` |
| `SynthTop` | composition: the pipeline behind the debug ports of the synthesis wrapper, and a recorder of what they show |
| `ClockedProcesses` | composition: the pipeline's always and initial blocks as processes under the scheduler's rules, beside the atomic `CpuPipeline` |
| `Agenda` | abstract specification of simulation time |
| `Schedule` | `schedule.cc`; implements `Agenda` |
| `VThread` | the thread opcodes of `vthread.cc` |
| `VpiCallbacks` | the callback lists of `vpi_callback.cc` |
| `Bit4`, `Vector2`, `Vector4` | four-state bits, two-state vectors in words, packed four-state vectors |
| `WordArithmetic` | `add_with_carry` and `multiply_with_carry`: sums and products of single words, used by `Vector4` and `ThreadDivide` |
| `Arith` | the arithmetic, comparison and shift functors of `arith.cc` |
| `ThreadDivide` | the division opcodes of `vthread.cc`, one loop iteration per step |
| `Delay` | `vvp_fun_delay` |
| `SignalSpec`, `Signal`, `SignalStatements` | what force, release, assign and deassign promise; what functor and filter do; both in lockstep |
| `Strength`, `Resolver` | `vvp_scalar_t` and the resolver trees |
| `MCPipeline`, `MCCpu`, `MCSynthTop`, `MCTestbench`, `MCDatapath` | instances of the cores for TLC |
| `MCVvpProcesses`, `MCVvpProgress`, `MCVvpValues` | instances of the simulator's parts for TLC |
| `DatapathProofs`, `DatapathTestProofs`, `CpuPipelineProofs`, `CpuProofs`, `ScheduleProofs`, `VpiCallbacksProofs`, `NetProofs`, `ResolverProofs` | the theorems about the module of that name (`CpuPipelineProofs`: about `SynthTop` and `ClockedProcesses` too; `NetProofs`: about `Delay`, `Signal` and `SignalStatements`), section 4 |

### How state and actions correspond to the code: the cores

* An instruction is the record of the six R-type fields, which partition the 32 bits;
  the seven opcode bits are abstracted to the case of `control_unit.v` they select,
  with `"OTHER"` for every encoding without a case (all signals off). Immediates are
  reassembled from the fields bit by bit as in `immediate_generator.v`.
* Words have `XLEN` bits (32 in the code) and wrap. Shifts use `b[4:0]`.
* Each pipeline register is a record variable with the port names of its Verilog
  module. Wires (`hazard_stall`, `forward`, `ex_stage`, `pipeline_flush`, `next_...`)
  are state functions.
* `ClockEdge` is a clock edge with reset low, `AssertReset` the rising edge of reset,
  `ReleaseReset` its falling edge, and `ClockEdgeInReset` a clock edge while reset is
  held, at which only `data_memory` can change.
* `live` is a history variable: which of the first three pipeline registers hold an
  instruction and not a bubble, and the address of the one in EX/MEM (the code drops
  the address after EX). No guard or assignment of a code variable reads it.
* A fetch outside the program yields X in simulation, which selects no case; it is
  modelled as the zero word. An access outside `data_memory` is a choice over what
  the builds do: X (the set `Junk`) or an aliased entry for a read, dropped or aliased
  for a write.
* In `Cpu`, `write_back_data` may depend on itself through the bypass. The model
  takes any value that reproduces itself, and any word if none does.

`Init` is the state with reset held, as every testbench starts; data memory powers up
with any contents in `PowerUp`.

### The refinement mapping

An instruction takes effect at the edge at which it leaves EX/MEM: its store is in data
memory and its result in MEM/WB, from where the register file takes it one edge later.
So `Isa`'s registers are the register file with MEM/WB's write applied
(`arch_registers`), its memory is `dmem`, and its program counter is the address of the
oldest instruction not yet past EX/MEM, or `pc` when the pipeline is empty (`arch_pc`).
An edge with an instruction in EX/MEM is one `Step`; one with a bubble there is a stutter.

### How state and actions correspond to the code: the simulator

* `Schedule`: a cell stores the *difference* to the cell before it, as in the code. An
  event is its number, kind, queue and due time. The functions an executing event calls
  are actions enabled while something executes (`cur`), so every nesting of calls occurs;
  `pc` is where `schedule_simulate` is. `stop_handler`'s prompt is a phase of its own.
* `VThread`: the heap is an array of thread records; a freed one is `Freed`. One action is
  one opcode, with everything it calls (`vthread_reap`, `schedule_vthread`, ...). A
  statement is the opcode sequence `tgt-vvp` draws for it, so opcodes come in the orders
  the compiler can produce. Frames of `vthread_run` are a stack, because functions run
  inside it.
* `VpiCallbacks`: one step is one visit of a walk; between the call of a callback and its
  return user code may register, remove and trigger others.
* `Vector4`: a vector is its words, with the bits above its size; each operation of the
  class is an action on it beside the same operation on a plain sequence of bits. Words
  have `BITS_PER_WORD` bits (64 in the code).
* `Arith`: operands arrive in any order at the two ports; the native path is taken when
  the width fits a word, the `wide_` path otherwise, as in the code.
* `ThreadDivide`: `divide_bits`, `divide2words` and `do_verylong_mod` with their loops; one
  iteration of `multiply_array_imm` is a step too, and its words are multiplied by halves
  (`WordArithmetic`), as in the code.
* `Delay`: the pending list, the wakeups in the scheduler and the input are separate; a
  wakeup may find no event. A vector waits as a whole, for the longest delay of the bits
  that change; `MixedDelays` is the case that they differ (section 5). `ChangeWhenDue` says whether the input may change at the time
  an event is due and not yet sent (section 5).
* `Signal`: `fun` is `vvp_fun_signal4_sa`, `fil` is `vvp_wire_vec4`; `force_link_` and
  `cassign_link` are the links that `%force/link` and `%cassign/link` make.
* `Resolver`: `val_` is the array of nodes as `resolv_tri` and `resolv_wired_logic` lay it
  out, ports first; `received` and `resolved` are histories, what each port last received and
  what the net was last sent.

## 3. Runs

| Run | Checks | Instance |
|---|---|---|
| `pipeline` | `TypeOK`, `PipelineInv`, `NoRedirectWhileStalled`, `BubbleHasCause`, `RefinesIsa`, `StallLastsOneCycle`, `ResetStoresNothing` | all 11^4 programs of four instructions, 4-bit words, two memory words, reset at any time; 417 000 states |
| `pipeline_live` | `CycleCost` (with `NeverIdleLong`), `WriterShown`, `Progress` | all 11^3 programs of three instructions behind the debug ports, under fairness |
| `cpu` | `LoopOnlyOnOwnDestination`, `RefinesIsaButInReset`, `OnlyFirstStoreInReset` | all three-instruction programs that do not read their own destination |
| `testbench` | `TestbenchPasses`, `EdgeIsAtomic`, `ResetWins` | the programs of the three pipeline testbenches and the default program, 30-bit words, 256 memory words, two power-up contents, every order of the blocks at every edge, reset rising again at any moment of the first cycles |
| `datapath` | `ResultMeetsISA` (with `ImmediateMeetsISA`), `NextPcMeetsISA` | every instruction of the table in `docs/Architecture.md` but FENCE: corner operands and immediates at 30 bits |
| `vvp_processes` | `RefinesAgenda`, `UpdatesBeforeReaders`; `FreedInTime` = `NoDangling` and `NoLeak`, `LinksAgree` = `FamilyTree` and `ScheduledOnce`, `SomeoneWillWake`, `JoinedAll`; `ListsIntact` = `NoDanglingPointer` and `PrevPrecedesCur`, `CalledOnce` (with `NewOnesWait`), `RemovedIsReaped` | event list (4 events, delays 0 to 2; 3 events with one interruption and `$finish`), threads (4 threads, 5 statements of 16 kinds), callbacks (4, two changes) |
| `vvp_progress` | `RegionsInOrder` = `StartIsFirst` and `ReadOnlySeesTheEnd`, `EveryEventRuns`; `EveryThreadIsDeleted`; `DivisionIsRight` = `DivisionInvariant`, `RemainderInvariant` and `AnswerIsRight`, `Terminates` | VPI events (3 events), threads (4 threads, 3 statements, two scopes), division (all operands of one, two and three words), under fairness |
| `vvp_values` | `ResultIsRight`; `StandsForBits` (with `ReportsChange`), `ReadsBits` = `SelectsPart`, `ArrayIsPart` and `ComparesBits`; `InputArrives` = `FollowsInput`, `SentOnTime` and `LeastDelay`, `FixedDelayIsInertial`; `ReadsAsPromised` (with `FanOutHasValue`), `ChangesAreTold`; `NetIsResolved` = `NetIsExact`, `DriversCounted` and, for two drivers of a `tri` net, `NetCoversDrivers` | three widths of functors, three vectors, four delayed nets, a net and a variable, four resolvers |
| `cpu_loop`, `stall_reason`, `load_forward`, `word_address` | expected violations, section 5 | one two-instruction program each |

The three `vvp_` runs put several instances of components side by side: the variable
`unit` says which one a behaviour is of, and the variables of the others stay as they begin.
The instances never interact; each could be a run of its own. `MCVvpProcesses` and
`MCVvpProgress` extend `Schedule`, the first `VpiCallbacks` too, and `MCVvpValues` extends
`Delay` and `SignalStatements`: these modules' own properties are what the runs check, the
definitions that the theorems of section 4 are about. The other instances are named, and a
property of the MC module speaks of the units it names. Where the table writes `A` = `B` and
`C`, or `A` (with `B`), the run checks one conjunction `A` whose parts have a definition and
a comment of their own; the type invariants of the simulator's components are conjuncts too
(`LinksAgree`, `RegionsInOrder`, `DivisionIsRight`, ...) or proved (`DelayTypes`,
`FanOutAgrees`). `PipelineInv` contains `ExMemArchitectural`, `OnePath` and
`LoadUseSeparated`.

Why the bounds are enough.

* Cores: with 4-bit words `pc` runs over four instructions and wraps, so every program is
  an endless loop in which every instruction meets every other at every distance the
  pipeline can hold (a dependence spans at most three instructions). The eleven
  instructions contain a producer, a consumer of both operands, a write of x0, loads with
  and without a register base, a store whose data and address are produced just before, a
  branch, `jal`, `jalr` on its own link register, and `lui`/`auipc` whose immediate bits
  look like source registers. Control does not depend on the width of data; what depends
  on width is checked in `datapath` and proved. TLC's integers have 32 bits, so 30 is the
  widest word whose sums fit; the theorems are about 32 as well, and about all operands.
* `testbench`: `CycleBound` is two edges more than the longest testbench runs;
  `ResetBound` lets reset return until the first instructions have passed all stages.
* Event list: four events with three delays put a new cell before, between, behind and on
  existing cells, and leave events in several regions of one time.
* The testbenches' blocks run in every order at every edge, but their initial blocks in one,
  the order in which vvp queues them (`BootOrder`); section 5 says what the other one does.
* Threads: four threads give a parent with two children and a grandchild, or two families;
  five statements let each process fork, wait and be disabled.
* Callbacks: a walk has a predecessor, a current one and a next one to remove, and one
  more to register.
* Vectors and division: words of two bits, so three words cost six bits and every
  alignment and carry occurs; division is run on all operands of these widths.
* Delays: the longest delay is less than `MaxTime`, so three changes of the input can be
  pending, overtake each other and be swallowed. In the vector `bus` rise, fall and decay
  differ, so that two bits that change together may have different delays: there
  `FixedDelayIsInertial` states what each bit is owed, and says which bits get it late.
* Resolvers: five ports make a tree of two levels with an incomplete group, seventeen one
  of three levels.

`CHECK_DEADLOCK FALSE` appears only where the system ends: the testbenches stop their clock
(`CycleBound`), a datapath test evaluates one instruction, a simulation runs out of events,
threads end, a division is done, and bounded inputs are used up.

Fairness. The clock is free-running (`always #5 clk = ~clk`), so `TopFairSpec` has weak
fairness of `TopEdge`; nothing is assumed of reset, and `Progress` speaks of behaviours in
which it stays low from some point on. vvp is one loop that goes on while it has something
to do: `ProgressSpec` of `MCVvpProgress` has weak fairness of `Simulate` (the loop itself and the
return of the event it executes, not what that event chooses to call), of the steps of the
threads, and of the steps of a division. Threads there wait for children and delays, never
for an event that nobody triggers.

Each property has a mutant in `PROJECT.json`: a plausible slip in the code (no bypass, older
result first, a time cell inserted without adjusting the next, a thread reaped while it is
scheduled, a carry lost, a pulse not swallowed, a force mask not cleared, ...) under which
TLC finds it violated.

## 4. Proofs

Each theorem holds for every value of the constants of its module that meets the
assumptions below; the run in the last column (of this row or the nearest above) checks the
same property on an instance.

| Module | Theorem | Statement | Run |
|---|---|---|---|
| `DatapathTestProofs` | `DatapathResults` | `Spec => []ResultMeetsISA` | `datapath` |
| | `DatapathNextPc` | `Spec => []NextPcMeetsISA` | |
| `CpuPipelineProofs` | `PipelineRefinesIsa` | `Spec => RefinesIsa` | `pipeline` |
| | `InvariantHolds` | `Spec => []PipelineInv` | |
| | `NoLostRedirect` | `Spec => []NoRedirectWhileStalled` | |
| | `BubblesHaveCause` | `Spec => []BubbleHasCause` | |
| | `StallIsSingle` | `Spec => StallLastsOneCycle` | |
| | `ResetIsClean` | `Spec => ResetStoresNothing` | |
| | `WidthsHold` | `Spec => []TypeOK` | |
| | `CostIsExact` | `TopSpec => []CycleCost` | `pipeline_live` |
| | `WriterIsShown` | `TopSpec => []WriterShown` | |
| | `EdgesAreAtomic` | `SimSpec /\ []AccessInside => []EdgeIsAtomic` | `testbench` |
| | `ResetIsLast` | `SimSpec => []ResetWins` | |
| `CpuProofs` | `SingleCycleRefinesIsa` | `Spec => RefinesIsaButInReset` | `cpu` |
| | `LoopIsOwnDestination` | `Spec => []LoopOnlyOnOwnDestination` | |
| | `FirstStoreInResetOnly` | `Spec => OnlyFirstStoreInReset` | |
| | `TypesHold` | `Spec => [](TypeOK /\ ResetState)` | |
| `ScheduleProofs` | `SchedulerIsAgenda` | `Spec => RefinesAgenda` | `vvp_processes` |
| | `UpdatesComeFirst` | `Spec => []UpdatesBeforeReaders` | |
| | `RegionsAreOrdered` | `Spec => []RegionsInOrder` | `vvp_progress` |
| | `CellsAreDeletedEmpty` | `Spec => NothingDropped` | none |
| `VpiCallbacksProofs` | `CallbackListsIntact` | `CallbacksSpec => []ListsIntact` | `vvp_processes` |
| | `CallbacksCalledOnce` | `CallbacksSpec => []CalledOnce` | |
| | `RemovedCallbacksAreReaped` | `CallbacksSpec => []RemovedIsReaped` | |
| `NetProofs` | `EveryInputArrives` | `DelaySpec => []InputArrives` | `vvp_values` |
| | `DelayIsInertial` | `DelaySpec => InertialDelay` | |
| | `DelayTypes` | `DelaySpec => []DelayTypeOK` | none |
| | `StatementsAreKept` | `StatementsSpec => []ReadsAsPromised` | `vvp_values` |
| | `FanOutAgrees` | `Spec => [](FanOutHasValue /\ TypeOK)` | |
| | `NoChangeUntold` | `Spec => ChangesAreTold` | |
| `ResolverProofs` | `NetsAreResolved` | `ResolverSpec => []NetIsResolved` | `vvp_values` |

`SchedulerInvariant`, `CallbackInvariant`, `LeastDelayIsKept`, `NoEventLeftBehind` and
`InputIsFollowed` are steps on the way. `FixedDelayIsInertial` is `InertialDelay` for two of
the run's delayed nets: the others have delays that change.

### Assumptions

* `Datapath`: words have at least one bit, memories at least one word, programs are
  functions into `Instruction`, data memory powers up with words. `WidthAssumption` also
  states the law `2^(n+1) = 2 * 2^n` for the exponents in use: the provers know nothing of
  `^`, and TLC evaluates it. The refinement proofs keep the ALU, the immediate generator,
  the comparator and the memory outcomes opaque: they use nothing of them but that equal
  inputs give equal outputs, so the pipeline's correctness does not rest on the datapath's.
  `WriterIsShown` needs `XLEN > 2`: with two bits, `pc + 4` is `pc`.
* `DatapathTestProofs`: `TestWidthAssumption`, words of 5 to 32 bits. Below five bits a
  shift amount does not fit the register it comes from; above 32 the immediate of LUI and
  AUIPC would have to be sign-extended, which the code, made for 32, does not do.
  `TestAssumption` says what the formats can hold: operands are words, the immediates of
  the I and S formats 12 bits, branch and jump offsets even, upper immediates 20 bits.
* `CpuProofs`: `SingleCycleRefinesIsa` assumes `LoopFree`, that no instruction reads the
  register it writes. `cpu_loop` shows that it cannot be dropped; `LoopIsOwnDestination`
  needs no such assumption.
* `CpuPipelineProofs`: `EdgesAreAtomic` is about executions whose loads and stores stay
  inside data memory. Outside it the two machines may each choose another of the outcomes
  that the builds have.
* `ScheduleProofs`: `~StartNow`, start-of-time callbacks are registered for later times
  only. Section 5 shows what happens to one for the current time.
* `VpiCallbacksProofs`: `NotNested`, no callback changes the signal whose change called it
  (`MaxDepth <= 1`; a change inside a time callback is allowed). With `MaxDepth = 2`
  `PrevPrecedesCur` is violated (section 5).
* `NetProofs`: `Orderly`, `Faithful` and `Regular` say when the input of a delayed net may
  change at the very time an earlier change is due: never, or at most once for vectors; with
  the delays fixed where inertial delay is claimed. What happens otherwise is in section 5.
  Of signals: `IsNet \/ ~ReleaseOwned`, a variable's forced bit that an `assign` owns is
  not released (section 5).
* `ResolverProofs`: `Drivers \subseteq Declared`, each driver sends what a value and a pair of
  strengths declare, as a gate or a continuous assignment does. A value that is ambiguous in
  its strength alone, say 1 somewhere from weak to pull, has no declaration; it can only
  come from another resolved net, and with such a driver `NetCoversDrivers` is false even for
  two (an equally strong opposite end is lost, as in the row `vvp_net.cc:3641` of section 5).
  Ports, width, drivers, kinds and whether drivers are part selects are arbitrary.

Each hypothesis is met by an instance that some run checks.

### The pipeline

`RefinesIsa` says nothing of the pipeline registers and is not inductive. The strengthening
is `PipelineInv`, one statement per register against the instruction in it:

1. `IfIdFetched`, `IdExDecoded`: IF/ID holds the word at its address; ID/EX holds it
   decoded, with operands equal to the register file *as it is now* (not as it was when
   read: the bypass supplies the one write that could be missed).
2. `ExMemArchitectural`: EX/MEM holds what `Isa` computes for its instruction from the
   architectural registers. This is where forwarding has to be right, and lemma
   `ForwardIsArchitectural` is the heart of the proof: the multiplexer yields the register's
   value after all older instructions. It needs
3. `LoadUseSeparated` (a load in EX/MEM is never forwarded from, which the stall ensures)
   and the part of `OnePath` that says a redirect in EX/MEM has nothing live behind it (so a
   jump's `alu_result` is never forwarded).
4. `OnePath`: the instructions in flight are consecutive on the program's real path. It needs
   that a stall and a redirect never coincide, which follows from decoding: no opcode is both
   a load and a branch or jump.
5. `ResetEmpty`.

`IndexOK` adds that register numbers index the register file. One lemma per conjunct shows
that a clock edge preserves it (`EdgeIfId` ... `EdgeOnePath`); `EdgeRegisters` and `EdgePc`
describe how the mapped registers and program counter move, and `RefineStep` and
`RefineBubble` conclude.

`WidthsHold` rests on `DatapathProofs`: what each block computes from words is a word, at
every width. Powers of two and the bitwise gates (`BitMap`) are recursive functions over
bit positions; what is said of them is proved by taking a least counterexample
(`LeastNatural`, `UpTo`).

`CostIsExact`: `RecorderInv` relates the recorder's counters to the stages: the cycles not
yet accounted for are the live stages (`owed`), the idle cycles at the write port are those
of the bubbles behind it (`IdleByStage`), and the recorded addresses are those of the stages
(`AddressesShown`), which is what `WriterIsShown` needs.

### The datapath

`DatapathResults` and `DatapathNextPc` are about every test that `DatapathTest` can make of
the operands and immediates it is given; `TestIInv` says that an outcome is what `datapath`
yields for the instruction under test, and the rest is about operators.

* `AluMeetsISA`: what the ALU computes by arithmetic on words has the bits that `RV32I`
  states. Its lemmas describe one bit of a power, a sum modulo `2^XLEN`, a shift (`BitStep`,
  `ShiftRightBits`, `ShiftLeftBits`, `ShiftArithmeticBits`, with `CappedShift` for amounts
  beyond the width) and the recursive `BitMap` of the gates (`BitMapBits`).
* `ComparatorMeetsISA`: two words that agree above a bit and differ in it are ordered by it
  (`SameAbove`, `BelowIsLess`), and in the signed order the top bit counts the other way
  (`SignedBelowIsLess`); `branch_comparator` compares the words as numbers.
* `IImmediate` ... `UpperImmediate`: the immediate generator undoes the encoder of each
  format, bit fields and sign included.
* `OutcomeAlu`, `OutcomeTransfer`, `Selected`: which operation, operands and write-back each
  opcode selects; then one lemma per kind of test (`RTestsRight` ... `UpperTestsRight`).

### The single-cycle core

`LoopIsApparent`: for an instruction that does not read its destination no operand depends
on the written value, so `write_backs(w)` is the same set for every `w` and what settles is
exactly one of its members. With that each `ClockEdge` is a `Step` of `Isa`. In reset
(`ResetState`) only the store of the instruction at address 0 remains.

### The pipeline under the simulator

`Comes(b, v)`: the last assignment that block `b` has queued, or its register if none is
queued, is `v`. `ResetInv` says this of the reset values while reset is high; `AtomicInv`
says it of the atomic machine's registers, that a block that has still to run can assign
nothing else, and that no non-blocking update is performed while a block of the same edge
is still to run unless both are resets. The last is what `UpdatesBeforeReaders` of the
scheduler provides, so `UpdatesComeFirst` and `EdgesAreAtomic` together carry the atomic
clock edge down to the list of time cells.

### The scheduler

`RefinesAgenda` speaks of absolute times and the list of differences. `SchedInv` has three
parts:

1. `Increasing`: all differences but the first are positive, so that a cell's time
   (`Elapsed`) identifies it and only the first cell can be of the current time.
2. `Cells`: every event waits in a cell of its due time, on the queue it was scheduled for or
   promoted to the active one (`Fits`); no event waits twice (`Distinct`); a later cell is
   not empty, which is why time never stops without an event; and the current cell holds what
   its phase allows (`Staged`): nothing in the start queue after the start phase, nothing
   but read-only callbacks and ended threads in `run_rosync`, the batch of non-blocking
   updates in front of what it has woken (`UpdatesFirst`).
3. `PhaseInv`: where `schedule_simulate` is, what executes and what has been executed.

The proof has three layers. Arithmetic: `FindCellFinds` shows that the walk along the
differences finds the cell of the wanted time or makes it and leaves the time of every
other cell as it was; `Elapsed` is a recursive function, and `SumIsElapsed` says that
whatever adds up the differences is `Elapsed`. Cells and lists: one lemma for each thing
that is done to a cell (`CellAppend`, `CellPush`, `CellTake`, `CellPromote`, `CellAdvance`,
`CellWaits`) and one for its effect on the list and on what is pending (`ListSchedule`,
`ListPush`, `ListTake`, `ListPromote`, `ListAdvance`, `ListDrop`). Steps: one lemma per
action shows `StepIsGood`: the invariant, a step of `Agenda` or none, and no cell deleted
that holds an event.

### VPI callbacks

A list is the least set that has its head and is closed under the next pointers
(`ListFrom`). No recursion is needed to reason about it: that a list unfolds (`ListUnfold`),
keeps its members when others change (`ListKept`) and is ordered (`ListTotal`) follows by
showing a set closed. The invariant `IInv` consists of types, the shape of the stack of walks
and callbacks, what holds of the lists (the objects on them are live, none is on two, no
list leads back to itself), and for every walk in progress: what is ahead of it is on its
list; the predecessor it holds is still linked to what follows; a callback that is due has
been called, was removed or is ahead; one that was removed before the walk has been freed or
is ahead. The last two at the end of a walk, when nothing is ahead, are `CalledOnce` and
`RemovedIsReaped`. `CalledOnce` alone is not inductive, because removal and unlinking act on
objects that the walk has still to reach.

### Delayed nets and signals

`ListInv`: the pending list holds at most one event that is due now and one behind it, and
each has a wakeup of its own at its time; `SentOnTime` alone is not inductive, because a
wakeup of a swallowed event may serve another. `WaitInv` dates each pending event by when
the input took its value, and `HistoryInv` says that the input held it since.
`DelayIsInertial` compares each bit with its own delay, the code only the longest of a
vector: `LongestIsWaited` shows that a bit changes when its own delay has passed, unless
`MixedDelays` holds, and never before.

`Good`: the filter's output is the functor's value under the force mask, an empty mask if
nothing was ever forced, and for a variable functor and filter hold the same bits. Each
operation is shown to take a good pair to a good one and to tell the readers of any change
(`Leaves`); `PromiseInv` adds the statements' bookkeeping.

### Resolved nets

`NetIsResolved` speaks of the drivers and the root. The invariant `RInv` speaks of every node
(`TreeOK`): a port holds what it last received, reduced to bits on a wired net; a node above
the ports holds the resolution of its group of four (`Cached`), the root that and the pull
(`Fixed`); and the net was last sent the root. The proof has four parts:

1. Bits. For drivers equally strong both ways `resolve` takes the strongest strength and
   every value that has it (`ResolveEven`), so the resolution of two sets of drivers is that
   of their union (`NetOfUnion`) and neither the grouping nor the order matters; `WiredUnion`
   says the same of wired nets. For any two declared drivers `ResolveCovers` shows by cases
   that no possible outcome is lost. `PullTwice`: a pulled value is not changed by the pull,
   which is why storing the pull in the root is harmless there.
2. Shape. `Span` and `Base` exist as the recursions say (`SpanSteps`, `BaseSteps`), a level
   has a single node after finitely many (`SpanShrinks`), levels do not overlap
   (`NodesApart`) and groups of four fit the level above (`GroupAbove`).
3. The climb. `ClimbOK` is the invariant of the loop: every node but the one above the node
   just changed is cached, and once the climb has stopped all are (`ClimbStep`). The root
   needs care: the climb compares a group that was not pulled with a root that was, and stops
   only if they are equal, so that the root was not altered by the pull.
4. The root. By induction over the levels each node resolves the ports below it
   (`LevelsRes`, `TopRes`), hence `TreeIsExact` and `TreeCovers`.

### Only model-checked, and why

* Liveness: `Progress`, `EveryEventRuns`, `EveryThreadIsDeleted`, `Terminates`. The prover
  has no rule for fairness.
* `TestbenchPasses`: a statement about finitely many given programs; running them is the
  proof.
* `VThread` (`FreedInTime`, `LinksAgree`, `SomeoneWillWake`, `JoinedAll`): a heap of threads
  with some twenty opcodes, four of which fold an operation over a set or a sequence of
  threads whose links the operation itself changes. The invariant would have to hold inside
  these folds, over states that no action shows, and a fold takes an operator as its
  parameter, which the library's induction theorems cannot be instantiated with.
* `FixedDelayIsInertial` is proved as `InertialDelay` of one net; the run's property is about
  two at once.
* `Vector4` (`StandsForBits`, `ReadsBits`), `Arith` (`ResultIsRight`), `ThreadDivide`
  (`DivisionIsRight`): what recursive functions over words and bits compute for every width.
  Induction over data is possible for one given function, as for `BitMap`, `Elapsed`, `Span`
  and `Climb` above, and would have to be done for each; for `Arith` and `ThreadDivide` it would be about products of words, which the provers'
  arithmetic does not decide.

## 5. Where code and documents disagree

* **Single-cycle core, own destination** (`cpu_loop`). `cpu.v` is documented as the
  ground truth, but an instruction with `rd = rs1` reads its own result through the
  bypass. `addi x1,x0,16; jalr x1,0(x1)` jumps to 8, and `addi x1,x1,1` has no stable
  value. `LoopOnlyOnOwnDestination` shows that only such instructions are affected, and
  the `cpu` run that the core is right on programs without them. The pipeline, whose
  write port belongs to an older instruction, is not affected (`RefinesIsa` includes
  both instructions).
* **Stalls without a reader** (`stall_reason`), **where a load is forwarded from**
  (`load_forward`), **data memory indexing** (`word_address`): see the findings in
  `PROJECT.json`.

Observed in the cores without a run of their own: `docs/Hazard_Unit.md:135` and
`cpu_pipeline_tb.v:23` call `addi x3,x2,0` a distance-two dependence served by MEM/WB, but
it follows its producer directly and is served by EX/MEM; loads and stores ignore `funct3`,
so only word accesses exist, which `docs/Architecture.md`'s instruction table lists but its
phrase "complete RV32I base integer instruction set" does not. The default program
(`instruction_memory.v:13`) and a testbench's own are written to the same words by two
initial blocks, whose order Verilog leaves open: with `BootOrder` reversed, the default
program survives and `TestbenchPasses` and `EdgeIsAtomic` are violated.

Observed in the simulator. Each of these was met while modelling and is excluded from the
runs by the parameter or definition named; giving it the other value makes TLC show the
behaviour. All paths are under `iverilog-13_0/vvp/`.

| Where | What the code does | How to see it |
|---|---|---|
| `vpi_callback.cc:525` | a start-of-time callback for the current time goes to a queue that is read only when time advances, and is deleted with its cell | `StartNow = TRUE`, `NothingDropped` |
| `schedule.cc:1195` | after `$finish` the rest of the time step still runs; `schedule.h:191-193` says "all remaining events abandoned" | `Schedule` with `"finish"`: `ran` grows while `runnable` is false |
| `vthread.cc:2607`, `2619` | disabling a detached thread lets its parent pass the `%join` of another fork, or leaves it in `%wait/fork` | `DisableDetached = TRUE`, `JoinedAll` and `SomeoneWillWake` |
| `vthread.cc:811` | a `return` from inside two blocks of a function frees a thread whose frame is still on the stack | `NestedReturn = TRUE`, `NoDangling` |
| `vvp_net.cc:2824` | wide division by 1 of a dividend above half the range | `WideDivideByOne` in `Arith`, excluded in `ResultIsRight` |
| `arith.cc:496` | wide negative powers of 0, 1 and -1 | `WideNegativeExponent` in `Arith`, likewise |
| `vthread.cc:2799` | `divide_bits` with a divisor of several words and operands of three | `WideDivisor = TRUE` at three words, `DivisionInvariant` |
| `vthread.cc:2737` | the high word of `divide2words` may stay the same in an iteration; the comment at 2741 says it "will certainly be less" | `GuessHigh`; `TwoWordsShrink` is the measure that does decrease |
| `vpi_callback.cc:895` | a value change inside a callback walks the same list again, and the outer walk's predecessor may be gone when it asserts | `MaxDepth = 2`, `PrevPrecedesCur` |
| `delay.cc:193`, `459`, `285` | an input that changes at the very time an earlier change is due, before it is sent | `ChangeWhenDue`, `FollowsInput` and `InertialDelay` |
| `delay.cc:245` | bits of one vector that change together with different delays all wait for the longest, and a change of one bit starts the wait of the others anew; the code's FIXME: intermediate vectors should be scheduled, "the results would be wrong" | `InertialStep` without `MixedDelays`, unit `bus` of `vvp_values` |
| `vvp_net_sig.cc:982` | releasing a forced bit of a variable that an `assign` owns leaves the forced value | `ReleaseOwned = TRUE` for a variable, `ReadsAsPromised` |
| `vvp_net.cc:3641` | with drivers of unequal strengths for 0 and 1 the result depends on the order of three of them | `Resolver` with three ports and `AllDrivers`, `NetCoversDrivers` |
| `resolv.cc:174` | on a `tri0` or `tri1` net with one driver the pull overwrites the driver's entry, which `$countdrivers` reads | `Resolver` with one port, `DriversCounted` |
| `vthread.cc:3269` | `%force/vec4` keeps an earlier `%force/link`, whose source writes through later | no document says which force wins; `Signal` keeps the link |

## 6. Not modelled

The repository holds about 255 000 lines of implementation, nearly all of Icarus Verilog.
The project models the cores completely and, of Icarus, the part whose behaviour depends on
order, memory management or word boundaries: about 6 200 lines of the simulation kernel. What
is left out, and why:

* The compiler front end (`elaborate.cc`, `elab_expr.cc`, `netlist.cc`, `pform.cc`, ...): a
  sequential translation of syntax trees to a net list. That it is right is a relation
  between Verilog's semantics and the net list over trees of any depth; it has no state
  machine to explore, no small instance that says anything, and its proofs are inductions
  over data.
* The code generators (`tgt-*`, `vhdlpp`), the preprocessor and the driver: text from trees
  and text from text. What `tgt-vvp` draws for fork, join, return and disable is in `VThread`.
* The VPI libraries (`vpi/`): formatted output and waveform files.
* Of `vvp`: islands of bidirectional switches, module path delays, event functors, logic,
  part-select and UDP functors, arrays and dynamic types, real functors, the value-stack
  opcodes of threads, the loader and the VPI object model. `PROJECT.json` has the reason for
  each.
* In the cores: X propagation beyond the cases of section 2, and timing (setup, hold, reset
  released close to a clock edge); the synthesised netlists, which are generated; the unit
  testbenches, whose inputs the `datapath` run includes.

## 7. Plan

Done: the datapath, proved right at every width up to the code's; both cores, the abstract
machine, the refinement of it by both cores and its proofs; the debug ports and the cost
model, proved; the simulation of the pipeline block by block, proved to be atomic; the
simulator's scheduler, callbacks, delays, signals and resolvers, checked and proved; its
threads, vectors and arithmetic, checked. Next, in order:

1. proofs: an inductive invariant of `VThread`'s links for `FamilyTree` and `NoDangling`;
2. islands (`vvp_island.cc`, `island_tran.cc`): resolution of a graph of switches to a fixed
   point;
3. module path delays (`vvp_fun_modpath`) beside `Delay`;
4. event functors, composed with `VThread`: which threads an edge wakes, and when;
5. constant folding in the compiler (`verinum.cc`) against `Arith`: the two must agree.
