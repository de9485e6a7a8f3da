--------------------------- MODULE MCVvpProgress ----------------------------
(***************************************************************************)
(* What vvp gets done in the end: events scheduled by VPI code, threads    *)
(* that fork and wait, and the loops of the division opcodes, each at its  *)
(* own bounds.  A behaviour is a behaviour of one of them, and unit says   *)
(* of which; the variables of the others are not used.                     *)
(***************************************************************************)
EXTENDS Schedule

VARIABLES unit,
          thr, active, del_thr, later, waiters, stack, left,
          op, a0, b0, ap, bp, result, guess, high, low, diff, mul_idx, negate, answer,
          step, count

eventVars == vars
threadVars == <<thr, active, del_thr, later, waiters, stack, left>>
divideVars == <<op, a0, b0, ap, bp, result, guess, high, low, diff, mul_idx, negate, answer,
                step, count>>
progressVars == <<unit, eventVars, threadVars, divideVars>>

\* VPI code and the ends of a run (callbacks, $finish, initialisation and final blocks)
\* are Schedule at the bounds of the configuration.

\* Two processes that wait for each other's threads, never for an event.
Threads == INSTANCE VThread WITH
  NThreads <- 4, NRoots <- 2, Scopes <- {"a", "b"}, MaxStatements <- 3,
  DisableDetached <- FALSE, NestedReturn <- FALSE,
  Statements <- {"block", "task", "fork", "fork_any", "fork_none", "callf", "delay",
                 "wait_fork", "disable", "return", "disable_fork", "strobe"}

Opcodes == {"div", "div.s", "mod", "mod.s"}

\* Operands of three words, two words and one word.
ThreeWords == INSTANCE ThreadDivide WITH BITS_PER_WORD <- 2, WID <- 5, WideDivisor <- FALSE,
                                     pc <- step, cur <- count
TwoWords == INSTANCE ThreadDivide WITH BITS_PER_WORD <- 2, WID <- 3, WideDivisor <- TRUE,
                                   pc <- step, cur <- count
OneWord == INSTANCE ThreadDivide WITH BITS_PER_WORD <- 4, WID <- 4, WideDivisor <- TRUE,
                                  pc <- step, cur <- count

ASSUME EventsAssumption == ScheduleAssumption
ASSUME ThreadsAssumption == Threads!VThreadAssumption
ASSUME DivisionAssumption ==
    /\ ThreeWords!DivideAssumption /\ TwoWords!DivideAssumption /\ OneWord!DivideAssumption
    /\ TwoWords!WordAssumption /\ OneWord!WordAssumption

NoThreads ==
    /\ thr = 0 /\ active = 0 /\ del_thr = 0 /\ later = 0 /\ waiters = 0 /\ stack = 0
    /\ left = 0
NoDivision ==
    /\ op = 0 /\ a0 = 0 /\ b0 = 0 /\ ap = 0 /\ bp = 0 /\ result = 0 /\ guess = 0
    /\ high = 0 /\ low = 0 /\ diff = 0 /\ mul_idx = 0 /\ negate = 0 /\ answer = 0
    /\ step = 0 /\ count = 0

\* The events of the other units stay as they begin.
ProgressInit ==
    /\ Init
    /\ \/ unit = "events" /\ NoThreads /\ NoDivision
       \/ unit = "threads" /\ Threads!Init /\ NoDivision
       \/ unit = "divide3" /\ ThreeWords!Init /\ NoThreads
       \/ unit = "divide2" /\ TwoWords!Init /\ NoThreads
       \/ unit = "divide1" /\ OneWord!Init /\ NoThreads

ProgressNext ==
    \/ /\ unit = "events" /\ Next /\ UNCHANGED <<unit, threadVars, divideVars>>
    \/ /\ unit = "threads" /\ Threads!Next /\ UNCHANGED <<unit, eventVars, divideVars>>
    \/ /\ \/ unit = "divide3" /\ ThreeWords!Next
          \/ unit = "divide2" /\ TwoWords!Next
          \/ unit = "divide1" /\ OneWord!Next
       /\ UNCHANGED <<unit, eventVars, threadVars>>

\* vvp is one thread of execution: schedule_simulate goes on while it has something
\* to do, an executing event returns, and an opcode runs to its end.
Progress ==
    \/ /\ unit = "events" /\ Simulate /\ UNCHANGED <<unit, threadVars, divideVars>>
    \/ unit # "events" /\ ProgressNext

ProgressSpec == ProgressInit /\ [][ProgressNext]_progressVars /\ WF_progressVars(Progress)

Dividing == unit \in {"divide1", "divide2", "divide3"}

-----------------------------------------------------------------------------
(* Of the events the properties are those of Schedule: RegionsInOrder, EveryEventRuns.      *)

\* of_JOIN, of_WAIT_FORK, of_END, do_disable: every thread is deleted in the end.
EveryThreadIsDeleted ==
    <>[](unit = "threads" => \A t \in 1..4 : ~thr[t].live)

\* of_DIV, of_DIV_S, of_MOD, of_MOD_S: what is pushed is what the operator means, and
\* meanwhile "input-a = bp * result + ap" (divide_bits), and the dividend keeps its
\* residue and stays below the window (do_verylong_mod).
DivisionIsRight ==
    /\ unit = "divide3" => /\ ThreeWords!TypeOK /\ ThreeWords!AnswerIsRight
                           /\ ThreeWords!DivisionInvariant /\ ThreeWords!RemainderInvariant
    /\ unit = "divide2" => /\ TwoWords!TypeOK /\ TwoWords!AnswerIsRight
                           /\ TwoWords!DivisionInvariant /\ TwoWords!RemainderInvariant
    /\ unit = "divide1" => OneWord!TypeOK /\ OneWord!AnswerIsRight

\* No operands keep an opcode in one of its loops for ever.
Terminates == <>(Dividing => step = "done")
=============================================================================
