--------------------------- MODULE MCVvpProcesses ---------------------------
(***************************************************************************)
(* What vvp runs and in which order: the event list, the threads and the   *)
(* callbacks of VPI code, each at its own bounds.  A behaviour is a        *)
(* behaviour of one of them, and unit says of which; the variables of the  *)
(* others are not used.                                                    *)
(***************************************************************************)
EXTENDS Schedule, VpiCallbacks

VARIABLES unit,
          thr, active, del_thr, later, waiters, frames, left

eventVars == vars
threadVars == <<thr, active, del_thr, later, waiters, frames, left>>
processVars == <<unit, eventVars, threadVars, callbackVars>>

\* Design code (threads, gates, non-blocking assignments) is Schedule at the bounds of
\* the configuration.  The same interrupted: $stop, the prompt and single steps, $finish
\* from there.
Interrupted == INSTANCE Schedule WITH
  MaxEvents <- 3, Delays <- {0, 1}, MaxStops <- 1, StartNow <- FALSE,
  Calls <- {"vthread", "inactive", "assign", "stop", "finish"}

\* Two processes and two more threads at a time, every kind of statement.
Threads == INSTANCE VThread WITH
  NThreads <- 4, NRoots <- 2, Scopes <- {"a"}, MaxStatements <- 5, stack <- frames,
  DisableDetached <- FALSE, NestedReturn <- FALSE,
  Statements <- {"block", "fork", "fork_any", "fork_none", "callf", "ufunc", "delay",
                 "wait", "trigger", "wait_fork", "stop", "strobe", "disable", "return",
                 "task", "disable_fork"}

ASSUME EventsAssumption == ScheduleAssumption /\ Interrupted!ScheduleAssumption
ASSUME ThreadsAssumption == Threads!VThreadAssumption
ASSUME ListsAssumption == CallbackAssumption

NoThreads ==
    /\ thr = 0 /\ active = 0 /\ del_thr = 0 /\ later = 0 /\ waiters = 0 /\ frames = 0
    /\ left = 0

\* The events and the callbacks of the other units stay as they begin.
ProcessInit ==
    /\ Init /\ CallbacksInit
    /\ \/ unit \in {"events", "stop", "callbacks"} /\ NoThreads
       \/ unit = "threads" /\ Threads!Init

ProcessNext ==
    \/ /\ \/ unit = "events" /\ Next
          \/ unit = "stop" /\ Interrupted!Next
       /\ UNCHANGED <<unit, threadVars, callbackVars>>
    \/ /\ unit = "threads" /\ Threads!Next
       /\ UNCHANGED <<unit, eventVars, callbackVars>>
    \/ /\ unit = "callbacks" /\ CallbacksNext
       /\ UNCHANGED <<unit, eventVars, threadVars>>

ProcessSpec == ProcessInit /\ [][ProcessNext]_processVars

-----------------------------------------------------------------------------
(* Of the events and of the callbacks the properties are those of Schedule (RefinesAgenda,  *)
(* UpdatesBeforeReaders) and VpiCallbacks (ListsIntact, CalledOnce, RemovedIsReaped).       *)

\* vthread_reap, vthread_delete, of_ZOMBIE, run_rosync: a thread is not freed while
\* a pointer to it may be followed, and an ended one is never forgotten.
FreedInTime == unit = "threads" => Threads!NoDangling /\ Threads!NoLeak

\* vthread_mark_scheduled, vthread_run, do_disable, of_JOIN_DETACH: parents and
\* children agree, and a thread is on one list of the scheduler or of an event, once.
LinksAgree ==
    unit = "threads" => Threads!TypeOK /\ Threads!FamilyTree /\ Threads!ScheduledOnce

\* of_JOIN, of_WAIT_FORK: who waits for a child has one that will wake it.
SomeoneWillWake == unit = "threads" => Threads!SomeoneWillWake

\* of_END, of_WAIT_FORK: a thread past its fork statement has no child left.
JoinedAll == unit = "threads" => Threads!JoinedAll
=============================================================================
