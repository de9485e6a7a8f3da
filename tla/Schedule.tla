------------------------------ MODULE Schedule ------------------------------
(***************************************************************************)
(* The event scheduler of vvp, the simulator that executes the compiled    *)
(* cores and testbenches (iverilog-13_0/vvp/schedule.cc).                  *)
(*                                                                         *)
(* Pending events are kept in a list of time cells.  A cell stores the     *)
(* DIFFERENCE between its time and that of the cell before it (the first   *)
(* one, to schedule_time), and one FIFO queue per region of the stratified *)
(* event queue.  schedule_simulate takes the first event of the first      *)
(* cell, executes it to its end, and looks again; executing an event is    *)
(* what calls the schedule_... functions.  Here an event is a record with  *)
(* the data the properties compare: its number in scheduling order, who it *)
(* runs (a thread, a value update or a callback), the queue it was put on  *)
(* and the absolute time it is meant for.  What an executing event calls   *)
(* is any sequence of the functions in Calls, MaxEvents events in all.     *)
(***************************************************************************)
EXTENDS Integers, Sequences, SequencesExt, FiniteSets

CONSTANTS
    MaxEvents,      \* bound: events scheduled in a behaviour
    Delays,         \* the delays that calls ask for
    MaxStops,       \* bound: times the simulation is interrupted
    Calls,          \* the scheduling functions the design and its VPI code use
    StartNow        \* may a start-of-time callback be registered for the current time?

ScheduleAssumption ==
    /\ MaxEvents \in Nat \ {0} /\ MaxStops \in Nat
    /\ Delays \subseteq Nat /\ 0 \in Delays
    /\ StartNow \in BOOLEAN

VARIABLES
    sched_list,         \* sequence of time cells
    init_list,          \* schedule_init_list
    final_list,         \* schedule_final_list
    next_sim_time,      \* NextSimTime callbacks (vpi_callback.cc), newest first
    schedule_time,
    runnable,           \* schedule_runnable
    stopped,            \* schedule_stopped_flag
    single_step,        \* schedule_single_step_flag
    pc,                 \* where schedule_simulate is
    cur,                \* the event that executes, or None
    next_id,            \* number of the next event (history)
    ran,                \* the events that were executed (history)
    stops               \* interruptions so far

flags == <<runnable, stopped, single_step, stops>>
lists == <<init_list, final_list, next_sim_time>>
vars  == <<sched_list, lists, schedule_time, flags, pc, cur, next_id, ran>>

Queues == {"start", "active", "inactive", "nbassign", "rwsync", "rosync", "del_thr"}
Kinds  == {"thread", "update", "callback", "reap"}
None   == [id |-> 0, kind |-> "none", q |-> "none", due |-> 0]

\* Phases of schedule_simulate.  In "compile" the program is being loaded; "stop" is
\* stop_handler's prompt; in every other phase but "done" events are executed.
Phases == {"compile", "init", "loop", "start", "rosync", "del_thr", "stop", "final", "done"}

-----------------------------------------------------------------------------
(* The list of time cells *)

NewCell(delay) == [delay |-> delay, queue |-> [q \in Queues |-> <<>>]]

\* Time from the current time to the k-th cell.
Elapsed(list, k) ==
    LET sum[i \in 0..Len(list)] == IF i = 0 THEN 0 ELSE sum[i - 1] + list[i].delay
    IN sum[k]

AppendTo(list, k, q, e) == [list EXCEPT ![k].queue[q] = Append(@, e)]

\* Mutant: the following cell keeps its difference.
FindCell_NoAdjust(list, delay) ==
    IF list = <<>> THEN [list |-> <<NewCell(delay)>>, at |-> 1]
    ELSE LET k    == CHOOSE i \in DOMAIN list :
                        /\ i = Len(list) \/ Elapsed(list, i) >= delay
                        /\ \A j \in 1..(i - 1) : Elapsed(list, j) < delay
             rest == delay - Elapsed(list, k - 1)
         IN IF list[k].delay > rest
            THEN [list |-> InsertAt(list, k, NewCell(rest)), at |-> k]
            ELSE IF list[k].delay = rest THEN [list |-> list, at |-> k]
            ELSE [list |-> Append(list, NewCell(rest - list[k].delay)), at |-> k + 1]

\* The cell an event asked for `delay` from now belongs to: the list, with that cell
\* made if there is none, and its position.  The walk stops at the first cell that is
\* not before the wanted time, or at the last one.
FindCell(list, delay) ==
    IF list = <<>> THEN [list |-> <<NewCell(delay)>>, at |-> 1]
    ELSE LET k    == CHOOSE i \in DOMAIN list :
                        /\ i = Len(list) \/ Elapsed(list, i) >= delay
                        /\ \A j \in 1..(i - 1) : Elapsed(list, j) < delay
             rest == delay - Elapsed(list, k - 1)
         IN IF list[k].delay > rest
            THEN [list |-> InsertAt([list EXCEPT ![k].delay = @ - rest], k, NewCell(rest)),
                  at   |-> k]
            ELSE IF list[k].delay = rest THEN [list |-> list, at |-> k]
            ELSE [list |-> Append(list, NewCell(rest - list[k].delay)), at |-> k + 1]

schedule_event_(list, e, delay, q) ==
    LET found == FindCell(list, delay) IN AppendTo(found.list, found.at, q, e)

\* In front of everything active now: used for %fork and for waking a %join.
schedule_event_push_(list, e) ==
    IF list = <<>> \/ list[1].delay > 0
    THEN schedule_event_(list, e, 0, "active")
    ELSE [list EXCEPT ![1].queue["active"] = <<e>> \o @]

-----------------------------------------------------------------------------
(* The scheduling functions, called by the loader, by the executing event or   *)
(* by a command at the stop prompt.                                            *)

Running == pc \in {"compile", "stop"} \/ cur.kind \in {"thread", "update", "callback"}

Caller(f) == f \in Calls /\ next_id <= MaxEvents /\ Running

NewEvent(kind, q, delay) ==
    [id |-> next_id, kind |-> kind, q |-> q, due |-> schedule_time + delay]

\* A read-only callback may create read-only events, and events of later times (the
\* comment above run_rosync); nothing but this rule of VPI stops it.
Legal(delay) == pc = "rosync" => delay > 0

Enqueue(kind, q, delay) ==
    /\ sched_list' = schedule_event_(sched_list, NewEvent(kind, q, delay), delay, q)
    /\ next_id' = next_id + 1
    /\ UNCHANGED <<lists, schedule_time, flags, pc, cur, ran>>

\* Threads are pushed by threads (%fork, %end, %disable) and by the loader ($push).
schedule_vthread(delay, push_flag) ==
    /\ Caller("vthread") /\ Legal(delay)
    /\ push_flag => cur.kind = "thread" \/ pc = "compile"
    /\ IF push_flag /\ delay = 0
       THEN /\ sched_list' = schedule_event_push_(sched_list, NewEvent("thread", "active", 0))
            /\ next_id' = next_id + 1
            /\ UNCHANGED <<lists, schedule_time, flags, pc, cur, ran>>
       ELSE Enqueue("thread", "active", delay)

schedule_inactive == Caller("inactive") /\ Legal(0) /\ Enqueue("thread", "inactive", 0)

\* schedule_assign_vector, _force_vector, _propagate_vector, _propagate_event,
\* _assign_array_word: a non-blocking assignment and its like.
schedule_assign_vector(delay) ==
    Caller("assign") /\ Legal(delay) /\ Enqueue("update", "nbassign", delay)

\* schedule_functor and schedule_set_vector: the propagation of a value through a gate.
schedule_functor ==
    /\ Caller("functor") /\ Legal(0)
    /\ IF pc \in {"compile", "init"}        \* ~ sim_started
       THEN /\ init_list' = Append(init_list, NewEvent("update", "init", 0))
            /\ next_id' = next_id + 1
            /\ UNCHANGED <<sched_list, final_list, next_sim_time, schedule_time, flags, pc,
                           cur, ran>>
       ELSE Enqueue("update", "active", 0)

\* schedule_generic, and schedule_at_end_of_simtime, which uses the same queue.
schedule_generic(delay, sync_flag, ro_flag) ==
    /\ Caller("generic")
    /\ (sync_flag /\ ro_flag) \/ Legal(delay)
    /\ Enqueue("callback", IF ~ sync_flag THEN "active" ELSE IF ro_flag THEN "rosync"
                           ELSE "rwsync", delay)

\* make_at_start_of_sim_time turns its absolute time into a delay; 0 for the current time.
schedule_at_start_of_simtime(delay) ==
    /\ Caller("start") /\ (StartNow \/ delay > 0)
    /\ Enqueue("callback", "start", delay)

\* A thread that reaps another, or itself, and has to delay the deletion.
schedule_del_thr == Caller("del_thr") /\ cur.kind = "thread" /\ Enqueue("reap", "del_thr", 0)

\* schedule_init_vthread, _init_vector, _init_propagate: while the program is loaded.
schedule_init_event(kind) ==
    /\ Caller("init") /\ pc = "compile"
    /\ init_list' = Append(init_list, NewEvent(kind, "init", 0))
    /\ next_id' = next_id + 1
    /\ UNCHANGED <<sched_list, final_list, next_sim_time, schedule_time, flags, pc, cur, ran>>

schedule_final_vthread ==
    /\ Caller("final") /\ pc = "compile"
    /\ final_list' = Append(final_list, NewEvent("thread", "final", 0))
    /\ next_id' = next_id + 1
    /\ UNCHANGED <<sched_list, init_list, next_sim_time, schedule_time, flags, pc, cur, ran>>

\* make_prepost with cbNextSimTime: the newest is the first.
register_next_sim_time ==
    /\ Caller("next")
    /\ next_sim_time' = <<NewEvent("callback", "next", 0)>> \o next_sim_time
    /\ next_id' = next_id + 1
    /\ UNCHANGED <<sched_list, init_list, final_list, schedule_time, flags, pc, cur, ran>>

\* $finish in a thread or callback, at the stop prompt, or an error at load time.
schedule_finish ==
    /\ "finish" \in Calls /\ runnable
    /\ Running
    /\ runnable' = FALSE
    /\ UNCHANGED <<sched_list, lists, schedule_time, stopped, single_step, stops, pc, cur,
                   next_id, ran>>

\* vvp -s, $stop, or SIGINT: the signal may arrive at any moment of the run.
schedule_stop ==
    /\ "stop" \in Calls /\ stops < MaxStops /\ pc \notin {"final", "done"}
    /\ stopped' = TRUE /\ stops' = stops + 1
    /\ UNCHANGED <<sched_list, lists, schedule_time, runnable, single_step, pc, cur, next_id,
                   ran>>

schedule_single_step ==
    /\ pc = "stop" /\ ~ single_step
    /\ single_step' = TRUE
    /\ UNCHANGED <<sched_list, lists, schedule_time, runnable, stopped, stops, pc, cur,
                   next_id, ran>>

Call ==
    \/ \E d \in Delays, p \in BOOLEAN : schedule_vthread(d, p)
    \/ \E d \in Delays : schedule_assign_vector(d) \/ schedule_at_start_of_simtime(d)
    \/ \E d \in Delays, s, r \in BOOLEAN : schedule_generic(d, s, r)
    \/ schedule_inactive \/ schedule_functor \/ schedule_del_thr
    \/ \E k \in {"thread", "update"} : schedule_init_event(k)
    \/ schedule_final_vthread \/ register_next_sim_time \/ schedule_finish

-----------------------------------------------------------------------------
(* schedule_simulate *)

Idle == cur = None
Now  == sched_list[1]

\* cur->run_run() begins; the caller has taken the event off its queue.
Execute(e) == cur' = e /\ ran' = ran \union {e}

\* run_run returns.
Return ==
    /\ cur # None /\ cur' = None
    /\ UNCHANGED <<sched_list, lists, schedule_time, flags, pc, next_id, ran>>

Loaded ==
    /\ pc = "compile" /\ pc' = "init"
    /\ UNCHANGED <<sched_list, lists, schedule_time, flags, cur, next_id, ran>>

Initialise ==
    /\ pc = "init" /\ Idle
    /\ \/ /\ init_list # <<>>
          /\ Execute(Head(init_list)) /\ init_list' = Tail(init_list)
          /\ UNCHANGED pc
       \/ /\ init_list = <<>>
          /\ pc' = IF sched_list # <<>> /\ runnable THEN "loop" ELSE "final"
          /\ UNCHANGED <<init_list, cur, ran>>
    /\ UNCHANGED <<sched_list, final_list, next_sim_time, schedule_time, flags, next_id>>

\* The top of the loop.
Loop == pc = "loop" /\ Idle

\* Out of events, or finished with nothing left at this time; then the final blocks run
\* even though $finish cleared schedule_runnable (run_finals is true: the loop was entered).
EndLoop ==
    /\ Loop
    /\ sched_list # <<>> => (~ stopped /\ Now.delay > 0 /\ ~ runnable)
    /\ pc' = "final" /\ runnable' = TRUE
    /\ UNCHANGED <<sched_list, lists, schedule_time, stopped, single_step, stops, cur,
                   next_id, ran>>

EnterStop ==
    /\ Loop /\ sched_list # <<>> /\ stopped
    /\ stopped' = FALSE /\ pc' = "stop"
    /\ UNCHANGED <<sched_list, lists, schedule_time, runnable, single_step, stops, cur,
                   next_id, ran>>

\* stop_handler returns; finishing from the prompt needs no time change.
LeaveStop ==
    /\ pc = "stop"
    /\ pc' = IF runnable THEN "loop" ELSE "final"
    /\ runnable' = TRUE
    /\ UNCHANGED <<sched_list, lists, schedule_time, stopped, single_step, stops, cur,
                   next_id, ran>>

\* vpiNextSimTime empties its list and runs what was in it, before the start callbacks; what
\* those callbacks register waits for the next advance.
NextSimTimeFirst(start) == next_sim_time \o start

\* Mutant: the start callbacks are queued behind what is already active.
Advance_StartLast ==
    /\ Loop /\ sched_list # <<>> /\ ~ stopped /\ runnable /\ Now.delay > 0
    /\ schedule_time' = schedule_time + Now.delay
    /\ sched_list' = [sched_list EXCEPT ![1].delay = 0, ![1].queue["start"] = <<>>,
                         ![1].queue["active"] = @ \o next_sim_time \o Now.queue["start"]]
    /\ next_sim_time' = <<>>
    /\ pc' = "start"
    /\ UNCHANGED <<init_list, final_list, flags, cur, next_id, ran>>

\* Time advances to the first cell.
Advance ==
    /\ Loop /\ sched_list # <<>> /\ ~ stopped /\ runnable /\ Now.delay > 0
    /\ schedule_time' = schedule_time + Now.delay
    /\ sched_list' = [sched_list EXCEPT ![1].delay = 0,
                         ![1].queue["start"] = NextSimTimeFirst(@)]
    /\ next_sim_time' = <<>>
    /\ pc' = "start"
    /\ UNCHANGED <<init_list, final_list, flags, cur, next_id, ran>>

\* Take the first event of queue q of the current cell and execute it.
RunFrom(list, q) ==
    /\ Execute(Head(list[1].queue[q]))
    /\ sched_list' = [list EXCEPT ![1].queue[q] = Tail(@)]
    /\ UNCHANGED <<lists, schedule_time, next_id>>

StartCallbacks ==
    /\ pc = "start" /\ Idle
    /\ \/ Now.queue["start"] # <<>> /\ RunFrom(sched_list, "start") /\ UNCHANGED <<pc, flags>>
       \/ /\ Now.queue["start"] = <<>> /\ pc' = "loop"
          /\ UNCHANGED <<sched_list, lists, schedule_time, flags, cur, next_id, ran>>

\* Mutants: two regions are promoted together; the read-write callbacks are forgotten.
Promoted_Merged(list) ==
    LET due == list[1].queue
    IN IF due["active"] # <<>> THEN list
       ELSE [list EXCEPT ![1].queue["active"] = due["inactive"] \o due["nbassign"] \o due["rwsync"],
                         ![1].queue["inactive"] = <<>>, ![1].queue["nbassign"] = <<>>,
                         ![1].queue["rwsync"] = <<>>]
Promoted_NoRwsync(list) ==
    LET due    == list[1].queue
        region == IF due["active"] # <<>> THEN "active"
                  ELSE IF due["inactive"] # <<>> THEN "inactive" ELSE "nbassign"
    IN [list EXCEPT ![1].queue = [due EXCEPT ![region] = <<>>, !["active"] = due[region]]]

\* When nothing is active, the first non-empty region becomes the active one, whole.
Promoted(list) ==
    LET due    == list[1].queue
        region == IF due["active"] # <<>> THEN "active"
                  ELSE IF due["inactive"] # <<>> THEN "inactive"
                  ELSE IF due["nbassign"] # <<>> THEN "nbassign" ELSE "rwsync"
    IN [list EXCEPT ![1].queue = [due EXCEPT ![region] = <<>>, !["active"] = due[region]]]

RunActive ==
    /\ Loop /\ sched_list # <<>> /\ ~ stopped /\ Now.delay = 0
    /\ Promoted(sched_list)[1].queue["active"] # <<>>
    /\ RunFrom(Promoted(sched_list), "active")
    /\ stopped' = single_step /\ single_step' = FALSE
    /\ UNCHANGED <<pc, runnable, stops>>

BeginRosync ==
    /\ Loop /\ sched_list # <<>> /\ ~ stopped /\ Now.delay = 0
    /\ Promoted(sched_list)[1].queue["active"] = <<>>
    /\ pc' = "rosync"
    /\ UNCHANGED <<sched_list, lists, schedule_time, flags, cur, next_id, ran>>

\* run_rosync: first the read-only callbacks, those they create included, then the
\* threads that ended; then the cell is deleted with whatever it still holds.
Rosync ==
    /\ pc = "rosync" /\ Idle
    /\ \/ Now.queue["rosync"] # <<>> /\ RunFrom(sched_list, "rosync") /\ UNCHANGED <<pc, flags>>
       \/ /\ Now.queue["rosync"] = <<>> /\ pc' = "del_thr"
          /\ UNCHANGED <<sched_list, lists, schedule_time, flags, cur, next_id, ran>>

DelThr ==
    /\ pc = "del_thr" /\ Idle
    /\ \/ Now.queue["del_thr"] # <<>> /\ RunFrom(sched_list, "del_thr") /\ UNCHANGED <<pc, flags>>
       \/ /\ Now.queue["del_thr"] = <<>>
          /\ sched_list' = Tail(sched_list) /\ pc' = "loop"
          /\ UNCHANGED <<lists, schedule_time, flags, cur, next_id, ran>>

Finals ==
    /\ pc = "final" /\ Idle
    /\ \/ /\ final_list # <<>> /\ runnable
          /\ Execute(Head(final_list)) /\ final_list' = Tail(final_list)
          /\ UNCHANGED pc
       \/ /\ final_list = <<>> \/ ~ runnable
          /\ pc' = "done"
          /\ UNCHANGED <<final_list, cur, ran>>
    /\ UNCHANGED <<sched_list, init_list, next_sim_time, schedule_time, flags, next_id>>

Simulate ==
    \/ Loaded \/ Initialise \/ EndLoop \/ EnterStop \/ LeaveStop \/ Advance
    \/ StartCallbacks \/ RunActive \/ BeginRosync \/ Rosync \/ DelThr \/ Finals \/ Return

Next == Call \/ schedule_stop \/ schedule_single_step \/ Simulate

Init ==
    /\ sched_list = <<>> /\ init_list = <<>> /\ final_list = <<>> /\ next_sim_time = <<>>
    /\ schedule_time = 0 /\ runnable = TRUE /\ stopped = FALSE /\ single_step = FALSE
    /\ pc = "compile" /\ cur = None /\ next_id = 1 /\ ran = {} /\ stops = 0

\* One C++ thread runs the loop: while it has something to do it does it.
Spec == Init /\ [][Next]_vars /\ WF_vars(Simulate)

-----------------------------------------------------------------------------
(* Properties *)

Event == [id : 1..MaxEvents, kind : Kinds,
          q : Queues \union {"init", "final", "next"}, due : Nat]

\* Type correctness of the scheduler's state.
TypeOK ==
    /\ sched_list \in Seq([delay : Nat, queue : [Queues -> Seq(Event)]])
    /\ init_list \in Seq(Event) /\ final_list \in Seq(Event) /\ next_sim_time \in Seq(Event)
    /\ schedule_time \in Nat /\ runnable \in BOOLEAN /\ stopped \in BOOLEAN
    /\ single_step \in BOOLEAN /\ pc \in Phases /\ cur \in Event \union {None}
    /\ next_id \in 1..(MaxEvents + 1) /\ ran \subseteq Event /\ stops \in 0..MaxStops

EventsOf(cell) == UNION {ToSet(cell.queue[q]) : q \in Queues}

\* Events that wait in the list of time cells.
Pending == {e \in UNION {EventsOf(sched_list[k]) : k \in DOMAIN sched_list} : e.q # "next"}

\* The list of differences is an agenda of absolute times: events run exactly at the time
\* they were scheduled for, time stops at every pending event, and none disappears.
Agenda == INSTANCE Agenda WITH pending <- Pending, now <- schedule_time,
                               abandoned <- pc \in {"final", "done"}
RefinesAgenda == Agenda!Spec

\* No thread, gate or callback executes while updates of the current batch of non-blocking
\* assignments are still to be made (schedule_simulate promotes nbassign whole and what an
\* update wakes is appended behind it): a clock edge's register updates appear at once.
UpdatesBeforeReaders ==
    (pc = "loop" /\ cur # None /\ cur.q # "nbassign") =>
        \A e \in ToSet(Now.queue["active"]) : e.q # "nbassign"

\* A read-only callback (run_rosync) sees the end of its time step: no read-write event of
\* that time is pending, and none is executed afterwards.
ReadOnlySeesTheEnd ==
    cur.q = "rosync" => \A e \in Pending : e.due = schedule_time => e.q \in {"rosync", "del_thr"}

\* A start-of-time callback executes before every other event of its time.
StartIsFirst ==
    cur.q = "start" => \A e \in ran : e.due = schedule_time => e.q \in {"start", "next", "init"}

\* schedule_simulate, run_rosync: a start-of-time callback precedes the other events of
\* its time, and a read-only callback sees the end of it.
RegionsInOrder == TypeOK /\ StartIsFirst /\ ReadOnlySeesTheEnd

\* schedule_simulate: every event is executed in the end, unless $finish comes first.
EveryEventRuns ==
    \A i \in 1..MaxEvents :
        (pc \notin {"final", "done"} /\ \E e \in Pending : e.id = i)
            ~> ((\E e \in ran : e.id = i) \/ ~ runnable)

\* A registered callback is triggered when its time comes: a time cell is deleted empty.
CellIsEmpty == Len(sched_list') < Len(sched_list) => EventsOf(Now) = {}
NothingDropped == [][CellIsEmpty]_vars
=============================================================================
