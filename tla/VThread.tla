------------------------------ MODULE VThread ------------------------------
(***************************************************************************)
(* The threads of vvp (iverilog-13_0/vvp/vthread.cc): how %fork, %join,    *)
(* %join/detach, %wait, %wait/fork, %disable, function calls and %end      *)
(* create, suspend, wake, terminate and free them.                         *)
(*                                                                         *)
(* A thread is a heap object that other threads (parent, children), the    *)
(* scheduler's queue, an event's list of waiters and the frames of         *)
(* vthread_run point to.  `thr' is the heap; an event of the active queue  *)
(* is a chain of threads linked by wait_next.  Between two opcodes of the  *)
(* running thread nothing else executes; which statement comes next is     *)
(* free, and a statement is the opcode sequence that the code generator    *)
(* (tgt-vvp/vvp_process.c) draws for it.                                   *)
(***************************************************************************)
EXTENDS Integers, Sequences, SequencesExt, FiniteSets

CONSTANTS
    NThreads,           \* bound: threads that exist at a time
    NRoots,             \* initial and always processes
    Scopes,             \* the named blocks and tasks of the design
    MaxStatements,      \* bound: statements executed in a behaviour
    Statements,         \* the kinds of statements the design uses
    DisableDetached,    \* may %disable name the scope of a detached thread?
    NestedReturn        \* may a function return from inside a named block?

VThreadAssumption ==
    /\ NThreads \in Nat \ {0} /\ NRoots \in 1..NThreads
    /\ MaxStatements \in Nat /\ DisableDetached \in BOOLEAN /\ NestedReturn \in BOOLEAN

VARIABLES
    thr,            \* the threads
    active,         \* the scheduler's active queue: chains of threads
    del_thr,        \* threads on the scheduler's del_thr queue
    later,          \* threads scheduled behind a delay
    waiters,        \* the list of threads waiting for the event
    stack,          \* the frames of vthread_run, innermost last
    left            \* statements that may still be executed

vars == <<thr, active, del_thr, later, waiters, stack, left>>

Threads == 1..NThreads
None    == 0
Module  == "module"         \* scope of the processes
Func    == "function"       \* scope of a function

\* What a deleted object is in this model: nothing may point to it.
Freed == [live |-> FALSE, parent |-> None, children |-> {}, detached_children |-> {},
          parent_scope |-> Module, in_scope |-> FALSE, i_am_joining |-> FALSE,
          i_am_detached |-> FALSE, i_am_waiting |-> FALSE, i_am_in_function |-> FALSE,
          i_have_ended |-> TRUE, waiting_for_event |-> FALSE, is_scheduled |-> FALSE,
          delay_delete |-> FALSE, flow |-> {}, code |-> <<>>]

\* A new thread: in_scope says it is in scope->threads; flow holds the task or
\* function that a return in its code leaves; code is what remains to be executed
\* of the statement it is in.
vthread_new(scope, flow) ==
    [Freed EXCEPT !.live = TRUE, !.parent_scope = scope, !.in_scope = TRUE,
                  !.i_have_ended = FALSE, !.flow = flow]

\* The part of the state that the functions below take and return.
Heap == [thr |-> thr, active |-> active, del_thr |-> del_thr]
Becomes(h) ==
    \E g \in {h} : thr' = g.thr /\ active' = g.active /\ del_thr' = g.del_thr

-----------------------------------------------------------------------------
(* The functions that opcodes share *)

SchedulePush(h, t) ==
    [h EXCEPT !.active = <<<<t>>>> \o @, !.thr[t].is_scheduled = TRUE]
schedule_vthread(h, t) ==
    [h EXCEPT !.active = Append(@, <<t>>), !.thr[t].is_scheduled = TRUE]

Delete(h, t) ==
    IF h.thr[t].delay_delete THEN [h EXCEPT !.del_thr = @ \cup {t}]
                             ELSE [h EXCEPT !.thr[t] = Freed]

\* The links that vthread_reap(t) changes: its children go to its parent, its detached
\* children to nobody, and its parent forgets it.
Unlink(th, t) ==
    LET p == th[t].parent
    IN [u \in Threads |->
          IF u = t THEN [th[t] EXCEPT !.parent = None, !.in_scope = FALSE, !.code = <<>>]
          ELSE IF u \in th[t].children THEN [th[u] EXCEPT !.parent = p]
          ELSE IF u \in th[t].detached_children
               THEN [th[u] EXCEPT !.parent = None, !.i_am_detached = FALSE]
          ELSE IF u = p /\ th[t].i_am_detached
               THEN [th[u] EXCEPT !.detached_children = @ \ {t}]
          ELSE IF u = p THEN [th[u] EXCEPT !.children = @ \ {t}]
          ELSE th[u]]

\* Mutant: a thread that is scheduled is deleted.
vthread_reap_Scheduled(h, t) ==
    LET g == [h EXCEPT !.thr = Unlink(h.thr, t)]
    IN IF g.thr[t].waiting_for_event THEN g ELSE Delete(g, t)
vthread_reap(h, t) ==
    LET g == [h EXCEPT !.thr = Unlink(h.thr, t)]
    IN IF g.thr[t].is_scheduled \/ g.thr[t].waiting_for_event THEN g ELSE Delete(g, t)

do_join(h, child) == vthread_reap(h, child)

\* t and the threads below it in the tree of children.
Family(th, t) ==
    LET below[n \in 0..NThreads] ==
            IF n = 0 THEN {t}
            ELSE below[n - 1] \cup UNION {th[u].children : u \in below[n - 1]}
    IN below[NThreads]

\* The loop of do_disable over the children: the whole family is turned off, and all of
\* it but t is reaped, children first.  A parent in it stops joining, so that no step of
\* the recursion schedules anything.
TurnOff(h, t) ==
    LET family == Family(h.thr, t)
        off    == [u \in Threads |->
                     IF u \in family
                     THEN [h.thr[u] EXCEPT !.in_scope = FALSE, !.i_have_ended = TRUE,
                               !.code = <<>>, !.children = {},
                               !.i_am_joining = @ /\ h.thr[u].children = {}]
                     ELSE h.thr[u]]
    IN FoldSet(LAMBDA u, g : vthread_reap(g, u), [h EXCEPT !.thr = off], family \ {t})

\* Mutant: the children of t are left alone.
do_disable_OnlyMyself(h, t) ==
    LET g == [h EXCEPT !.thr[t].in_scope = FALSE, !.thr[t].i_have_ended = TRUE,
                       !.thr[t].code = <<>>]
        p == g.thr[t].parent
    IN IF p = None THEN vthread_reap(g, t)
       ELSE IF ~g.thr[p].i_am_joining THEN g
       ELSE LET f == [g EXCEPT !.thr[p].i_am_joining = FALSE]
            IN do_join(IF f.thr[p].i_have_ended THEN f ELSE SchedulePush(f, p), t)
do_disable(h, t) ==
    LET g == TurnOff(h, t)
        p == g.thr[t].parent
    IN IF p = None THEN vthread_reap(g, t)
       ELSE IF ~g.thr[p].i_am_joining THEN g
       ELSE LET f == [g EXCEPT !.thr[p].i_am_joining = FALSE]
            IN do_join(IF f.thr[p].i_have_ended THEN f ELSE SchedulePush(f, p), t)

-----------------------------------------------------------------------------
(* vthread_run *)

\* A frame: its thread, the chain that follows, and the child whose vthread_run an
\* opcode of the thread is in ("fork" in a function, or a function call).
Frame(t, rest) == [t |-> t, rest |-> rest, call |-> "none", callee |-> None]
Top     == Last(stack)
Running == IF stack = <<>> THEN None ELSE Top.t

\* The thread's next opcode can be fetched: no nested vthread_run is being left.
Fetches(t) == stack # <<>> /\ Top.t = t /\ Top.call = "none"

\* An opcode that returns true; the heap becomes h.
Continue(h) == Becomes(h) /\ UNCHANGED stack

\* An opcode that returns false: the next thread of the chain is run, or the frame is left.
Pause(h) ==
    IF Top.rest = <<>>
    THEN Becomes(h) /\ stack' = Front(stack)
    ELSE /\ Becomes([h EXCEPT !.thr[Head(Top.rest)].is_scheduled = FALSE])
         /\ stack' = Append(Front(stack), Frame(Head(Top.rest), Tail(Top.rest)))

\* The event at the head of the active queue is executed.
vthread_run ==
    /\ stack = <<>> /\ active # <<>>
    /\ LET chain == Head(active)
       IN /\ Becomes([Heap EXCEPT !.active = Tail(@),
                                  !.thr[Head(chain)].is_scheduled = FALSE])
          /\ stack' = <<Frame(Head(chain), Tail(chain))>>
    /\ UNCHANGED <<later, waiters, left>>

\* A child is run at once, in a frame of its own, by the opcode `call' of t.
RunNested(h, t, child, call) ==
    /\ Becomes(h)
    /\ stack' = Append(Front(stack) \o <<[Top EXCEPT !.call = call, !.callee = child]>>,
                       Frame(child, <<>>))

\* vthread_run(child) has returned to of_FORK, or to do_callf_void or do_exec_ufunc.
Return ==
    /\ stack # <<>> /\ Top.call # "none"
    /\ LET t     == Top.t
           child == Top.callee
           back  == Append(Front(stack), [Top EXCEPT !.call = "none", !.callee = None])
       IN \/ Top.call = "fork" /\ Becomes(Heap) /\ stack' = back
          \/ /\ Top.call = "callf" /\ thr[child].i_have_ended
             /\ Becomes(do_join(Heap, child)) /\ stack' = back
          \/ /\ Top.call = "callf" /\ ~thr[child].i_have_ended
             /\ Pause([Heap EXCEPT !.thr[t].i_am_joining = TRUE])
    /\ UNCHANGED <<later, waiters, left>>

-----------------------------------------------------------------------------
(* Statements that create threads, as the code generator draws them *)

Op(op, kind, scope) == [op |-> op, kind |-> kind, scope |-> scope]
Times(n, op) == [i \in 1..n |-> op]

\* A named block or a task: its body is a thread that the %join waits for.
Block(s)       == <<Op("fork", "block", s), Op("join", "block", s)>>
Task(s)        == <<Op("fork", "task", s), Op("join", "task", s)>>
Fork(n, s)     == Times(n, Op("fork", "fork", s)) \o Times(n, Op("join", "fork", s))
ForkAny(n, s)  == Times(n, Op("fork", "fork", s))
                    \o <<Op("join", "fork", s), Op("detach", "fork", s)>>
ForkNone(n, s) == Times(n, Op("fork", "fork", s)) \o <<Op("detach", "fork", s)>>

FreeThreads == {t \in Threads : ~thr[t].live}
May(t, kind) ==
    /\ Fetches(t) /\ ~thr[t].i_have_ended /\ thr[t].code = <<>>
    /\ kind \in Statements /\ left > 0
Spend == left' = left - 1

\* The threads of an unnamed fork are in the scope of t.
Codes(t, kind, s) ==
    CASE kind = "block"     -> {Block(s)}
      [] kind = "task"      -> {Task(s)}
      [] kind = "fork"      -> {Fork(2, s), Fork(2, thr[t].parent_scope)}
      [] kind = "fork_any"  -> {ForkAny(2, s)}
      [] kind = "fork_none" -> {ForkNone(1, s)}

\* t enters a statement that forks: in a function, only a named block.
Enter(t) ==
    \E kind \in {"block", "task", "fork", "fork_any", "fork_none"} :
        /\ May(t, kind) /\ (thr[t].i_am_in_function => kind = "block")
        /\ \E s \in Scopes : \E code \in Codes(t, kind, s) :
              /\ Cardinality({i \in DOMAIN code : code[i].op = "fork"})
                    <= Cardinality(FreeThreads)
              /\ Continue([Heap EXCEPT !.thr[t].code = code])
        /\ Spend /\ UNCHANGED <<later, waiters>>

\* The opcode of the statement t is in.
Next_Op(t, op) ==
    /\ Fetches(t) /\ ~thr[t].i_have_ended
    /\ thr[t].code # <<>> /\ Head(thr[t].code).op = op

\* The heap with the opcode behind it, and with a child for it to run.
Past(t) == [Heap EXCEPT !.thr[t].code = Tail(@)]
WithChild(h, t, c, new) ==
    [h EXCEPT !.thr[c] = [new EXCEPT !.parent = t], !.thr[t].children = @ \cup {c}]

of_FORK(t) ==
    /\ Next_Op(t, "fork") /\ FreeThreads # {}
    /\ LET op    == Head(thr[t].code)
           child == CHOOSE c \in FreeThreads : \A u \in FreeThreads : c <= u
           flow  == CASE op.kind = "block" -> thr[t].flow
                      [] op.kind = "task"  -> {op.scope}
                      [] op.kind = "fork"  -> {}
           new   == vthread_new(op.scope, flow)
           h     == WithChild(Past(t), t, child, new)
       IN \/ /\ thr[t].i_am_in_function
             /\ RunNested([h EXCEPT !.thr[child].i_am_in_function = TRUE], t, child, "fork")
          \/ /\ ~thr[t].i_am_in_function
             /\ Continue(SchedulePush(h, child))
    /\ UNCHANGED <<later, waiters, left>>

Ended(t) == {c \in thr[t].children : thr[c].i_have_ended}

\* Mutant: an ended child is not looked for.
of_JOIN_NoLook(t) ==
    /\ Next_Op(t, "join")
    /\ Pause([Past(t) EXCEPT !.thr[t].i_am_joining = TRUE])
    /\ UNCHANGED <<later, waiters, left>>
of_JOIN(t) ==
    /\ Next_Op(t, "join")
    /\ \/ \E c \in Ended(t) : Continue(do_join(Past(t), c))
       \/ Ended(t) = {} /\ Pause([Past(t) EXCEPT !.thr[t].i_am_joining = TRUE])
    /\ UNCHANGED <<later, waiters, left>>

of_JOIN_DETACH(t) ==
    /\ Next_Op(t, "detach")
    /\ LET running == thr[t].children \ Ended(t)
           h       == FoldSet(LAMBDA c, g : vthread_reap(g, c), Past(t), Ended(t))
           off     == [u \in Threads |->
                         IF u \in running THEN [h.thr[u] EXCEPT !.i_am_detached = TRUE]
                         ELSE IF u = t
                         THEN [h.thr[t] EXCEPT !.children = @ \ running,
                                               !.detached_children = @ \cup running]
                         ELSE h.thr[u]]
       IN Continue([h EXCEPT !.thr = off])
    /\ UNCHANGED <<later, waiters, left>>

-----------------------------------------------------------------------------
(* The other statements *)

\* A function call of a thread (delay FALSE), or of a .ufunc device (delay TRUE).
Callf(t, kind, delay) ==
    /\ May(t, kind) /\ FreeThreads # {} /\ Spend
    /\ LET child == CHOOSE c \in FreeThreads : \A u \in FreeThreads : c <= u
           new   == [vthread_new(Func, {Func}) EXCEPT !.i_am_in_function = TRUE,
                                                      !.delay_delete = delay]
       IN RunNested(WithChild(Heap, t, child, new), t, child, "callf")
    /\ UNCHANGED <<later, waiters>>
do_callf_void(t) == Callf(t, "callf", FALSE)
do_exec_ufunc(t) == Callf(t, "ufunc", TRUE)

\* %end fully detaches the detached children of t.
DetachAll(h, t) ==
    [h EXCEPT !.thr = [u \in Threads |->
        IF u = t THEN [@[t] EXCEPT !.i_have_ended = TRUE, !.detached_children = {}]
        ELSE IF u \in @[t].detached_children
        THEN [@[u] EXCEPT !.parent = None, !.i_am_detached = FALSE]
        ELSE @[u]]]

\* A detached t leaves its parent p; the last one to leave wakes a p in %wait/fork.
\* Mutant: p is not woken.
Leave_NoWake(h, t, p) ==
    [h EXCEPT !.thr[t].parent = None, !.thr[t].i_am_detached = FALSE,
              !.thr[p].detached_children = @ \ {t}]
Leave(h, t, p) ==
    LET g == [h EXCEPT !.thr[t].parent = None, !.thr[t].i_am_detached = FALSE,
                       !.thr[p].detached_children = @ \ {t}]
    IN IF g.thr[p].i_am_waiting /\ g.thr[p].detached_children = {}
       THEN SchedulePush([g EXCEPT !.thr[p].i_am_waiting = FALSE], p)
       ELSE g

\* What becomes of t once it has ended: joined by a waiting parent, reaped, or a zombie.
\* Mutant: the order of the first two tests is swapped.
Finish_Swapped(h, t) ==
    LET p == h.thr[t].parent
    IN IF p = None THEN vthread_reap(h, t)
       ELSE IF h.thr[p].i_am_joining
       THEN do_join(SchedulePush([h EXCEPT !.thr[p].i_am_joining = FALSE], p), t)
       ELSE IF h.thr[t].i_am_detached THEN vthread_reap(Leave(h, t, p), t)
       ELSE h
Finish(h, t) ==
    LET p == h.thr[t].parent
    IN IF p = None THEN vthread_reap(h, t)
       ELSE IF h.thr[t].i_am_detached THEN vthread_reap(Leave(h, t, p), t)
       ELSE IF h.thr[p].i_am_joining
       THEN do_join(SchedulePush([h EXCEPT !.thr[p].i_am_joining = FALSE], p), t)
       ELSE h

of_END(t) ==
    /\ Fetches(t) /\ ~thr[t].i_have_ended /\ thr[t].code = <<>>
    /\ Pause(Finish(DetachAll(Heap, t), t))
    /\ UNCHANGED <<later, waiters, left>>

\* The opcode at codespace_null, which a terminated thread executes when it is scheduled.
of_ZOMBIE(t) ==
    /\ Fetches(t) /\ thr[t].i_have_ended
    /\ Pause(IF thr[t].parent = None /\ thr[t].children = {}
             THEN Delete(Heap, t) ELSE Heap)
    /\ UNCHANGED <<later, waiters, left>>

of_DELAY(t) ==
    /\ May(t, "delay") /\ ~thr[t].i_am_in_function /\ Spend
    /\ Pause([Heap EXCEPT !.thr[t].is_scheduled = TRUE])
    /\ later' = later \cup {t} /\ UNCHANGED waiters

of_WAIT(t) ==
    /\ May(t, "wait") /\ ~thr[t].i_am_in_function /\ Spend
    /\ Pause([Heap EXCEPT !.thr[t].waiting_for_event = TRUE])
    /\ waiters' = <<t>> \o waiters /\ UNCHANGED later

\* The event is triggered: the list of waiters becomes one event of the queue.
Woken(h) ==
    [h EXCEPT !.active = Append(@, waiters),
              !.thr = [u \in Threads |->
                  IF u \in ToSet(waiters)
                  THEN [@[u] EXCEPT !.waiting_for_event = FALSE, !.is_scheduled = TRUE]
                  ELSE @[u]]]
run_waiting_threads(t) ==
    /\ May(t, "trigger") /\ Spend
    /\ Continue(IF waiters = <<>> THEN Heap ELSE Woken(Heap))
    /\ waiters' = <<>> /\ UNCHANGED later

of_WAIT_FORK(t) ==
    /\ May(t, "wait_fork") /\ ~thr[t].i_am_in_function /\ Spend
    /\ IF thr[t].detached_children = {} THEN Continue(Heap)
       ELSE Pause([Heap EXCEPT !.thr[t].i_am_waiting = TRUE])
    /\ UNCHANGED <<later, waiters>>

\* $stop in a system task call: the thread goes on when the simulation does.
of_VPI_CALL(t) ==
    /\ May(t, "stop") /\ Spend
    /\ Pause(schedule_vthread(Heap, t)) /\ UNCHANGED <<later, waiters>>

\* A system task that schedules a read-only callback asks for t not to be deleted before.
vthread_delay_delete(t) ==
    /\ May(t, "strobe") /\ Spend
    /\ Continue([Heap EXCEPT !.thr[t].delay_delete = TRUE]) /\ UNCHANGED <<later, waiters>>

\* A disabled thread may be the running one: then its opcode returns false.
Disabled(h, t) ==
    \E g \in {h} : IF g.thr[t].i_have_ended THEN Pause(g) ELSE Continue(g)

InScope(s) == {u \in Threads : thr[u].in_scope /\ thr[u].parent_scope = s}

\* A function of the design does not disable what called it.
of_DISABLE(t) ==
    /\ May(t, "disable") /\ ~thr[t].i_am_in_function /\ Spend
    /\ \E s \in Scopes :
         /\ ~DisableDetached => \A u \in InScope(s) : ~thr[u].i_am_detached
         /\ \E order \in SetToSeqs(InScope(s)) :
              Disabled(FoldLeft(LAMBDA h, u : IF h.thr[u].in_scope THEN do_disable(h, u) ELSE h,
                                Heap, order), t)
    /\ UNCHANGED <<later, waiters>>

\* The thread itself, its parent, the parent of that, ...
Ancestors(t) ==
    LET up[n \in 0..NThreads] ==
            IF n = 0 THEN t
            ELSE IF up[n - 1] = None THEN None ELSE thr[up[n - 1]].parent
    IN up
of_DISABLE_FLOW(t) ==
    /\ May(t, "return") /\ Spend
    /\ ~NestedReturn /\ thr[t].i_am_in_function => thr[t].parent_scope = Func
    /\ \E s \in thr[t].flow :
         LET up  == Ancestors(t)
             cur == up[CHOOSE n \in 0..NThreads :
                         /\ thr[up[n]].parent_scope = s
                         /\ \A m \in 0..(n - 1) : thr[up[m]].parent_scope # s]
         IN Disabled(do_disable(Heap, cur), t)
    /\ UNCHANGED <<later, waiters>>

of_DISABLE_FORK(t) ==
    /\ May(t, "disable_fork") /\ Spend
    /\ Continue(FoldSet(LAMBDA c, h : vthread_reap(do_disable(h, c), c), Heap,
                        thr[t].detached_children))
    /\ UNCHANGED <<later, waiters>>

-----------------------------------------------------------------------------
(* The rest of the scheduler, and the specification *)

\* Nothing is left to do at this time: some of the delays end, in any order.
Elapse ==
    /\ stack = <<>> /\ active = <<>>
    /\ \E S \in SUBSET later : \E order \in SetToSeqs(S) :
         /\ S # {}
         /\ active' = [i \in DOMAIN order |-> <<order[i]>>]
         /\ later' = later \ S
    /\ UNCHANGED <<thr, del_thr, waiters, stack, left>>

\* The del_thr queue is executed at the end of a time step.
run_rosync ==
    /\ stack = <<>> /\ active = <<>> /\ del_thr # {}
    /\ thr' = [t \in Threads |-> IF t \in del_thr THEN Freed ELSE thr[t]]
    /\ del_thr' = {}
    /\ UNCHANGED <<active, later, waiters, stack, left>>

Init ==
    /\ thr = [t \in Threads |-> IF t <= NRoots THEN [vthread_new(Module, {}) EXCEPT
                                                     !.is_scheduled = TRUE]
                                ELSE Freed]
    /\ active = [t \in 1..NRoots |-> <<t>>]
    /\ del_thr = {} /\ later = {} /\ waiters = <<>> /\ stack = <<>>
    /\ left = MaxStatements

Step(t) ==
    /\ Fetches(t)
    /\ \/ Enter(t) \/ of_FORK(t) \/ of_JOIN(t) \/ of_JOIN_DETACH(t)
       \/ do_callf_void(t) \/ do_exec_ufunc(t) \/ of_END(t) \/ of_ZOMBIE(t)
       \/ of_DELAY(t) \/ of_WAIT(t) \/ run_waiting_threads(t) \/ of_WAIT_FORK(t)
       \/ of_VPI_CALL(t) \/ vthread_delay_delete(t)
       \/ of_DISABLE(t) \/ of_DISABLE_FLOW(t) \/ of_DISABLE_FORK(t)

Next ==
    \/ vthread_run \/ Return \/ Elapse \/ run_rosync
    \/ \E t \in Threads : Step(t)

Spec     == Init /\ [][Next]_vars
FairSpec == Spec /\ WF_vars(Next)

-----------------------------------------------------------------------------
(* Properties *)

\* Every variable has its type.
TypeOK ==
    /\ thr \in [Threads -> [live : BOOLEAN, parent : Threads \cup {None},
          children : SUBSET Threads, detached_children : SUBSET Threads,
          parent_scope : Scopes \cup {Module, Func}, in_scope : BOOLEAN,
          i_am_joining : BOOLEAN, i_am_detached : BOOLEAN, i_am_waiting : BOOLEAN,
          i_am_in_function : BOOLEAN, i_have_ended : BOOLEAN,
          waiting_for_event : BOOLEAN, is_scheduled : BOOLEAN, delay_delete : BOOLEAN,
          flow : SUBSET (Scopes \cup {Func}),
          code : Seq([op : {"fork", "join", "detach"},
                      kind : {"block", "task", "fork"}, scope : Scopes \cup {Module, Func}])]]
    /\ \A t \in Threads : thr[t] # Freed => thr[t].live
    /\ active \in Seq(Seq(Threads) \ {<<>>})
    /\ del_thr \subseteq Threads /\ later \subseteq Threads /\ waiters \in Seq(Threads)
    /\ stack \in Seq([t : Threads, rest : Seq(Threads), call : {"none", "fork", "callf"},
                      callee : Threads \cup {None}])
    /\ left \in 0..MaxStatements

Reaped(t) == thr[t].i_have_ended /\ thr[t].parent = None
Queued    == FlattenSeq(active) \o FlattenSeq([i \in DOMAIN stack |-> stack[i].rest])
Framed    == {stack[i].t : i \in DOMAIN stack}
               \cup {stack[i].callee : i \in {j \in DOMAIN stack : stack[j].call = "callf"}}

\* No pointer that the simulator may still follow leads to a deleted thread: not those of
\* the queue, of the waiters and of the frames of vthread_run, and not the links of the
\* tree (vthread_reap, vthread_delete; a reaped thread's own links are never followed).
NoDangling ==
    /\ \A t \in ToSet(Queued) \cup ToSet(waiters) \cup later \cup del_thr \cup Framed :
            thr[t].live
    /\ \A t \in Threads : thr[t].live /\ ~Reaped(t) =>
            /\ thr[t].parent # None => thr[thr[t].parent].live
            /\ \A c \in thr[t].children \cup thr[t].detached_children : thr[c].live

\* Parents and children agree: the asserts on child->parent and on the results of
\* erase() in vthread_reap, do_disable, of_END, of_DISABLE_FORK and of_JOIN_DETACH.
FamilyTree ==
    \A t, c \in Threads : thr[t].live /\ ~Reaped(t) /\ thr[c].live =>
        /\ c \in thr[t].children <=> thr[c].parent = t /\ ~thr[c].i_am_detached
        /\ c \in thr[t].detached_children <=> thr[c].parent = t /\ thr[c].i_am_detached

Count(s, t) == Cardinality({i \in DOMAIN s : s[i] = t})

\* A thread is on the queue exactly when is_scheduled says so, and at most once (the
\* asserts of vthread_mark_scheduled and vthread_run); it is never scheduled and waiting
\* for an event at the same time, and not while it runs: else wait_next, which links both
\* lists, would splice one into the other.
ScheduledOnce ==
    \A t \in Threads : thr[t].live =>
        LET queued  == Count(Queued, t) + (IF t \in later THEN 1 ELSE 0)
            waiting == Count(waiters, t)
        IN /\ queued  = IF thr[t].is_scheduled THEN 1 ELSE 0
           /\ waiting = IF thr[t].waiting_for_event THEN 1 ELSE 0
           /\ queued + waiting + (IF \E i \in DOMAIN stack : stack[i].t = t THEN 1 ELSE 0) <= 1

\* Whoever waits in %join has a child that has not ended and will wake it; whoever waits
\* in %wait/fork, a detached one.
SomeoneWillWake ==
    \A t \in Threads : thr[t].live /\ ~thr[t].i_have_ended =>
        /\ thr[t].i_am_joining => \E c \in thr[t].children : ~thr[c].i_have_ended
        /\ thr[t].i_am_waiting => \E c \in thr[t].detached_children : ~thr[c].i_have_ended

\* A thread that has left its last fork statement has no children: the asserts of of_END,
\* of_WAIT_FORK, of_DISABLE_FORK and do_callf_void, and what makes the thread after a
\* fork ... join run after all the branches.
JoinedAll ==
    \A t \in Threads :
        /\ thr[t].live /\ ~thr[t].i_have_ended /\ thr[t].code = <<>>
        /\ ~thr[t].i_am_joining
        /\ \A i \in DOMAIN stack : stack[i].t = t => stack[i].call = "none"
        => thr[t].children = {}

\* No deleted thread is forgotten: a thread that nobody can join any more is still on a
\* list, where of_ZOMBIE or run_rosync will delete it.
NoLeak ==
    \A t \in Threads : thr[t].live /\ Reaped(t) =>
        thr[t].is_scheduled \/ thr[t].waiting_for_event \/ t \in del_thr \/ t \in Framed

\* If no thread waits for an event for ever, every %join and %wait/fork returns and every
\* thread is deleted in the end.
EveryThreadIsDeleted == <>[](\A t \in Threads : ~thr[t].live)

=============================================================================
