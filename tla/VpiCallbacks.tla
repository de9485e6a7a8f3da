---------------------------- MODULE VpiCallbacks ----------------------------
(***************************************************************************)
(* The callbacks VPI code registers with vvp (vvp/vpi_callback.cc), as the *)
(* linked lists they are kept in:                                          *)
(*   value   cbValueChange, on the list of one signal, run at every change *)
(*           of its value and kept until it is removed;                    *)
(*   next    cbNextSimTime, run once when time advances;                   *)
(*   start   cbStartOfSimulation, run once before the simulation, like     *)
(*           cbEndOfCompile before it and cbEndOfSimulation after it.      *)
(*                                                                         *)
(* What makes the lists hard is that they are walked while user code runs: *)
(* a callback may register and remove callbacks, itself included, and may  *)
(* change the signal, which walks the signal's list again inside the walk. *)
(* vpi_remove_cb only clears the function pointer; the walk unlinks and    *)
(* frees.  A freed callback keeps its contents here: that is one outcome   *)
(* of reading it.                                                          *)
(***************************************************************************)
EXTENDS Naturals, Sequences, FiniteSets

CONSTANTS Callbacks,   \* callback objects that can be allocated
          Parts,       \* those on a part select of the signal
          MaxDepth,    \* walks of the signal's list inside one another
          MaxSteps,    \* changes of the signal and of the time
          nil

CallbackAssumption == Parts \subseteq Callbacks /\ nil \notin Callbacks

VARIABLES
    node,     \* each object: reason, cb_rtn (set or cleared), next
    heap,     \* "new", "live" or "freed" for each object
    head,     \* vpi_callbacks_, StartOfSimulation and NextSimTime
    stack,    \* the walks in progress, the innermost last
    steps     \* how often the signal or the time has changed

callbackVars == <<node, heap, head, stack, steps>>

Reasons == {"value", "next", "start"}

Top == stack[Len(stack)]
SetTop(frame) == [stack EXCEPT ![Len(stack)] = frame]

\* How many walks of the signal's list are in progress.
Depth == Cardinality({i \in DOMAIN stack : stack[i].list = "value"})

\* User code is running: outside every walk, or in a callback.
InUserCode == stack # <<>> => Top.executing

\* The objects on the list that starts at c: the least set with c in it that
\* the next pointers do not leave.
Follows(nodes, S) == \A e \in S : nodes[e].next # nil => nodes[e].next \in S

ListFrom(nodes, c) ==
    {d \in Callbacks : \A S \in SUBSET Callbacks :
                          (c # nil => c \in S) /\ Follows(nodes, S) => d \in S}

OnList(c) == ListFrom(node, c)

CallbacksInit ==
    /\ node = [c \in Callbacks |-> [reason |-> "value", cb_rtn |-> FALSE, next |-> nil]]
    /\ heap = [c \in Callbacks |-> "new"]
    /\ head = [r \in Reasons |-> nil]
    /\ stack = <<>>
    /\ steps = 0

\* vpi_register_cb: a value change goes to the signal's list, the others to
\* the list of their reason, each at its head.
vpi_register_cb(c, r) ==
    /\ InUserCode /\ heap[c] = "new"
    /\ r # "start" => steps > 0
    /\ heap' = [heap EXCEPT ![c] = "live"]
    /\ node' = [node EXCEPT ![c] = [reason |-> r, cb_rtn |-> TRUE, next |-> head[r]]]
    /\ head' = [head EXCEPT ![r] = c]
    /\ UNCHANGED <<stack, steps>>

\* vpi_remove_cb, of a handle that is still valid.
vpi_remove_cb(c) ==
    /\ InUserCode /\ heap[c] = "live" /\ node[c].cb_rtn
    /\ node' = [node EXCEPT ![c].cb_rtn = FALSE]
    /\ stack' = [i \in DOMAIN stack |-> [stack[i] EXCEPT !.due = @ \ {c}]]
    /\ UNCHANGED <<heap, head, steps>>

\* The walks start.  vpiNextSimTime takes its list away first; the others
\* walk the list where it is.  History, not in the code: due, the callbacks
\* the walk has to call (those that are removed before their turn are taken
\* out), old, all that were on its list, gone, the ones already removed, and
\* called, in order.
Walk(r) ==
    LET list == OnList(head[r])
    IN  /\ steps < MaxSteps /\ steps' = steps + 1
        /\ stack' = Append(stack,
              [list |-> r, executing |-> FALSE, cur |-> nil, next |-> head[r],
               prev |-> nil, called |-> <<>>,
               due |-> {c \in list : node[c].cb_rtn}, old |-> list,
               gone |-> {c \in list : ~node[c].cb_rtn}])
        /\ UNCHANGED <<node, heap>>

vpiStartOfSim ==
    /\ stack = <<>> /\ steps = 0
    /\ Walk("start")
    /\ UNCHANGED head

vpiNextSimTime ==
    /\ stack = <<>> /\ steps > 0
    /\ Walk("next")
    /\ head' = [head EXCEPT !["next"] = nil]

\* The signal changes: a thread assigns it, or a callback puts a value.
run_vpi_callbacks ==
    /\ InUserCode /\ steps > 0
    /\ Depth < MaxDepth
    /\ Walk("value")
    /\ UNCHANGED head

\* The walk starts again from the head of the list (mutant).
FollowingFromHead == head[Top.list]

\* Where a walk goes on after its current callback.
Following == IF Top.list = "start" THEN head["start"] ELSE Top.next

callback_execute(c) ==
    stack' = SetTop([Top EXCEPT !.executing = TRUE, !.cur = c,
                                !.next = node[c].next,
                                !.called = Append(@, c)])

Free(c) == heap' = [heap EXCEPT ![c] = "freed"]

\* The one-time lists: the callback leaves the list, is called if it has
\* not been removed, and is freed when it returns.
VisitOnce ==
    LET c == Following
    IN  /\ stack # <<>> /\ ~Top.executing /\ Top.list # "value" /\ c # nil
        /\ head' = IF Top.list = "start" THEN [head EXCEPT !["start"] = node[c].next]
                   ELSE head
        /\ IF node[c].cb_rtn THEN callback_execute(c) /\ UNCHANGED heap
           ELSE /\ stack' = SetTop([Top EXCEPT !.next = node[c].next])
                /\ Free(c)
        /\ UNCHANGED <<node, steps>>

\* Removed callbacks are freed and stay on the list (mutant).
UnlinkNothing(c) ==
    /\ stack' = SetTop([Top EXCEPT !.cur = c, !.next = node[c].next])
    /\ UNCHANGED <<node, head>>

\* The list goes round a removed callback.
Unlink(c) ==
    /\ stack' = SetTop([Top EXCEPT !.cur = c, !.next = node[c].next])
    /\ IF Top.prev = nil
       THEN /\ head' = [head EXCEPT !["value"] = node[c].next]
            /\ node' = [node EXCEPT ![c].next = nil]
       ELSE /\ node' = [node EXCEPT ![Top.prev].next = node[c].next, ![c].next = nil]
            /\ UNCHANGED head

\* test_value_callback_ready: the part did not change.
PassOver(c) ==
    /\ c \in Parts
    /\ stack' = SetTop([Top EXCEPT !.cur = c, !.prev = c, !.next = node[c].next])

\* The signal's list: call, pass over a part that did not change, or unlink.
VisitValue ==
    LET c == Following
    IN  /\ stack # <<>> /\ ~Top.executing /\ Top.list = "value" /\ c # nil
        /\ \/ /\ node[c].cb_rtn
              /\ callback_execute(c)
              /\ UNCHANGED <<node, heap, head>>
           \/ /\ node[c].cb_rtn
              /\ PassOver(c)
              /\ UNCHANGED <<node, heap, head>>
           \/ /\ ~node[c].cb_rtn
              /\ Unlink(c) /\ Free(c)
        /\ UNCHANGED steps

\* The callback that was called is not remembered (mutant).
ReturnForgets ==
    /\ stack # <<>> /\ Top.executing
    /\ stack' = SetTop([Top EXCEPT !.executing = FALSE])
    /\ IF Top.list = "value" THEN UNCHANGED heap ELSE Free(Top.cur)
    /\ UNCHANGED <<node, head, steps>>

\* The user's function returns.
CallbackReturns ==
    /\ stack # <<>> /\ Top.executing
    /\ stack' = SetTop([Top EXCEPT !.executing = FALSE, !.prev = Top.cur])
    /\ IF Top.list = "value" THEN UNCHANGED heap ELSE Free(Top.cur)
    /\ UNCHANGED <<node, head, steps>>

\* The walk reaches the end of its list.
EndOfWalk ==
    /\ stack # <<>> /\ ~Top.executing /\ Following = nil
    /\ stack' = SubSeq(stack, 1, Len(stack) - 1)
    /\ UNCHANGED <<node, heap, head, steps>>

CallbacksNext ==
    \/ \E c \in Callbacks, r \in Reasons : vpi_register_cb(c, r)
    \/ \E c \in Callbacks : vpi_remove_cb(c)
    \/ vpiStartOfSim \/ vpiNextSimTime \/ run_vpi_callbacks
    \/ VisitOnce \/ VisitValue \/ CallbackReturns \/ EndOfWalk

CallbacksSpec == CallbacksInit /\ [][CallbacksNext]_callbackVars

(***************************************************************************)
(* Properties                                                              *)
(***************************************************************************)

\* No pointer that will be followed leads to a freed callback: neither from
\* a list nor from a walk that user code has interrupted.
NoDanglingPointer ==
    /\ \A r \in Reasons : \A c \in OnList(head[r]) : heap[c] = "live"
    /\ \A i \in DOMAIN stack :
          /\ stack[i].list # "start" /\ stack[i].next # nil => heap[stack[i].next] = "live"
          /\ stack[i].list = "value" /\ stack[i].prev # nil => heap[stack[i].prev] = "live"

\* The assertion of run_vpi_callbacks where it unlinks a callback,
\* assert(prev->next == cur), vpi_callback.cc:911.
PrevPrecedesCur ==
    (stack # <<>> /\ ~Top.executing /\ Top.list = "value"
     /\ Top.next # nil /\ ~node[Top.next].cb_rtn /\ Top.prev # nil)
        => node[Top.prev].next = Top.next

\* run_vpi_callbacks, vpi_remove_cb: no pointer that will be followed leads to a freed
\* callback, and the predecessor is the one that the code asserts.
ListsIntact == NoDanglingPointer /\ PrevPrecedesCur

\* The innermost walk is over.
WalkOver == stack # <<>> /\ ~Top.executing /\ Following = nil

CalledIn(frame) == {frame.called[i] : i \in DOMAIN frame.called}

\* A walk calls, once each, the callbacks that were on its list when it
\* began and that nobody removed before their turn, whatever user code
\* registers and removes meanwhile.  A callback on a part select may be
\* passed over.
DueAreCalled ==
    /\ \A i \in DOMAIN stack :
          Cardinality(CalledIn(stack[i])) = Len(stack[i].called)
    /\ WalkOver => Top.due \ Parts \subseteq CalledIn(Top)

\* A callback that is registered during a walk waits for the next change of
\* the signal, or the next time: two callbacks that register each other
\* do not keep the simulation at one time for ever.
NewOnesWait ==
    \A i \in DOMAIN stack :
        stack[i].list # "start" => CalledIn(stack[i]) \subseteq stack[i].old

\* run_vpi_callbacks, vpiNextSimTime: a walk calls each callback that is due once, and
\* none that was registered during the walk.
CalledOnce == DueAreCalled /\ NewOnesWait

\* run_vpi_callbacks: a removed callback is reaped.  After the first walk that
\* begins with it removed it is off the list and freed.
RemovedIsReaped ==
    WalkOver => \A c \in Top.gone : heap[c] = "freed" /\ c \notin OnList(head["value"])
=============================================================================
