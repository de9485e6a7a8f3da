------------------------------- MODULE Agenda -------------------------------
(***************************************************************************)
(* What an event-driven simulator promises about time, whatever the order   *)
(* of the events of one time: an event runs exactly at the time it was     *)
(* scheduled for, time goes from one pending event to the next and never   *)
(* past one, and no event disappears before the simulation is over.        *)
(***************************************************************************)
EXTENDS Integers, FiniteSetsExt

VARIABLES
    pending,    \* events that wait; e.due is the time event e is for
    now,        \* simulation time
    abandoned   \* the simulation is over: what still waits will never run

Init == pending = {} /\ now = 0 /\ ~ abandoned

Schedule ==
    /\ \E e \in pending' \ pending : e.due >= now /\ pending' = pending \union {e}
    /\ UNCHANGED <<now, abandoned>>

Run ==
    /\ ~ abandoned
    /\ \E e \in pending : e.due = now /\ pending' = pending \ {e}
    /\ UNCHANGED <<now, abandoned>>

\* Time reaches the next pending event, when none of the current time is left.
Tick ==
    /\ ~ abandoned /\ pending # {}
    /\ \A e \in pending : e.due > now
    /\ now' = Min({e.due : e \in pending})
    /\ UNCHANGED <<pending, abandoned>>

Finish == ~ abandoned /\ abandoned' /\ UNCHANGED <<pending, now>>

Next == Schedule \/ Run \/ Tick \/ Finish

Spec == Init /\ [][Next]_<<pending, now, abandoned>>
=============================================================================
