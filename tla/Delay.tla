------------------------------- MODULE Delay --------------------------------
(***************************************************************************)
(* A net with a delay (vvp_fun_delay, vvp/delay.cc): what it receives it   *)
(* sends on after the rise, fall or decay time, unless the input changes   *)
(* back before.  Its pending events are its own list; the scheduler only   *)
(* holds one wakeup for each event ever made, and a wakeup takes whatever  *)
(* event is due then, or none.  Wakeups and changes of the input at one    *)
(* simulation time come in either order.                                   *)
(***************************************************************************)
EXTENDS Bit4, Sequences, FiniteSetsExt

CONSTANTS Kind,           \* the type_ of the net: "vec4" (vec8 alike) or "real"
          NetWidth,       \* bits in the vector
          Inputs,         \* the bits the input is made of, or the reals
          Delays,         \* what rise, fall and decay may be
          Variable,       \* the delays are expressions, and change
          MaxChanges,     \* changes of the input in one simulation time
          ChangeWhenDue,  \* whether the input may change before an event due now is
                          \* sent: "never", "not first" (not the first), "always"
          MaxTime

DelayAssumption == /\ Kind \in {"vec4", "real"}
                   /\ NetWidth \in Nat \ {0}
                   /\ Kind = "vec4" => Inputs \subseteq Bits
                   /\ Delays \subseteq Nat
                   /\ \E longest \in Delays : \A d \in Delays : d <= longest
                   /\ Variable \in BOOLEAN
                   /\ ChangeWhenDue \in {"never", "not first", "always"}
                   /\ MaxChanges \in Nat /\ MaxTime \in Nat

VARIABLES
    now,       \* schedule_simtime()
    delay_,    \* the vvp_delay_t: rise, fall, decay, their minimum
               \* and ignore_decay_, set when no decay time is given
    in,        \* the last value received
    cur,       \* cur_vec4_ or cur_real_: the last value sent
    initial_,  \* nothing sent yet
    list_,     \* the pending events, list_->next first
    wakeups,   \* how many wakeups the scheduler holds, for each time
    changes,   \* changes of the input at this time
    history    \* what the input was before, and since when it is what it is

delayVars == <<now, delay_, in, cur, initial_, list_, wakeups, changes, history>>

Lanes == 1 .. NetWidth
NetInputs == [Lanes -> Inputs]
\* A vector starts unknown and a real starts at zero.
Initially == [i \in Lanes |-> IF Kind = "real" THEN BIT4_0 ELSE BIT4_X]

-----------------------------------------------------------------------------
\* The delay of a transition (vvp_delay_t).

calculate_min_delay_(d) ==
    LET least == Min({d.rise, d.fall})
    IN  IF d.ignore THEN [d EXCEPT !.decay = least, !.min = least]
        ELSE [d EXCEPT !.min = Min({least, d.decay})]

Constructed(rise, fall, decay, ignore) ==
    calculate_min_delay_([rise |-> rise, fall |-> fall, decay |-> decay,
                          min |-> 0, ignore |-> ignore])

\* set_rise, set_fall: a new least delay is also the decay when none is given.
set_rise(port, d, val) ==
    LET new == [d EXCEPT ![port] = val]
    IN  IF val < d.min THEN [new EXCEPT !.min = val, !.decay = IF d.ignore THEN val ELSE @]
        ELSE calculate_min_delay_(new)

get_delay(d, from, to) ==
    IF from = to THEN 0
    ELSE CASE to = BIT4_0 -> d.fall
           [] to = BIT4_1 -> d.rise
           [] to = BIT4_X -> d.min
           [] to = BIT4_Z -> d.decay

Transition_FirstBit(from, to) == IF Kind = "real" THEN delay_.min
                                 ELSE get_delay(delay_, from[1], to[1])

\* The longest delay among the bits; a real has the least delay.
Transition(from, to) == IF Kind = "real" THEN delay_.min
                        ELSE Max({get_delay(delay_, from[i], to[i]) : i \in Lanes})

-----------------------------------------------------------------------------
\* The event at the head of the list is due and not sent yet.
DueNow == list_ # <<>> /\ list_[1].sim_time = now

\* use_delay in recv_vec4: from the value the output will have at this time.
UseDelay(bit) == Transition(IF DueNow /\ ~initial_ THEN list_[1].value ELSE cur, bit)

\* Drop the events not due yet, from the head, up to one that is.
clean_pulse_events_ ==
    LET due == {i \in DOMAIN list_ : list_[i].sim_time <= now}
    IN  IF due = {} THEN <<>> ELSE SubSeq(list_, Min(due), Len(list_))

Skipped_Unchanged(bit) == cur = bit

\* The head of the list has this value: the new one is not looked at further.
Skipped(bit) == list_ # <<>> /\ list_[1].value = bit

SendNow(bit) ==
    /\ cur' = bit
    /\ initial_' = FALSE
    /\ list_' = <<>>
    /\ UNCHANGED wakeups

Enqueue(bit) ==
    LET time == now + UseDelay(bit)
    IN  /\ list_' = Append(clean_pulse_events_, [sim_time |-> time, value |-> bit])
        /\ wakeups' = [wakeups EXCEPT ![time] = @ + 1]
        /\ UNCHANGED <<cur, initial_>>

\* recv_vec4, recv_vec8 and recv_real on port 0.
recv(bit) ==
    /\ changes < MaxChanges
    /\ DueNow => ChangeWhenDue = "always" \/ (ChangeWhenDue = "not first" /\ ~initial_)
    /\ \/ Skipped(bit) /\ UNCHANGED <<cur, initial_, list_, wakeups>>
       \/ /\ ~Skipped(bit) /\ Kind = "real" /\ cur = bit
          /\ list_' = clean_pulse_events_
          /\ UNCHANGED <<cur, initial_, wakeups>>
       \/ /\ ~Skipped(bit) /\ ~(Kind = "real" /\ cur = bit)
          /\ IF UseDelay(bit) = 0 /\ clean_pulse_events_ = <<>> THEN SendNow(bit) ELSE Enqueue(bit)
    /\ in' = bit
    /\ changes' = changes + 1
    /\ history' = IF bit = in THEN history
                  ELSE [was |-> in, from |-> history.since, since |-> now]
    /\ UNCHANGED <<now, delay_>>

\* recv_vec4 and recv_real on ports 1, 2 and 3: a delay expression changed.
SetDelay(port, val) ==
    /\ Variable
    /\ delay_.ignore => port # "decay"
    /\ delay_' = set_rise(port, delay_, val)
    /\ UNCHANGED <<now, in, cur, initial_, list_, wakeups, changes, history>>

\* A wakeup: send the event at the head of the list if its time has come.
run_run ==
    /\ wakeups[now] > 0
    /\ wakeups' = [wakeups EXCEPT ![now] = @ - 1]
    /\ IF list_ = <<>> \/ (list_ # <<>> /\ list_[1].sim_time > now)
       THEN UNCHANGED <<cur, initial_, list_>>
       ELSE /\ cur' = list_[1].value
            /\ initial_' = FALSE
            /\ list_' = Tail(list_)
    /\ UNCHANGED <<now, delay_, in, changes, history>>

\* The scheduler runs every event of a time before it goes to the next.
Advance ==
    /\ wakeups[now] = 0
    /\ now < MaxTime
    /\ now' = now + 1
    /\ changes' = 0
    /\ UNCHANGED <<delay_, in, cur, initial_, list_, wakeups, history>>

DelayInit ==
    /\ now = 0
    /\ delay_ \in {Constructed(r, f, d, i) : r \in Delays, f \in Delays, d \in Delays, i \in BOOLEAN}
    /\ cur = Initially
    /\ in = cur
    /\ initial_ = TRUE
    /\ list_ = <<>>
    /\ wakeups = [t \in 0 .. MaxTime + Max(Delays) |-> 0]
    /\ changes = 0
    /\ history = [was |-> cur, from |-> 0, since |-> 0]

DelayNext ==
    \/ \E bit \in NetInputs : recv(bit)
    \/ \E port \in {"rise", "fall", "decay"}, val \in Delays : SetDelay(port, val)
    \/ run_run
    \/ Advance

DelaySpec == DelayInit /\ [][DelayNext]_delayVars

-----------------------------------------------------------------------------
DelayTypeOK ==
    /\ now \in 0 .. MaxTime
    /\ delay_ \in [rise : Delays, fall : Delays, decay : Delays,
                  min : Delays, ignore : BOOLEAN]
    /\ in \in NetInputs \cup {Initially}
    /\ cur \in NetInputs \cup {Initially}
    /\ initial_ \in BOOLEAN
    /\ list_ \in Seq([sim_time : DOMAIN wakeups, value : NetInputs])
    /\ \A t \in DOMAIN wakeups : wakeups[t] \in Nat
    /\ changes \in 0 .. MaxChanges

\* recv_vec4 and run_run: what the delay will send last is what it received
\* last, however inputs, swallowed pulses and wakeups interleave.
FollowsInput == in = IF list_ = <<>> THEN cur ELSE list_[Len(list_)].value

\* enqueue_ and schedule_generic: no event is left behind by the wakeups, each
\* of which may be spent on another event or on none.
SentOnTime ==
    /\ \A i \in DOMAIN list_ : list_[i].sim_time >= now
    /\ \A t \in DOMAIN wakeups :
          Cardinality({i \in DOMAIN list_ : list_[i].sim_time = t}) <= wakeups[t]

\* Bits that change together, from one vector to the other, have different
\* delays.  The code makes them all wait for the longest; the comment on
\* recv_vec4 says that "the results would be wrong" then, and that vectors in
\* between should be sent.
MixedDelays(from, to) ==
    \E i, j \in Lanes :
        /\ from[i] # to[i] /\ from[j] # to[j]
        /\ get_delay(delay_, from[i], to[i]) # get_delay(delay_, from[j], to[j])

\* A vector that arrived at time since is sent now, and each of its bits that
\* changes does so after that bit's own delay.  Bits with different delays are
\* the exception: then no bit is early, and the slowest is on time.
Waited(since, from, to) ==
    LET Changed == {i \in Lanes : from[i] # to[i]}
        due(i) == since + get_delay(delay_, from[i], to[i])
    IN  IF Kind = "real" THEN now = since + delay_.min
        ELSE IF MixedDelays(from, to)
        THEN (\A i \in Changed : due(i) <= now) /\ (\E i \in Changed : due(i) = now)
        ELSE \A i \in Changed : due(i) = now

\* recv_vec4 and clean_pulse_events_: the output takes a vector only when the
\* input has held it for the delay of each bit that changes, and at that very
\* time unless those bits have different delays; a shorter pulse never shows.
\* The vector waits as a whole: a change of one bit starts the others' wait anew.
InertialStep ==
    cur' # cur =>
        \/ cur' = in' /\ Waited(history'.since, cur, cur')
        \/ cur' = history.was /\ history.since = now /\ Waited(history.from, cur, cur')
InertialDelay == [][InertialStep]_delayVars

\* set_rise, set_fall and set_decay: the least delay is kept right by updates
\* that do not always compute it again, and is the decay when none is given.
LeastDelay ==
    /\ delay_.min = Min({delay_.rise, delay_.fall, delay_.decay})
    /\ delay_.ignore => delay_.decay = delay_.min

\* vvp_fun_delay and vvp_delay_t together: what was received last is sent last,
\* with a wakeup for each change that waits, under delays whose least one is
\* known.
InputArrives == FollowsInput /\ SentOnTime /\ LeastDelay
=============================================================================
