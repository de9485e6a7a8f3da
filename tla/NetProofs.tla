----------------------------- MODULE NetProofs ------------------------------
(***************************************************************************)
(* What a net passes on, whatever its width and the bits of its values.    *)
(*                                                                         *)
(* A delayed net sends what it received, when it is due, for any delays    *)
(* and any number of changes of its input: the pending list never holds    *)
(* more than an event that is due and the one behind it.                   *)
(*                                                                         *)
(* A signal reads as the force, release, assign and deassign statements    *)
(* promise: the functor, the filter and what they passed on stay           *)
(* consistent, and no change goes untold.                                  *)
(***************************************************************************)
EXTENDS SignalStatements, Delay, TLAPS, WellFoundedInduction, FiniteSetTheorems, SequenceTheorems

-----------------------------------------------------------------------------
(* Delayed nets. *)

\* A delay and its least delay.
DelayType == [rise : Delays, fall : Delays, decay : Delays, min : Delays, ignore : BOOLEAN]

IsLeast(d) ==
  /\ d.min \in {d.rise, d.fall, d.decay}
  /\ d.min <= d.rise /\ d.min <= d.fall /\ d.min <= d.decay
  /\ d.ignore => d.decay = d.min

DelayInv == delay_ \in DelayType /\ IsLeast(delay_)

\* What a net may receive and send.
NetValue == NetInputs \cup {Initially}

Times == 0 .. MaxTime + Max(Delays)
Event == [sim_time : Times, value : NetInputs]

\* An input that does not change at a time when an event is due, or that
\* changes only once in a simulation time.
Orderly == ChangeWhenDue = "never" \/ MaxChanges = 1

\* A real whose input goes back to the value last sent drops what is pending
\* but an event that is due: there the input must not change before it is sent.
Faithful == ChangeWhenDue = "never" \/ (MaxChanges = 1 /\ Kind = "vec4")

One(e) == /\ list_ = <<e>>
          /\ e.sim_time >= now /\ wakeups[e.sim_time] >= 1
Two(e, f) == /\ list_ = <<e, f>>
             /\ e.sim_time = now /\ f.sim_time >= now
             /\ wakeups[now] >= 1 /\ wakeups[f.sim_time] >= 1
             /\ f.sim_time = now => wakeups[now] >= 2
             /\ changes > 0 /\ ChangeWhenDue # "never"

\* An orderly input leaves at most an event that is due and the one after it,
\* each with a wakeup of its own.
ListInv ==
  /\ now \in 0 .. MaxTime /\ changes \in Nat /\ initial_ \in BOOLEAN
  /\ cur \in NetValue /\ in \in NetValue
  /\ wakeups \in [Times -> Nat]
  /\ \/ list_ = <<>>
     \/ \E e \in Event : One(e)
     \/ \E e \in Event, f \in Event : Two(e, f)

\* The delay of a transition under the delays d.
Wait(d, from, to) == IF Kind = "real" THEN d.min
                     ELSE Max({get_delay(d, from[i], to[i]) : i \in Lanes})

\* Each pending event has waited for the delay of its transition since the
\* input took its value.
WaitInv ==
  /\ \A e \in Event : list_ = <<e>> =>
        e.sim_time = history.since + Wait(delay_, cur, e.value)
  /\ \A e \in Event, f \in Event : list_ = <<e, f>> =>
        /\ e.value = history.was /\ history.since = now
        /\ now = history.from + Wait(delay_, cur, e.value)
        /\ f.sim_time = now + Wait(delay_, e.value, f.value)

\* The history holds times.
HistoryInv == history.since \in Nat /\ history.from \in Nat

-----------------------------------------------------------------------------
(* Least and longest delays. *)

\* Every set of naturals has a least element: induction without an operator
\* parameter.
LEMMA LeastOfNaturals ==
  ASSUME NEW T, T \subseteq Nat, T # {}
  PROVE  \E x \in T : \A y \in T : x <= y
<1>1. IsWellFoundedOn({ss \in Nat \X Nat : ss[1] < ss[2]}, Nat)
  BY NatLessThanWellFounded, Zenon DEF OpToRel
<1>2. PICK x \in T : \A y \in T : ~(<<y, x>> \in {ss \in Nat \X Nat : ss[1] < ss[2]})
  BY <1>1, WFMin
<1>3. ASSUME NEW y \in T PROVE x <= y
  <2>1. ~(<<y, x>> \in {ss \in Nat \X Nat : ss[1] < ss[2]})
    BY <1>2
  <2>2. <<y, x>> \in Nat \X Nat /\ <<y, x>>[1] = y /\ <<y, x>>[2] = x
    OBVIOUS
  <2> QED BY <2>1, <2>2
<1> QED
  BY <1>3

\* A bounded set of naturals has a greatest element.
LEMMA GreatestOfNaturals ==
  ASSUME NEW T, T \subseteq Nat, T # {}, NEW b \in Nat, \A x \in T : x <= b
  PROVE  Max(T) \in T /\ \A y \in T : Max(T) >= y
<1> DEFINE U == {u \in Nat : \A x \in T : x <= u}
<1>1. PICK m \in U : \A u \in U : m <= u
  <2>1. U \subseteq Nat /\ U # {}
    OBVIOUS
  <2> HIDE DEF U
  <2> QED BY <2>1, LeastOfNaturals
<1>2. m \in T
  <2> SUFFICES ASSUME m \notin T PROVE FALSE
    OBVIOUS
  <2>1. \A x \in T : x <= m - 1
    BY <1>1
  <2>2. PICK x \in T : x \in Nat /\ x <= m - 1
    BY <2>1
  <2>3. m - 1 \in U
    BY <1>1, <2>1, <2>2
  <2> QED BY <1>1, <2>3
<1>3. \A y \in T : m >= y
  BY <1>1
<1> QED
  BY <1>2, <1>3 DEF Max

\* The least of two, and of three.
LEMMA LeastOfTwo ==
  ASSUME NEW a \in Nat, NEW b \in Nat
  PROVE  Min({a, b}) \in {a, b} /\ Min({a, b}) <= a /\ Min({a, b}) <= b
<1>1. \E x \in {a, b} : \A y \in {a, b} : x =< y
  OBVIOUS
<1> QED
  BY <1>1 DEF Min

\* The value of Min is the element below all others.
LEMMA LeastIs ==
  ASSUME NEW T, T \subseteq Nat, NEW m \in T, \A y \in T : m <= y
  PROVE  Min(T) = m
<1>1. Min(T) \in T /\ \A y \in T : Min(T) <= y
  BY DEF Min
<1>2. Min(T) <= m /\ m <= Min(T) /\ Min(T) \in Nat /\ m \in Nat
  BY <1>1
<1> QED
  BY <1>2

-----------------------------------------------------------------------------
(* The delays. *)

\* calculate_min_delay_: the least delay is the least of the three.
LEMMA CalculateIsLeast ==
  ASSUME DelayAssumption,
         NEW d \in [rise : Delays, fall : Delays, decay : Delays, min : Nat, ignore : BOOLEAN]
  PROVE  calculate_min_delay_(d) \in DelayType /\ IsLeast(calculate_min_delay_(d))
<1> DEFINE c == calculate_min_delay_(d)
<1>1. /\ Delays \subseteq Nat /\ d.rise \in Delays /\ d.fall \in Delays /\ d.decay \in Delays
      /\ d.ignore \in BOOLEAN
  BY DEF DelayAssumption
<1>2. PICK least : /\ least = Min({d.rise, d.fall}) /\ least \in {d.rise, d.fall}
                   /\ least <= d.rise /\ least <= d.fall
  BY <1>1, LeastOfTwo
<1>3. CASE d.ignore
  <2>1. c = [d EXCEPT !.decay = least, !.min = least]
    BY <1>2, <1>3 DEF calculate_min_delay_
  <2> QED BY <1>1, <1>2, <2>1 DEF DelayType, IsLeast
<1>4. CASE ~d.ignore
  <2>0. least \in Nat /\ d.decay \in Nat
    BY <1>1, <1>2
  <2>1. PICK m : m = Min({least, d.decay}) /\ m \in {least, d.decay} /\ m <= least /\ m <= d.decay
    BY <2>0, LeastOfTwo
  <2>2. c = [d EXCEPT !.min = m]
    BY <1>2, <1>4, <2>1 DEF calculate_min_delay_
  <2> QED BY <1>1, <1>2, <1>4, <2>1, <2>2 DEF DelayType, IsLeast
<1> QED
  BY <1>3, <1>4

\* set_rise, set_fall, set_decay: the least delay stays right.
LEMMA SetIsLeast ==
  ASSUME DelayAssumption, NEW d \in DelayType, IsLeast(d), NEW val \in Delays,
         NEW port \in {"rise", "fall", "decay"}, d.ignore => port # "decay"
  PROVE  set_rise(port, d, val) \in DelayType /\ IsLeast(set_rise(port, d, val))
<1> DEFINE new == [d EXCEPT ![port] = val]
<1>1. /\ Delays \subseteq Nat /\ d.rise \in Delays /\ d.fall \in Delays /\ d.decay \in Delays
      /\ d.min \in Delays /\ d.ignore \in BOOLEAN
  BY DEF DelayAssumption, DelayType
<1>2. new \in DelayType /\ new.ignore = d.ignore
  <2>1. CASE port = "rise"
    BY <1>1, <2>1 DEF DelayType
  <2>2. CASE port = "fall"
    BY <1>1, <2>2 DEF DelayType
  <2>3. CASE port = "decay"
    BY <1>1, <2>3 DEF DelayType
  <2> QED BY <2>1, <2>2, <2>3
<1>3. CASE val < d.min
  <2> DEFINE low == [new EXCEPT !.min = val, !.decay = IF d.ignore THEN val ELSE new.decay]
  <2>1. set_rise(port, d, val) = low
    BY <1>2, <1>3 DEF set_rise, DelayType
  <2>2. /\ new.rise \in {d.rise, val} /\ new.fall \in {d.fall, val} /\ new.decay \in {d.decay, val}
        /\ (new.rise = val \/ new.fall = val \/ (new.decay = val /\ ~d.ignore))
    <3>1. CASE port = "rise"
      BY <1>1, <3>1 DEF DelayType
    <3>2. CASE port = "fall"
      BY <1>1, <3>2 DEF DelayType
    <3>3. CASE port = "decay"
      BY <1>1, <3>3 DEF DelayType
    <3> QED BY <3>1, <3>2, <3>3
  <2>3. /\ low \in DelayType /\ low.min = val /\ low.rise = new.rise /\ low.fall = new.fall
        /\ low.decay = (IF d.ignore THEN val ELSE new.decay) /\ low.ignore = d.ignore
    BY <1>1, <1>2 DEF DelayType
  <2> HIDE DEF low, new
  <2>4. /\ d.rise \in Nat /\ d.fall \in Nat /\ d.decay \in Nat /\ d.min \in Nat /\ val \in Nat
        /\ d.min <= d.rise /\ d.min <= d.fall /\ d.min <= d.decay
    BY <1>1 DEF IsLeast
  <2>5. val <= new.rise /\ val <= new.fall /\ val <= new.decay
    BY <1>3, <2>2, <2>4
  <2>6. low.min <= low.rise /\ low.min <= low.fall /\ low.min <= low.decay
    BY <2>3, <2>4, <2>5
  <2>7. low.min \in {low.rise, low.fall, low.decay}
    BY <2>2, <2>3
  <2>8. IsLeast(low)
    BY <2>3, <2>6, <2>7 DEF IsLeast
  <2> QED BY <2>1, <2>3, <2>8
<1>4. CASE ~(val < d.min)
  <2>1. set_rise(port, d, val) = calculate_min_delay_(new)
    BY <1>4 DEF set_rise
  <2>2. new \in [rise : Delays, fall : Delays, decay : Delays, min : Nat, ignore : BOOLEAN]
    BY <1>1, <1>2 DEF DelayType
  <2> HIDE DEF new
  <2> QED BY <2>1, <2>2, CalculateIsLeast
<1> QED
  BY <1>3, <1>4

\* The delays at the start.
LEMMA StartsLeast ==
  ASSUME DelayAssumption, DelayInit
  PROVE  DelayInv
<1>1. PICK r \in Delays, f \in Delays, d \in Delays, i \in BOOLEAN :
        delay_ = Constructed(r, f, d, i)
  BY DEF DelayInit
<1> DEFINE c == [rise |-> r, fall |-> f, decay |-> d, min |-> 0, ignore |-> i]
<1>2. c \in [rise : Delays, fall : Delays, decay : Delays, min : Nat, ignore : BOOLEAN]
  OBVIOUS
<1> HIDE DEF c
<1>3. calculate_min_delay_(c) \in DelayType /\ IsLeast(calculate_min_delay_(c))
  BY <1>2, CalculateIsLeast
<1> QED
  BY <1>1, <1>3 DEF Constructed, DelayInv, c

\* No step leaves a wrong least delay.
LEMMA StaysLeast ==
  ASSUME DelayAssumption, DelayInv, [DelayNext]_delayVars
  PROVE  DelayInv'
<1>1. ASSUME NEW port \in {"rise", "fall", "decay"}, NEW val \in Delays, SetDelay(port, val)
      PROVE  DelayInv'
  BY <1>1, SetIsLeast DEF DelayInv, SetDelay
<1>2. CASE UNCHANGED delay_
  BY <1>2 DEF DelayInv
<1> QED
  BY <1>1, <1>2 DEF DelayNext, delayVars, recv, run_run, Advance

\* The least delay is right in every state.
LEMMA AlwaysLeast ==
  ASSUME DelayAssumption
  PROVE  DelaySpec => []DelayInv
<1>1. DelayInit => DelayInv
  BY StartsLeast
<1>2. DelayInv /\ [DelayNext]_delayVars => DelayInv'
  BY StaysLeast
<1> QED
  BY <1>1, <1>2, PTL DEF DelaySpec

\* set_rise, set_fall and set_decay: the least delay is kept right by updates
\* that do not always compute it again, and is the decay when none is given.
THEOREM LeastDelayIsKept ==
  ASSUME DelayAssumption
  PROVE  DelaySpec => []LeastDelay
<1>1. DelayInv => LeastDelay
  <2> SUFFICES ASSUME DelayInv PROVE LeastDelay
    OBVIOUS
  <2> DEFINE T == {delay_.rise, delay_.fall, delay_.decay}
  <2>1. T \subseteq Nat /\ delay_.min \in T /\ \A y \in T : delay_.min <= y
    BY DEF DelayInv, DelayType, IsLeast, DelayAssumption
  <2> HIDE DEF T
  <2>2. Min(T) = delay_.min
    BY <2>1, LeastIs
  <2> QED BY <2>2 DEF T, LeastDelay, DelayInv, IsLeast
<1> QED
  BY <1>1, AlwaysLeast, PTL

-----------------------------------------------------------------------------
(* The delay of a transition. *)

\* get_delay: no delay for a bit that does not change, and one of the delays
\* for every other.
LEMMA GetDelayType ==
  ASSUME DelayAssumption, DelayInv, NEW a \in Bits, NEW b \in Bits
  PROVE  get_delay(delay_, a, b) \in Delays \cup {0} /\ get_delay(delay_, a, a) = 0
<1>1. /\ delay_.rise \in Delays /\ delay_.fall \in Delays /\ delay_.decay \in Delays
      /\ delay_.min \in Delays
  BY DEF DelayInv, DelayType
<1>2. get_delay(delay_, a, a) = 0
  BY DEF get_delay
<1>3. CASE a = b
  BY <1>2, <1>3
<1>4. CASE a # b
  <2>1. CASE b = 0
    BY <1>1, <1>4, <2>1 DEF get_delay, BIT4_0, BIT4_1, BIT4_X, BIT4_Z
  <2>2. CASE b = 1
    BY <1>1, <1>4, <2>2 DEF get_delay, BIT4_0, BIT4_1, BIT4_X, BIT4_Z
  <2>3. CASE b = 3
    BY <1>1, <1>4, <2>3 DEF get_delay, BIT4_0, BIT4_1, BIT4_X, BIT4_Z
  <2>4. CASE b = 2
    BY <1>1, <1>4, <2>4 DEF get_delay, BIT4_0, BIT4_1, BIT4_X, BIT4_Z
  <2> QED BY <1>2, <2>1, <2>2, <2>3, <2>4 DEF Bits, BIT4_0, BIT4_1, BIT4_X, BIT4_Z
<1> QED
  BY <1>3, <1>4

\* The delays have a longest.
LEMMA LongestDelay ==
  ASSUME DelayAssumption
  PROVE  Max(Delays) \in Delays /\ \A d \in Delays : d <= Max(Delays)
<1>1. Delays \subseteq Nat
  BY DEF DelayAssumption
<1>2. PICK longest \in Delays : \A d \in Delays : d <= longest
  BY DEF DelayAssumption
<1>3. Max(Delays) \in Delays /\ \A d \in Delays : Max(Delays) >= d
  BY <1>1, <1>2, GreatestOfNaturals
<1> QED
  BY <1>1, <1>3

\* The delay of a vector is that of one of its bits, and no bit has a longer one.
LEMMA TransitionIsLongest ==
  ASSUME DelayAssumption, DelayInv, Kind = "vec4", NEW from \in NetValue, NEW to \in NetValue
  PROVE  /\ \A i \in Lanes : /\ get_delay(delay_, from[i], to[i]) \in Nat \cap (Delays \cup {0})
                             /\ get_delay(delay_, from[i], to[i]) <= Transition(from, to)
                             /\ from[i] = to[i] => get_delay(delay_, from[i], to[i]) = 0
         /\ \E i \in Lanes : Transition(from, to) = get_delay(delay_, from[i], to[i])
<1>1. Delays \subseteq Nat /\ 1 \in Lanes
  <2>1. Delays \subseteq Nat /\ NetWidth \in Nat \ {0}
    BY DEF DelayAssumption
  <2> QED BY <2>1 DEF Lanes
<1>2. from \in [Lanes -> Bits] /\ to \in [Lanes -> Bits]
  BY DEF NetValue, NetInputs, Initially, DelayAssumption, Bits
<1>3. \A i \in Lanes : from[i] \in Bits /\ to[i] \in Bits
  BY <1>2
<1>4. \A i \in Lanes : /\ get_delay(delay_, from[i], to[i]) \in Delays \cup {0}
                       /\ from[i] = to[i] => get_delay(delay_, from[i], to[i]) = 0
  BY <1>3, GetDelayType
<1> DEFINE T == {get_delay(delay_, from[i], to[i]) : i \in Lanes}
<1>5. T # {} /\ T \subseteq Delays \cup {0}
  <2>1. \A i \in Lanes : get_delay(delay_, from[i], to[i]) \in Delays \cup {0}
    BY <1>4
  <2>2. T \subseteq Delays \cup {0}
    BY <2>1, Zenon
  <2>3. get_delay(delay_, from[1], to[1]) \in T
    BY <1>1
  <2> QED BY <2>2, <2>3, Zenon
<1>6. Transition(from, to) = Max(T)
  BY DEF Transition
<1>7. /\ \A i \in Lanes : get_delay(delay_, from[i], to[i]) \in T
      /\ \A x \in T : \E i \in Lanes : x = get_delay(delay_, from[i], to[i])
  OBVIOUS
<1> HIDE DEF T
<1>8. PICK m : m = Max(Delays) /\ m \in Delays /\ \A d \in Delays : d <= m
  BY LongestDelay
<1>9. m \in Nat /\ T \subseteq Nat
  BY <1>1, <1>5, <1>8
<1>10. \A x \in T : x <= m
  BY <1>1, <1>5, <1>8, <1>9
<1>11. Max(T) \in T /\ \A y \in T : Max(T) >= y
  BY <1>5, <1>9, <1>10, GreatestOfNaturals
<1>12. ASSUME NEW i \in Lanes
       PROVE  /\ get_delay(delay_, from[i], to[i]) \in Nat \cap (Delays \cup {0})
              /\ get_delay(delay_, from[i], to[i]) <= Transition(from, to)
  <2>1. PICK x : x = get_delay(delay_, from[i], to[i])
    OBVIOUS
  <2>2. x \in T
    BY <1>7, <2>1
  <2>3. x \in Nat /\ Max(T) \in Nat /\ Max(T) >= x
    BY <1>9, <1>11, <2>2
  <2> QED BY <1>4, <1>6, <2>1, <2>3
<1>13. \E i \in Lanes : Transition(from, to) = get_delay(delay_, from[i], to[i])
  BY <1>6, <1>7, <1>11
<1> QED
  BY <1>4, <1>12, <1>13, Zenon

\* The delay of a vector is one of the delays or none, and none if it does not
\* change.
LEMMA TransitionType ==
  ASSUME DelayAssumption, DelayInv, NEW from \in NetValue, NEW to \in NetValue
  PROVE  /\ Transition(from, to) \in Delays \cup {0}
         /\ Kind = "vec4" => Transition(from, from) = 0
<1>1. CASE Kind = "real"
  BY <1>1 DEF Transition, DelayInv, DelayType
<1>2. CASE Kind = "vec4"
  <2>1. PICK i \in Lanes : Transition(from, to) = get_delay(delay_, from[i], to[i])
    BY <1>2, TransitionIsLongest
  <2>2. PICK j \in Lanes : Transition(from, from) = get_delay(delay_, from[j], from[j])
    BY <1>2, TransitionIsLongest
  <2>3. get_delay(delay_, from[i], to[i]) \in Delays \cup {0}
    BY <1>2, TransitionIsLongest
  <2>4. get_delay(delay_, from[j], from[j]) = 0
    BY <1>2, TransitionIsLongest
  <2> QED BY <2>1, <2>2, <2>3, <2>4
<1> QED
  BY <1>1, <1>2 DEF DelayAssumption

\* A vector that has waited for the longest delay of its bits: each bit that
\* changes has waited for its own, where those delays are alike, and otherwise
\* none is early and the slowest is on time.
LEMMA LongestIsWaited ==
  ASSUME DelayAssumption, DelayInv, Kind = "vec4", NEW from \in NetValue, NEW to \in NetValue,
         NEW since \in Nat, now \in Nat, now = since + Transition(from, to)
  PROVE  Waited(since, from, to)
<1> DEFINE d(i) == get_delay(delay_, from[i], to[i])
<1>1. \A i \in Lanes : /\ d(i) \in Nat /\ d(i) <= Transition(from, to)
                       /\ from[i] = to[i] => d(i) = 0
  BY TransitionIsLongest
<1>2. PICK k \in Lanes : Transition(from, to) = d(k)
  BY TransitionIsLongest
<1>3. ASSUME from[k] = to[k], NEW i \in Lanes
      PROVE  d(i) = 0
  BY <1>1, <1>2, <1>3
<1>4. CASE MixedDelays(from, to)
  <2>1. PICK i \in Lanes, j \in Lanes : d(i) # d(j)
    BY <1>4 DEF MixedDelays
  <2>2. from[k] # to[k]
    BY <1>3, <2>1
  <2>3. since + d(k) = now
    BY <1>2
  <2>4. \A l \in Lanes : since + d(l) <= now
    BY <1>1, <1>2
  <2> QED BY <1>4, <2>2, <2>3, <2>4 DEF Waited
<1>5. CASE ~MixedDelays(from, to)
  <2>1. ASSUME NEW i \in Lanes, from[i] # to[i]
        PROVE  since + d(i) = now
    <3>1. d(i) = d(k)
      <4>1. CASE from[k] = to[k]
        BY <1>2, <1>3, <4>1
      <4>2. CASE from[k] # to[k]
        BY <1>5, <2>1, <4>2 DEF MixedDelays
      <4> QED BY <4>1, <4>2
    <3> QED BY <1>2, <3>1
  <2> QED BY <1>5, <2>1 DEF Waited
<1> QED
  BY <1>4, <1>5

-----------------------------------------------------------------------------
(* What recv and run_run do to the pending events. *)

\* The events that clean_pulse_events_ keeps.
Kept == IF DueNow THEN list_ ELSE <<>>

\* An event for bit after the delay.
New(bit) == [sim_time |-> now + UseDelay(bit), value |-> bit]

\* Before an input arrives at most one event is pending.
LEMMA AtMostOne ==
  ASSUME DelayAssumption, Orderly, ListInv, NEW bit, recv(bit)
  PROVE  /\ list_ = <<>> \/ \E e \in Event : One(e)
         /\ DueNow => ChangeWhenDue # "never"
<1>1. changes < MaxChanges /\ (DueNow => ChangeWhenDue # "never")
  BY DEF recv
<1>2. ASSUME NEW e \in Event, NEW f \in Event, Two(e, f)
      PROVE  FALSE
  BY <1>1, <1>2 DEF Orderly, ListInv, Two
<1> QED
  BY <1>1, <1>2 DEF ListInv

\* clean_pulse_events_: an event that is due is kept, one that is not is dropped.
LEMMA CleanKeeps ==
  ASSUME DelayAssumption, ListInv, list_ = <<>> \/ \E e \in Event : One(e)
  PROVE  clean_pulse_events_ = Kept
<1> DEFINE due == {i \in DOMAIN list_ : list_[i].sim_time <= now}
<1>1. CASE list_ = <<>>
  <2>1. due = {}
    BY <1>1
  <2> QED BY <1>1, <2>1 DEF clean_pulse_events_, Kept, DueNow
<1>2. ASSUME NEW e \in Event, One(e)
      PROVE  clean_pulse_events_ = Kept
  <2>1. list_ = <<e>> /\ e.sim_time >= now /\ e.sim_time \in Int /\ now \in Int
    BY <1>2 DEF One, Event, Times, ListInv
  <2>2. DOMAIN list_ = {1} /\ list_[1] = e /\ Len(list_) = 1 /\ list_ # <<>>
    BY <2>1
  <2>3. CASE e.sim_time = now
    <3>1. due = {1}
      BY <2>1, <2>2, <2>3
    <3>2. Min({1}) = 1
      BY LeastIs
    <3>3. SubSeq(list_, 1, Len(list_)) = list_
      <4>1. list_ \in Seq(Event)
        BY <2>1
      <4> QED BY <4>1, SubSeqFull
    <3> QED BY <2>2, <2>3, <3>1, <3>2, <3>3 DEF clean_pulse_events_, Kept, DueNow
  <2>4. CASE e.sim_time > now
    <3>1. due = {}
      BY <2>1, <2>2, <2>4
    <3>2. ~DueNow
      BY <2>1, <2>2, <2>4 DEF DueNow
    <3> QED BY <3>1, <3>2 DEF clean_pulse_events_, Kept
  <2> QED BY <2>1, <2>3, <2>4
<1> QED
  BY <1>1, <1>2

\* recv: the new value is already due, or is what a real has, or is sent at
\* once, or waits.
LEMMA RecvCases ==
  ASSUME DelayAssumption, DelayInv, Orderly, ListInv, NEW bit \in NetInputs, recv(bit)
  PROVE  /\ in' = bit /\ changes' = changes + 1 /\ now' = now /\ delay_' = delay_
         /\ UseDelay(bit) \in Delays \cup {0}
         /\ \/ /\ list_ # <<>> /\ list_[1].value = bit
               /\ list_' = list_ /\ wakeups' = wakeups /\ cur' = cur /\ initial_' = initial_
            \/ /\ Kind = "real" /\ cur = bit
               /\ list_' = Kept /\ wakeups' = wakeups /\ cur' = cur /\ initial_' = initial_
            \/ /\ list_ = <<>> \/ list_[1].value # bit
               /\ UseDelay(bit) = 0 /\ Kept = <<>>
               /\ list_' = <<>> /\ wakeups' = wakeups /\ cur' = bit /\ initial_' = FALSE
            \/ /\ list_ = <<>> \/ list_[1].value # bit
               /\ ~(UseDelay(bit) = 0 /\ Kept = <<>>)
               /\ list_' = Append(Kept, New(bit)) /\ cur' = cur /\ initial_' = initial_
               /\ wakeups' = [wakeups EXCEPT ![now + UseDelay(bit)] = @ + 1]
<1>1. list_ = <<>> \/ \E e \in Event : One(e)
  BY AtMostOne
<1>2. clean_pulse_events_ = Kept
  BY <1>1, CleanKeeps
<1>3. UseDelay(bit) \in Delays \cup {0}
  <2>1. (IF DueNow /\ ~initial_ THEN list_[1].value ELSE cur) \in NetValue
    BY <1>1 DEF ListInv, DueNow, One, Event, NetValue
  <2>2. bit \in NetValue
    BY DEF NetValue
  <2> QED BY <2>1, <2>2, TransitionType DEF UseDelay
<1> QED
  BY <1>2, <1>3 DEF recv, Skipped, SendNow, Enqueue, New

\* The event for a new value is for a time the scheduler knows.
LEMMA UseDelayType ==
  ASSUME DelayAssumption, DelayInv, Orderly, ListInv, NEW bit \in NetInputs, recv(bit)
  PROVE  UseDelay(bit) \in Nat /\ now + UseDelay(bit) \in Times
<1>1. UseDelay(bit) \in Delays \cup {0} /\ Delays \subseteq Nat
  BY RecvCases DEF DelayAssumption
<1>2. now \in 0 .. MaxTime /\ MaxTime \in Nat
  BY DEF ListInv, DelayAssumption
<1>3. PICK m : m = Max(Delays) /\ m \in Delays /\ \A d \in Delays : d <= m
  BY LongestDelay
<1>4. m \in Nat /\ 0 <= m
  BY <1>1, <1>3
<1>5. UseDelay(bit) \in Nat /\ UseDelay(bit) <= m
  <2>1. CASE UseDelay(bit) = 0
    BY <1>4, <2>1
  <2>2. CASE UseDelay(bit) \in Delays
    BY <1>1, <1>3, <2>2
  <2> QED BY <1>1, <2>1, <2>2
<1>6. now + UseDelay(bit) \in 0 .. MaxTime + m
  BY <1>2, <1>4, <1>5
<1> QED
  BY <1>3, <1>5, <1>6 DEF Times

\* A second event behind the first.
LEMMA AppendSecond ==
  ASSUME NEW e \in Event, NEW n \in Event
  PROVE  Append(<<e>>, n) = <<e, n>>
<1> DEFINE a == Append(<<e>>, n)
           b == <<e, n>>
<1>1. <<e>> \in Seq(Event) /\ b \in Seq(Event)
  OBVIOUS
<1>2. a \in Seq(Event) /\ Len(a) = 2 /\ a[1] = e /\ a[2] = n
  BY <1>1, AppendProperties
<1>3. Len(b) = 2 /\ b[1] = e /\ b[2] = n
  OBVIOUS
<1> HIDE DEF a, b
<1>4. Len(a) = Len(b) /\ \A i \in 1 .. Len(a) : a[i] = b[i]
  BY <1>2, <1>3
<1>5. a = b
  BY <1>1, <1>2, <1>4, SeqEqual
<1> QED
  BY <1>5 DEF a, b

\* The pending events stay in order when an input arrives.
LEMMA RecvInOrder ==
  ASSUME DelayAssumption, DelayInv, Orderly, ListInv, NEW bit \in NetInputs, recv(bit)
  PROVE  ListInv'
<1>1. /\ list_ = <<>> \/ \E e \in Event : One(e)
      /\ DueNow => ChangeWhenDue # "never"
  BY AtMostOne
<1>2. PICK u : u = UseDelay(bit) /\ u \in Nat /\ now + u \in Times
  BY UseDelayType
<1>3. /\ in' = bit /\ changes' = changes + 1 /\ now' = now
      /\ now \in 0 .. MaxTime /\ changes \in Nat /\ initial_ \in BOOLEAN
      /\ cur \in NetValue /\ wakeups \in [Times -> Nat] /\ bit \in NetValue
  BY RecvCases DEF ListInv, NetValue
<1> DEFINE Listed == \/ list_ = <<>>
                     \/ \E e \in Event : One(e)
                     \/ \E e \in Event, f \in Event : Two(e, f)
<1>9. ASSUME cur' \in NetValue, initial_' \in BOOLEAN, wakeups' \in [Times -> Nat], Listed'
      PROVE  ListInv'
  <2>1. now' \in 0 .. MaxTime /\ changes' \in Nat /\ in' \in NetValue
    BY <1>3
  <2> QED BY <1>9, <2>1 DEF ListInv
<1>4. ASSUME NEW e \in Event, One(e), now' = now, wakeups' = wakeups, list_' = list_
      PROVE  One(e)'
  BY <1>4 DEF One
<1>5. CASE /\ list_ # <<>> /\ list_' = list_ /\ wakeups' = wakeups
           /\ cur' = cur /\ initial_' = initial_
  BY <1>1, <1>3, <1>4, <1>5, <1>9
<1>6. CASE list_' = Kept /\ wakeups' = wakeups /\ cur' = cur /\ initial_' = initial_
  <2>1. CASE DueNow
    BY <1>1, <1>3, <1>4, <1>6, <1>9, <2>1 DEF Kept, DueNow
  <2>2. CASE ~DueNow
    BY <1>3, <1>6, <1>9, <2>2 DEF Kept
  <2> QED BY <2>1, <2>2
<1>7. CASE list_' = <<>> /\ wakeups' = wakeups /\ cur' = bit /\ initial_' = FALSE
  <2>1. cur' \in NetValue /\ initial_' \in BOOLEAN /\ wakeups' \in [Times -> Nat]
    BY <1>3, <1>7
  <2>2. Listed'
    BY <1>7
  <2> HIDE DEF Listed
  <2> QED BY <1>9, <2>1, <2>2
<1>8. CASE /\ list_' = Append(Kept, New(bit)) /\ cur' = cur /\ initial_' = initial_
           /\ wakeups' = [wakeups EXCEPT ![now + UseDelay(bit)] = @ + 1]
  <2>0. New(bit) = [sim_time |-> now + u, value |-> bit]
    BY <1>2 DEF New
  <2>1. PICK n : n = New(bit) /\ n \in Event /\ n.sim_time = now + u
    BY <1>2, <2>0 DEF Event
  <2>2. /\ wakeups' = [wakeups EXCEPT ![now + u] = @ + 1]
        /\ list_' = Append(Kept, n)
    BY <1>2, <1>8, <2>1
  <2>3. wakeups' \in [Times -> Nat] /\ wakeups'[now + u] >= 1
    BY <1>2, <1>3, <2>2
  <2>4. CASE ~DueNow
    <3>1. list_' = <<n>>
      BY <2>2, <2>4 DEF Kept
    <3>2. One(n)'
      BY <1>2, <1>3, <2>1, <2>3, <3>1 DEF One
    <3> QED BY <1>3, <1>8, <1>9, <2>1, <2>3, <3>2
  <2>5. CASE DueNow
    <3>1. PICK e \in Event : One(e) /\ e.sim_time = now
      BY <1>1, <2>5 DEF DueNow, One
    <3>2. list_' = <<e, n>>
      <4>1. list_' = Append(<<e>>, n)
        BY <2>2, <2>5, <3>1 DEF Kept, One
      <4>2. Append(<<e>>, n) = <<e, n>>
        BY <2>1, AppendSecond
      <4> QED BY <4>1, <4>2
    <3>3. wakeups[now] >= 1 /\ now \in Times
      BY <3>1 DEF One, Event
    <3>4. /\ wakeups'[now] >= 1
          /\ now + u = now => wakeups'[now] >= 2
      BY <1>2, <1>3, <2>2, <3>3
    <3>5. Two(e, n)'
      BY <1>1, <1>2, <1>3, <2>1, <2>3, <2>5, <3>1, <3>2, <3>4 DEF Two
    <3> QED BY <1>3, <1>8, <1>9, <2>1, <2>3, <3>5
  <2> QED BY <2>4, <2>5
<1> QED
  BY <1>5, <1>6, <1>7, <1>8, RecvCases

\* run_run sends the event that is due, and leaves a wakeup for the other.
LEMMA RunInOrder ==
  ASSUME DelayAssumption, ListInv, run_run
  PROVE  ListInv'
<1>1. /\ now' = now /\ in' = in /\ changes' = changes /\ wakeups[now] > 0
      /\ wakeups' = [wakeups EXCEPT ![now] = @ - 1]
      /\ now \in 0 .. MaxTime /\ changes \in Nat /\ initial_ \in BOOLEAN
      /\ cur \in NetValue /\ in \in NetValue /\ wakeups \in [Times -> Nat] /\ now \in Times
  <2>1. Max(Delays) \in Nat /\ now \in 0 .. MaxTime /\ MaxTime \in Nat
    BY LongestDelay DEF DelayAssumption, ListInv
  <2>2. now \in Times
    BY <2>1 DEF Times
  <2> QED BY <2>2 DEF ListInv, run_run
<1>2. wakeups' \in [Times -> Nat] /\ \A t \in Times : t # now => wakeups'[t] = wakeups[t]
  BY <1>1
<1>3. CASE list_ = <<>>
  <2>1. cur' = cur /\ initial_' = initial_ /\ list_' = <<>>
    BY <1>3 DEF run_run
  <2> QED BY <1>1, <1>2, <2>1 DEF ListInv
<1>4. ASSUME NEW e \in Event, One(e)
      PROVE  ListInv'
  <2>1. list_ = <<e>> /\ e.sim_time >= now /\ e.sim_time \in Times /\ e.value \in NetValue
    BY <1>4 DEF One, Event, NetValue
  <2>2. CASE e.sim_time > now
    <3>1. cur' = cur /\ initial_' = initial_ /\ list_' = list_
      BY <2>1, <2>2 DEF run_run
    <3>2. One(e)'
      BY <1>1, <1>2, <1>4, <2>1, <2>2, <3>1 DEF One, Times
    <3> QED BY <1>1, <1>2, <3>1, <3>2 DEF ListInv
  <2>3. CASE e.sim_time = now
    <3>1. cur' = e.value /\ initial_' = FALSE /\ list_' = <<>>
      BY <1>1, <2>1, <2>3 DEF run_run
    <3> QED BY <1>1, <1>2, <2>1, <3>1 DEF ListInv
  <2> QED BY <1>1, <2>1, <2>2, <2>3 DEF Times
<1>5. ASSUME NEW e \in Event, NEW f \in Event, Two(e, f)
      PROVE  ListInv'
  <2>1. /\ list_ = <<e, f>> /\ e.sim_time = now /\ f.sim_time >= now /\ f.sim_time \in Times
        /\ e.value \in NetValue
    BY <1>5 DEF Two, Event, NetValue
  <2>2. cur' = e.value /\ initial_' = FALSE /\ list_' = <<f>>
    BY <1>1, <2>1 DEF run_run
  <2>3. wakeups'[f.sim_time] >= 1
    BY <1>1, <1>2, <1>5, <2>1 DEF Two
  <2>4. One(f)'
    BY <1>1, <2>1, <2>2, <2>3 DEF One
  <2> QED BY <1>1, <1>2, <2>1, <2>2, <2>4 DEF ListInv
<1> QED
  BY <1>3, <1>4, <1>5 DEF ListInv

\* Time advances past no event.
LEMMA AdvanceInOrder ==
  ASSUME DelayAssumption, ListInv, Advance
  PROVE  ListInv' /\ (list_ = <<>> \/ \E e \in Event : One(e))
<1>1. /\ now' = now + 1 /\ changes' = 0 /\ in' = in /\ cur' = cur /\ initial_' = initial_
      /\ list_' = list_ /\ wakeups' = wakeups /\ wakeups[now] = 0
      /\ now \in 0 .. MaxTime /\ now + 1 \in 0 .. MaxTime
      /\ initial_ \in BOOLEAN /\ cur \in NetValue /\ in \in NetValue /\ wakeups \in [Times -> Nat]
  <2>1. now \in 0 .. MaxTime /\ MaxTime \in Nat /\ now < MaxTime
    BY DEF Advance, ListInv, DelayAssumption
  <2>2. now + 1 \in 0 .. MaxTime
    BY <2>1
  <2> QED BY <2>1, <2>2 DEF Advance, ListInv
<1>2. ASSUME NEW e \in Event, One(e)
      PROVE  ListInv'
  <2>1. One(e)'
    BY <1>1, <1>2 DEF One, Event, Times
  <2> QED BY <1>1, <2>1 DEF ListInv
<1>3. ASSUME NEW e \in Event, NEW f \in Event, Two(e, f)
      PROVE  FALSE
  BY <1>1, <1>3 DEF Two
<1>4. CASE list_ = <<>>
  BY <1>1, <1>4 DEF ListInv
<1> QED
  BY <1>2, <1>3, <1>4 DEF ListInv

\* Every step leaves at most an event that is due and the one after it.
LEMMA StepInOrder ==
  ASSUME DelayAssumption, Orderly, DelayInv, ListInv, [DelayNext]_delayVars
  PROVE  ListInv'
<1>1. ASSUME NEW bit \in NetInputs, recv(bit) PROVE ListInv'
  BY <1>1, RecvInOrder
<1>2. CASE UNCHANGED <<now, in, cur, initial_, list_, wakeups, changes>>
  BY <1>2 DEF ListInv, One, Two
<1>3. ASSUME NEW port \in {"rise", "fall", "decay"}, NEW val \in Delays, SetDelay(port, val)
      PROVE  ListInv'
  BY <1>2, <1>3 DEF SetDelay
<1>4. CASE UNCHANGED delayVars
  BY <1>2, <1>4 DEF delayVars
<1> QED
  BY <1>1, <1>3, <1>4, RunInOrder, AdvanceInOrder DEF DelayNext

\* At the start nothing is pending.
LEMMA StartInOrder ==
  ASSUME DelayAssumption, DelayInit
  PROVE  ListInv /\ FollowsInput
<1>1. /\ now = 0 /\ changes = 0 /\ initial_ = TRUE /\ list_ = <<>>
      /\ cur = Initially /\ in = cur /\ wakeups = [t \in Times |-> 0]
  BY DEF DelayInit, Times
<1>2. MaxTime \in Nat
  BY DEF DelayAssumption
<1>3. cur \in NetValue /\ in \in NetValue
  BY <1>1 DEF NetValue
<1>4. FollowsInput
  BY <1>1 DEF FollowsInput
<1> QED
  BY <1>1, <1>2, <1>3, <1>4 DEF ListInv

\* The order holds in every state.
LEMMA AlwaysInOrder ==
  ASSUME DelayAssumption, Orderly
  PROVE  DelaySpec => [](DelayInv /\ ListInv)
<1> DEFINE Inv == DelayInv /\ ListInv
<1>1. DelayInit => Inv
  BY StartsLeast, StartInOrder
<1>2. Inv /\ [DelayNext]_delayVars => Inv'
  BY StaysLeast, StepInOrder
<1> QED
  BY <1>1, <1>2, PTL DEF DelaySpec

\* vvp_fun_delay: the values, times and delays stay within their ranges, the
\* times of the pending events among those that can have a wakeup.
THEOREM DelayTypes ==
  ASSUME DelayAssumption, Orderly
  PROVE  DelaySpec => []DelayTypeOK
<1> DEFINE Bounded == changes \in 0 .. MaxChanges
<1>0. MaxChanges \in Nat
  BY DEF DelayAssumption
<1>1. DelayInit => Bounded
  <2>1. DelayInit => changes = 0
    BY DEF DelayInit
  <2> QED BY <1>0, <2>1
<1>2. Bounded /\ [DelayNext]_delayVars => Bounded'
  <2>1. [DelayNext]_delayVars => \/ changes < MaxChanges /\ changes' = changes + 1
                                \/ changes' = 0 \/ changes' = changes
    BY DEF DelayNext, recv, SetDelay, run_run, Advance, delayVars
  <2> QED BY <1>0, <2>1
<1>3. DelayInv /\ ListInv /\ Bounded => DelayTypeOK
  <2> SUFFICES ASSUME DelayInv, ListInv, Bounded PROVE DelayTypeOK
    OBVIOUS
  <2>1. list_ \in Seq(Event)
    <3>1. ASSUME NEW e \in Event PROVE <<e>> \in Seq(Event)
      OBVIOUS
    <3>2. ASSUME NEW e \in Event, NEW f \in Event PROVE <<e, f>> \in Seq(Event)
      OBVIOUS
    <3> QED BY <3>1, <3>2, EmptySeq DEF ListInv, One, Two
  <2>2. DOMAIN wakeups = Times /\ \A t \in DOMAIN wakeups : wakeups[t] \in Nat
    BY DEF ListInv
  <2>3. list_ \in Seq([sim_time : DOMAIN wakeups, value : NetInputs])
    BY <2>1, <2>2 DEF Event
  <2>4. delay_ \in [rise : Delays, fall : Delays, decay : Delays,
                    min : Delays, ignore : BOOLEAN]
    BY DEF DelayInv, DelayType
  <2> QED BY <2>2, <2>3, <2>4 DEF DelayTypeOK, ListInv, NetValue
<1> QED
  BY <1>1, <1>2, <1>3, AlwaysInOrder, PTL DEF DelaySpec

-----------------------------------------------------------------------------
(* No event is left behind. *)

\* Of two events at most two are for one time.
LEMMA CountOfTwo ==
  ASSUME NEW T, T \subseteq {1, 2}
  PROVE  /\ Cardinality(T) \in 0 .. 2
         /\ T = {} => Cardinality(T) = 0
         /\ 1 \notin T \/ 2 \notin T => Cardinality(T) <= 1
<1>1. IsFiniteSet({1, 2}) /\ Cardinality({1, 2}) = 2
  <2>1. IsFiniteSet({1}) /\ Cardinality({1}) = 1
    BY FS_Singleton
  <2>2. IsFiniteSet({1} \cup {2}) /\ Cardinality({1} \cup {2}) = 2
    BY <2>1, FS_AddElement
  <2>3. {1} \cup {2} = {1, 2}
    OBVIOUS
  <2> QED BY <2>2, <2>3
<1>2. IsFiniteSet(T) /\ Cardinality(T) <= 2 /\ Cardinality(T) \in Nat
  BY <1>1, FS_Subset, FS_CardinalityType
<1>3. Cardinality({}) = 0 /\ Cardinality({1}) = 1 /\ Cardinality({2}) = 1
  BY FS_EmptySet, FS_Singleton
<1>4. CASE 1 \notin T \/ 2 \notin T
  <2>1. T = {} \/ T = {1} \/ T = {2}
    BY <1>4
  <2>2. CASE T = {}
    BY <1>3, <2>2
  <2>3. CASE T = {1}
    BY <1>3, <2>3
  <2>4. CASE T = {2}
    BY <1>3, <2>4
  <2> QED BY <2>1, <2>2, <2>3, <2>4
<1>5. CASE 1 \in T /\ 2 \in T
  BY <1>2, <1>5
<1> QED
  BY <1>4, <1>5

\* The wakeups are enough for the events in order.
LEMMA WakeupsSuffice ==
  ASSUME DelayAssumption, ListInv
  PROVE  SentOnTime
<1> DEFINE At(t) == {i \in DOMAIN list_ : list_[i].sim_time = t}
<1>1. wakeups \in [Times -> Nat] /\ now \in Int /\ DOMAIN wakeups = Times
  BY DEF ListInv
<1>2. CASE list_ = <<>>
  <2>1. DOMAIN list_ = {}
    BY <1>2
  <2>2. \A t \in Times : At(t) = {} /\ Cardinality(At(t)) = 0
    BY <2>1, FS_EmptySet
  <2> QED BY <1>1, <2>1, <2>2 DEF SentOnTime
<1>3. ASSUME NEW e \in Event, One(e) PROVE SentOnTime
  <2>1. DOMAIN list_ = {1} /\ list_[1] = e /\ e.sim_time >= now /\ wakeups[e.sim_time] >= 1
    BY <1>3 DEF One
  <2>2. ASSUME NEW t \in Times PROVE Cardinality(At(t)) <= wakeups[t]
    <3>1. At(t) \subseteq {1, 2} /\ 2 \notin At(t) /\ (t # e.sim_time => At(t) = {})
      BY <2>1
    <3>2. wakeups[t] \in Nat
      BY <1>1
    <3> HIDE DEF At
    <3>3. CASE t = e.sim_time
      BY <2>1, <3>1, <3>2, <3>3, CountOfTwo
    <3>4. CASE t # e.sim_time
      BY <3>1, <3>2, <3>4, CountOfTwo
    <3> QED BY <3>3, <3>4
  <2> QED BY <1>1, <2>1, <2>2 DEF SentOnTime
<1>4. ASSUME NEW e \in Event, NEW f \in Event, Two(e, f) PROVE SentOnTime
  <2>1. /\ DOMAIN list_ = {1, 2} /\ list_[1] = e /\ list_[2] = f
        /\ e.sim_time = now /\ f.sim_time >= now
        /\ wakeups[now] >= 1 /\ wakeups[f.sim_time] >= 1
        /\ f.sim_time = now => wakeups[now] >= 2
    BY <1>4 DEF Two
  <2>2. ASSUME NEW t \in Times PROVE Cardinality(At(t)) <= wakeups[t]
    <3>1. At(t) \subseteq {1, 2} /\ (1 \in At(t) <=> t = now) /\ (2 \in At(t) <=> t = f.sim_time)
      BY <2>1
    <3>2. wakeups[t] \in Nat
      BY <1>1
    <3> HIDE DEF At
    <3>3. CASE t # now /\ t # f.sim_time
      <4>1. At(t) = {}
        BY <3>1, <3>3
      <4> QED BY <3>1, <3>2, <4>1, CountOfTwo
    <3>4. CASE t = now /\ t = f.sim_time
      BY <2>1, <3>1, <3>2, <3>4, CountOfTwo
    <3>5. CASE (t = now /\ t # f.sim_time) \/ (t # now /\ t = f.sim_time)
      BY <2>1, <3>1, <3>2, <3>5, CountOfTwo
    <3> QED BY <3>3, <3>4, <3>5
  <2> QED BY <1>1, <2>1, <2>2 DEF SentOnTime
<1> QED
  BY <1>2, <1>3, <1>4 DEF ListInv

\* enqueue_ and schedule_generic: no event is left behind by the wakeups, each
\* of which may be spent on another event or on none.
THEOREM NoEventLeftBehind ==
  ASSUME DelayAssumption, Orderly
  PROVE  DelaySpec => []SentOnTime
<1>1. DelayInv /\ ListInv => SentOnTime
  BY WakeupsSuffice
<1> QED
  BY <1>1, AlwaysInOrder, PTL

-----------------------------------------------------------------------------
(* What is received is sent. *)

\* What is pending ends with what was received, for lists of each length.
LEMMA LastIsInput ==
  /\ list_ = <<>> => (FollowsInput <=> in = cur)
  /\ \A e : list_ = <<e>> => (FollowsInput <=> in = e.value)
  /\ \A e, f : list_ = <<e, f>> => (FollowsInput <=> in = f.value)
  BY DEF FollowsInput

\* The same after a step.
LEMMA LastIsInputAfter ==
  /\ list_' = <<>> => (FollowsInput' <=> in' = cur')
  /\ \A e : list_' = <<e>> => (FollowsInput' <=> in' = e.value)
  /\ \A e, f : list_' = <<e, f>> => (FollowsInput' <=> in' = f.value)
  BY DEF FollowsInput

\* run_run: the event that is due is sent, and the one behind it waits.
LEMMA RunCases ==
  ASSUME ListInv, run_run
  PROVE  /\ in' = in /\ now' = now /\ delay_' = delay_ /\ history' = history
         /\ \/ cur' = cur /\ list_' = list_
            \/ \E e \in Event : /\ list_ = <<e>> /\ e.sim_time = now
                                 /\ cur' = e.value /\ list_' = <<>>
            \/ \E e \in Event, f \in Event : /\ list_ = <<e, f>>
                                              /\ cur' = e.value /\ list_' = <<f>>
<1>1. in' = in /\ now' = now /\ delay_' = delay_ /\ history' = history /\ now \in Int
  BY DEF run_run, ListInv
<1>2. CASE list_ = <<>>
  BY <1>1, <1>2 DEF run_run
<1>3. ASSUME NEW e \in Event, One(e)
      PROVE  \/ cur' = cur /\ list_' = list_
             \/ list_ = <<e>> /\ e.sim_time = now /\ cur' = e.value /\ list_' = <<>>
  <2>1. list_ = <<e>> /\ e.sim_time >= now /\ e.sim_time \in Int
    BY <1>3 DEF One, Event, Times
  <2>2. CASE e.sim_time > now
    BY <2>1, <2>2 DEF run_run
  <2>3. CASE e.sim_time = now
    BY <1>1, <2>1, <2>3 DEF run_run
  <2> QED BY <1>1, <2>1, <2>2, <2>3
<1>4. ASSUME NEW e \in Event, NEW f \in Event, Two(e, f)
      PROVE  list_ = <<e, f>> /\ cur' = e.value /\ list_' = <<f>>
  <2>1. list_ = <<e, f>> /\ e.sim_time = now
    BY <1>4 DEF Two
  <2> QED BY <1>1, <2>1 DEF run_run
<1> QED
  BY <1>1, <1>2, <1>3, <1>4 DEF ListInv

\* An event appended to what is kept.
LEMMA AppendKept ==
  ASSUME ListInv, list_ = <<>> \/ \E e \in Event : One(e), NEW n \in Event
  PROVE  \/ ~DueNow /\ Append(Kept, n) = <<n>>
         \/ \E e \in Event : /\ DueNow /\ list_ = <<e>> /\ e.sim_time = now
                              /\ Append(Kept, n) = <<e, n>>
<1>1. CASE ~DueNow
  BY <1>1 DEF Kept
<1>2. CASE DueNow
  <2>1. PICK e \in Event : list_ = <<e>> /\ e.sim_time = now
    BY <1>2 DEF DueNow, One
  <2> QED BY <1>2, <2>1, AppendSecond DEF Kept
<1> QED
  BY <1>1, <1>2

\* The event for a new value.
LEMMA NewType ==
  ASSUME DelayAssumption, DelayInv, Orderly, ListInv, NEW bit \in NetInputs, recv(bit)
  PROVE  /\ New(bit) \in Event
         /\ New(bit).sim_time = now + UseDelay(bit) /\ New(bit).value = bit
  BY UseDelayType DEF New, Event

\* What will be sent last is what was received last, after every step.
LEMMA StepFollows ==
  ASSUME DelayAssumption, Faithful, DelayInv, ListInv, FollowsInput, [DelayNext]_delayVars
  PROVE  FollowsInput'
<1>0. Orderly
  BY DEF Faithful, Orderly
<1>1. ASSUME NEW bit \in NetInputs, recv(bit)
      PROVE  FollowsInput'
  <2>1. list_ = <<>> \/ \E e \in Event : One(e)
    BY <1>0, <1>1, AtMostOne
  <2>2. in' = bit /\ New(bit) \in Event /\ New(bit).value = bit
    BY <1>0, <1>1, RecvCases, NewType
  <2>3. CASE list_ # <<>> /\ list_[1].value = bit /\ list_' = list_
    <3>1. PICK e \in Event : list_ = <<e>>
      BY <2>1, <2>3 DEF One
    <3> QED BY <2>2, <2>3, <3>1, LastIsInputAfter
  <2>4. CASE Kind = "real" /\ cur = bit /\ list_' = Kept /\ cur' = cur
    <3>1. ~DueNow
      BY <1>0, <1>1, <2>4, AtMostOne DEF Faithful
    <3> QED BY <2>2, <2>4, <3>1, LastIsInputAfter DEF Kept
  <2>5. CASE list_' = <<>> /\ cur' = bit
    BY <2>2, <2>5, LastIsInputAfter
  <2>6. CASE list_' = Append(Kept, New(bit))
    <3>1. list_' = <<New(bit)>> \/ \E e \in Event : list_' = <<e, New(bit)>>
      BY <2>1, <2>2, <2>6, AppendKept
    <3> QED BY <2>2, <3>1, LastIsInputAfter
  <2> QED BY <1>0, <1>1, <2>3, <2>4, <2>5, <2>6, RecvCases
<1>2. CASE run_run
  <2>1. in' = in
    BY <1>2, RunCases
  <2>2. CASE cur' = cur /\ list_' = list_
    BY <2>1, <2>2 DEF FollowsInput
  <2>3. ASSUME NEW e \in Event, list_ = <<e>>, cur' = e.value, list_' = <<>>
        PROVE  FollowsInput'
    BY <2>1, <2>3, LastIsInput, LastIsInputAfter
  <2>4. ASSUME NEW e \in Event, NEW f \in Event, list_ = <<e, f>>, list_' = <<f>>
        PROVE  FollowsInput'
    BY <2>1, <2>4, LastIsInput, LastIsInputAfter
  <2> QED BY <1>2, <2>2, <2>3, <2>4, RunCases
<1>3. CASE UNCHANGED <<in, cur, list_>>
  BY <1>3 DEF FollowsInput
<1> QED
  BY <1>1, <1>2, <1>3 DEF DelayNext, delayVars, SetDelay, Advance

\* recv_vec4 and run_run: what the delay will send last is what it received
\* last, however inputs, swallowed pulses and wakeups interleave.
THEOREM InputIsFollowed ==
  ASSUME DelayAssumption, Faithful
  PROVE  DelaySpec => []FollowsInput
<1> DEFINE Inv == DelayInv /\ ListInv /\ FollowsInput
<1>0. Orderly
  BY DEF Faithful, Orderly
<1>1. DelayInit => Inv
  BY StartsLeast, StartInOrder
<1>2. Inv /\ [DelayNext]_delayVars => Inv'
  BY <1>0, StaysLeast, StepInOrder, StepFollows
<1> QED
  BY <1>1, <1>2, PTL DEF DelaySpec

\* vvp_fun_delay and vvp_delay_t together: every change arrives, the last one
\* last, whether the delays are fixed, change while something waits, or delay
\* reals.
THEOREM EveryInputArrives ==
  ASSUME DelayAssumption, Faithful
  PROVE  DelaySpec => []InputArrives
<1>1. Orderly
  BY DEF Faithful, Orderly
<1>2. FollowsInput /\ SentOnTime /\ LeastDelay => InputArrives
  BY DEF InputArrives
<1> QED
  BY <1>1, <1>2, InputIsFollowed, NoEventLeftBehind, LeastDelayIsKept, PTL

-----------------------------------------------------------------------------
(* What is sent has held for its delay. *)

\* Delays that do not change, and an input that changes at a due time only once
\* and after something has been sent.
Regular == Kind = "vec4" /\ ~Variable /\ ChangeWhenDue # "always" /\ Orderly

\* The delay of a transition is that under the delays there are.
LEMMA TransitionIsWait ==
  \A from, to : Transition(from, to) = Wait(delay_, from, to)
  BY DEF Transition, Wait

\* recv: an input that is sent at once had no delay, and one that waits has
\* waited since now.
LEMMA RecvWaits ==
  ASSUME DelayAssumption, Regular, DelayInv, ListInv, FollowsInput, WaitInv, HistoryInv,
         NEW bit \in NetInputs, recv(bit)
  PROVE  WaitInv' /\ InertialStep
<1>0. Kind = "vec4" /\ Orderly /\ (DueNow => ~initial_)
  BY DEF Regular, recv
<1>1. list_ = <<>> \/ \E e \in Event : One(e)
  BY <1>0, AtMostOne
<1>2. /\ in' = bit /\ now' = now /\ delay_' = delay_
      /\ New(bit) \in Event /\ New(bit).value = bit
      /\ New(bit).sim_time = now + UseDelay(bit) /\ UseDelay(bit) \in Nat /\ now \in Nat
  <2>1. in' = bit /\ now' = now /\ delay_' = delay_
    BY <1>0, RecvCases
  <2>2. New(bit) \in Event /\ New(bit).value = bit /\ New(bit).sim_time = now + UseDelay(bit)
    BY <1>0, NewType
  <2>3. UseDelay(bit) \in Nat /\ now \in Nat
    BY <1>0, UseDelayType DEF ListInv
  <2> QED BY <2>1, <2>2, <2>3
<1>3. PICK n : n = New(bit)
  OBVIOUS
<1>4. history' = IF bit = in THEN history ELSE [was |-> in, from |-> history.since, since |-> now]
  BY DEF recv
<1>5. CASE list_ # <<>> /\ list_[1].value = bit /\ list_' = list_ /\ cur' = cur
  <2>1. PICK e \in Event : list_ = <<e>> /\ e.value = bit
    BY <1>1, <1>5 DEF One
  <2>2. history' = history
    BY <1>4, <2>1, LastIsInput
  <2>3. WaitInv'
    BY <1>2, <1>5, <2>2 DEF WaitInv
  <2> QED BY <1>5, <2>3 DEF InertialStep
<1>6. ASSUME list_ = <<>> \/ list_[1].value # bit, bit = in
      PROVE  list_ = <<>> /\ bit = cur
  <2>1. CASE list_ = <<>>
    BY <1>6, <2>1, LastIsInput
  <2>2. CASE list_ # <<>>
    <3>1. PICK e \in Event : list_ = <<e>> /\ e.value # bit
      BY <1>1, <1>6, <2>2 DEF One
    <3> QED BY <1>6, <3>1, LastIsInput
  <2> QED BY <2>1, <2>2
<1>7. ~DueNow => UseDelay(bit) = Wait(delay_, cur, bit)
  BY TransitionIsWait DEF UseDelay
<1>8. CASE /\ list_ = <<>> \/ list_[1].value # bit
           /\ UseDelay(bit) = 0 /\ Kept = <<>> /\ list_' = <<>> /\ cur' = bit
  <2>1. WaitInv'
    BY <1>8 DEF WaitInv
  <2>2. ~DueNow
    BY <1>8 DEF Kept, DueNow
  <2>3. CASE bit = in
    BY <1>6, <1>8, <2>1, <2>3 DEF InertialStep
  <2>4. CASE bit # in
    <3>1. history'.since = now
      BY <1>4, <2>4
    <3>2. Transition(cur, bit) = 0
      BY <1>7, <1>8, <2>2, TransitionIsWait
    <3>3. cur \in NetValue /\ bit \in NetValue
      BY DEF ListInv, NetValue
    <3>4. now = now + Transition(cur, bit)
      BY <1>2, <3>2
    <3>5. Waited(now, cur, bit)
      BY <1>0, <1>2, <3>3, <3>4, LongestIsWaited
    <3> QED BY <1>2, <1>8, <2>1, <3>1, <3>5 DEF InertialStep
  <2> QED BY <2>3, <2>4
<1>9. CASE /\ list_ = <<>> \/ list_[1].value # bit
           /\ ~(UseDelay(bit) = 0 /\ Kept = <<>>)
           /\ list_' = Append(Kept, New(bit)) /\ cur' = cur
  <2>1. bit # in
    <3> SUFFICES ASSUME bit = in PROVE FALSE
      OBVIOUS
    <3>1. list_ = <<>> /\ bit = cur
      BY <1>6, <1>9
    <3>2. ~DueNow /\ Kept = <<>>
      BY <3>1 DEF DueNow, Kept
    <3>3. cur \in NetValue
      BY DEF ListInv
    <3>4. Wait(delay_, cur, cur) = 0
      BY <1>0, <3>3, TransitionType, TransitionIsWait
    <3> QED BY <1>7, <1>9, <3>1, <3>2, <3>4
  <2>2. history' = [was |-> in, from |-> history.since, since |-> now]
    BY <1>4, <2>1
  <2>3. InertialStep
    BY <1>9 DEF InertialStep
  <2>4. CASE ~DueNow /\ list_' = <<n>>
    <3>1. n.sim_time = history'.since + Wait(delay_', cur', n.value)
      BY <1>2, <1>3, <1>7, <1>9, <2>2, <2>4
    <3>2. /\ \A e : list_' = <<e>> => e = n
          /\ \A e, f : list_' # <<e, f>>
      BY <2>4
    <3>3. WaitInv'
      BY <3>1, <3>2 DEF WaitInv
    <3> QED BY <2>3, <3>3
  <2>5. ASSUME NEW e \in Event, DueNow, list_ = <<e>>, e.sim_time = now,
               list_' = <<e, n>>
        PROVE  WaitInv'
    <3>1. in = e.value /\ now = history.since + Wait(delay_, cur, e.value)
      BY <2>5, LastIsInput DEF WaitInv
    <3>2. UseDelay(bit) = Wait(delay_, e.value, bit)
      BY <1>0, <2>5, TransitionIsWait DEF UseDelay
    <3>3. /\ e.value = history'.was /\ history'.since = now'
          /\ now' = history'.from + Wait(delay_', cur', e.value)
          /\ n.sim_time = now' + Wait(delay_', e.value, n.value)
      BY <1>2, <1>3, <1>9, <2>2, <3>1, <3>2
    <3>4. /\ \A g : list_' # <<g>>
          /\ \A g, f : list_' = <<g, f>> => g = e /\ f = n
      BY <2>5
    <3> QED BY <3>3, <3>4 DEF WaitInv
  <2> QED BY <1>1, <1>2, <1>3, <1>9, <2>3, <2>4, <2>5, AppendKept
<1> QED
  BY <1>0, <1>5, <1>8, <1>9, RecvCases

\* run_run sends an event that has waited, at its time.
LEMMA RunWaits ==
  ASSUME DelayAssumption, Regular, DelayInv, ListInv, FollowsInput, WaitInv, HistoryInv, run_run
  PROVE  WaitInv' /\ InertialStep
<1>0. /\ Kind = "vec4" /\ cur \in NetValue /\ now \in Nat
      /\ history.since \in Nat /\ history.from \in Nat
      /\ \A e \in Event : e.value \in NetValue
  BY DEF Regular, ListInv, HistoryInv, Event, NetValue
<1>1. in' = in /\ now' = now /\ delay_' = delay_ /\ history' = history
  BY RunCases
<1>2. CASE cur' = cur /\ list_' = list_
  <2>1. WaitInv'
    BY <1>1, <1>2 DEF WaitInv
  <2> QED BY <1>2, <2>1 DEF InertialStep
<1>3. ASSUME NEW e \in Event, list_ = <<e>>, e.sim_time = now, cur' = e.value, list_' = <<>>
      PROVE  WaitInv' /\ InertialStep
  <2>1. WaitInv'
    BY <1>3 DEF WaitInv
  <2>2. in = e.value /\ now = history.since + Wait(delay_, cur, e.value)
    BY <1>3, LastIsInput DEF WaitInv
  <2>3. Waited(history.since, cur, e.value)
    BY <1>0, <2>2, TransitionIsWait, LongestIsWaited
  <2> QED BY <1>1, <1>3, <2>1, <2>2, <2>3 DEF InertialStep
<1>4. ASSUME NEW e \in Event, NEW f \in Event, list_ = <<e, f>>, cur' = e.value, list_' = <<f>>
      PROVE  WaitInv' /\ InertialStep
  <2>1. /\ e.value = history.was /\ history.since = now
        /\ now = history.from + Wait(delay_, cur, e.value)
        /\ f.sim_time = now + Wait(delay_, e.value, f.value)
    BY <1>4 DEF WaitInv
  <2>2. f.sim_time = history'.since + Wait(delay_', cur', f.value)
    BY <1>1, <1>4, <2>1
  <2>3. /\ \A g : list_' = <<g>> => g = f
        /\ \A g, h : list_' # <<g, h>>
    BY <1>4
  <2>4. WaitInv'
    BY <2>2, <2>3 DEF WaitInv
  <2>5. Waited(history.from, cur, e.value)
    BY <1>0, <2>1, TransitionIsWait, LongestIsWaited
  <2> QED BY <1>1, <1>4, <2>1, <2>4, <2>5 DEF InertialStep
<1> QED
  BY <1>2, <1>3, <1>4, RunCases

\* The history holds times after every step.
LEMMA StepHistory ==
  ASSUME ListInv, HistoryInv, [DelayNext]_delayVars
  PROVE  HistoryInv'
<1>1. ASSUME NEW bit, recv(bit) PROVE HistoryInv'
  <2>1. history' = IF bit = in THEN history ELSE [was |-> in, from |-> history.since, since |-> now]
    BY <1>1 DEF recv
  <2>2. now \in Nat
    BY DEF ListInv
  <2> QED BY <2>1, <2>2 DEF HistoryInv
<1>2. CASE UNCHANGED history
  BY <1>2 DEF HistoryInv
<1> QED
  BY <1>1, <1>2 DEF DelayNext, delayVars, SetDelay, run_run, Advance

\* Every step sends only what has waited.
LEMMA StepWaits ==
  ASSUME DelayAssumption, Regular, DelayInv, ListInv, FollowsInput, WaitInv, HistoryInv,
         [DelayNext]_delayVars
  PROVE  WaitInv' /\ [InertialStep]_delayVars
<1>1. ASSUME NEW bit \in NetInputs, recv(bit) PROVE WaitInv' /\ InertialStep
  BY <1>1, RecvWaits
<1>2. CASE run_run
  BY <1>2, RunWaits
<1>3. CASE Advance
  <2>1. list_ = <<>> \/ \E e \in Event : list_ = <<e>>
    BY <1>3, AdvanceInOrder DEF One
  <2>2. \A e, f : list_ # <<e, f>>
    BY <2>1
  <2>3. list_' = list_ /\ cur' = cur /\ delay_' = delay_ /\ history' = history
    BY <1>3 DEF Advance
  <2>4. WaitInv'
    BY <2>2, <2>3 DEF WaitInv
  <2> QED BY <2>3, <2>4 DEF InertialStep
<1>4. ASSUME NEW port, NEW val, SetDelay(port, val) PROVE FALSE
  BY <1>4 DEF SetDelay, Regular
<1>5. CASE UNCHANGED delayVars
  BY <1>5 DEF delayVars, WaitInv
<1> QED
  BY <1>1, <1>2, <1>3, <1>4, <1>5 DEF DelayNext

\* recv_vec4 and clean_pulse_events_: the output takes a vector only when the
\* input has held it for the delay of each bit that changes, and at that very
\* time unless those bits have different delays; a shorter pulse never shows.
THEOREM DelayIsInertial ==
  ASSUME DelayAssumption, Regular
  PROVE  DelaySpec => InertialDelay
<1> DEFINE Inv == DelayInv /\ ListInv /\ FollowsInput /\ WaitInv /\ HistoryInv
<1>0. Orderly /\ Faithful
  BY DEF Regular, Orderly, Faithful
<1>1. DelayInit => Inv
  <2>1. DelayInit => WaitInv
    BY DEF DelayInit, WaitInv
  <2>2. DelayInit => HistoryInv
    BY DEF DelayInit, HistoryInv
  <2> QED BY <2>1, <2>2, StartsLeast, StartInOrder
<1>2. Inv /\ [DelayNext]_delayVars => Inv'
  BY <1>0, StaysLeast, StepInOrder, StepFollows, StepWaits, StepHistory
<1>3. Inv /\ [DelayNext]_delayVars => [InertialStep]_delayVars
  BY StepWaits
<1> QED
  BY <1>1, <1>2, <1>3, PTL DEF DelaySpec, InertialDelay

-----------------------------------------------------------------------------
(* Signals: the two objects. *)

Functor == [bits4 : Vector, needs_init : BOOLEAN, assign_mask : SUBSET Index]
Filter ==
  [bits4 : Vector, needs_init : BOOLEAN, force4 : Vector \cup {None},
   force_mask : SUBSET Index, force_propagate : BOOLEAN]
Objects == [fun : Functor, fil : Filter, out : Vector, told : BOOLEAN]

\* The fan-out has what readers see; a variable's functor and its filter hold
\* the same value, forced or not; a bit is forced only to a value.
Good(s) ==
  /\ s \in Objects
  /\ s.out = Filtered(s.fil)
  /\ s.fil.force4 = None => s.fil.force_mask = {}
  /\ IsNet => s.fun.assign_mask = {}
  /\ ~IsNet => s.fun.bits4 = s.fil.bits4

\* An operation takes s to t, where readers see seen and mask is forced: the
\* callbacks have heard of any change, and what was told stays told.
Moves(s, t, seen, mask) ==
  /\ Good(t)
  /\ Filtered(t.fil) = seen /\ t.fil.force_mask = mask
  /\ t.told = TRUE \/ seen = Filtered(s.fil)
  /\ s.told = TRUE => t.told = TRUE

\* A net has no assign to follow.
SignalInv == Good(State) /\ source \in Vector /\ (IsNet => ~cassign_link)

PromiseInv ==
  /\ value = Filtered(fil) /\ forced = fil.force_mask /\ assigned = fun.assign_mask
  /\ IsNet => driven = fil.bits4

-----------------------------------------------------------------------------
(* Vectors. *)

\* Some bits replaced, or masked by a force, a vector is a vector.
LEMMA OverType ==
  ASSUME NEW f \in Vector, NEW g \in Vector, NEW part
  PROVE  Over(f, part, g) \in Vector
  BY DEF Over, Vector

\* What readers see is a vector.
LEMMA FilteredType ==
  ASSUME NEW f \in Filter, f.force4 = None => f.force_mask = {}
  PROVE  Filtered(f) \in Vector
<1>1. f.bits4 \in Vector /\ (f.force4 \in Vector \/ f.force_mask = {})
  BY DEF Filter
<1> QED
  BY <1>1 DEF Filtered, Vector

\* Vectors with the same bits are equal.
LEMMA SameBits ==
  ASSUME NEW f \in Vector, NEW g \in Vector, \A i \in Index : f[i] = g[i]
  PROVE  f = g
  BY DEF Vector

-----------------------------------------------------------------------------
(* The filter. *)

\* t is s after val was sent to part: the driven value is kept, and it is passed
\* on unless it is no change or a force hides all of it.
Sent(s, part, val, t) ==
  /\ t \in Objects /\ t.fun = s.fun
  /\ t.fil.bits4 = Over(s.fil.bits4, part, val)
  /\ t.fil.force4 = s.fil.force4 /\ t.fil.force_mask = s.fil.force_mask
  /\ s.told = TRUE => t.told = TRUE
  /\ \/ t = s /\ ~s.fil.needs_init /\ \A i \in part : s.fil.bits4[i] = val[i]
     \/ t.told = TRUE /\ t.out = Over(s.out, part, Filtered(t.fil))
     \/ t.out = s.out /\ part \subseteq s.fil.force_mask /\ s.fil.force_mask # {}

\* filter_vec4 and filter_mask_ send so.
LEMMA SendEffect ==
  ASSUME NEW s \in Objects, NEW part \in SUBSET Index, NEW val \in Vector,
         s.fil.force4 = None => s.fil.force_mask = {}
  PROVE  Sent(s, part, val, Send(s, part, val))
<1> SUFFICES ASSUME NEW t, t = Send(s, part, val)
             PROVE  Sent(s, part, val, t)
  OBVIOUS
<1>1. CASE ~s.fil.needs_init /\ \A i \in part : s.fil.bits4[i] = val[i]
  <2>1. t = s
    BY <1>1 DEF Send
  <2>2. s.fil.bits4 \in Vector
    BY DEF Objects, Filter
  <2>3. Over(s.fil.bits4, part, val) \in Vector
    BY <2>2, OverType
  <2>4. \A i \in Index : Over(s.fil.bits4, part, val)[i] = s.fil.bits4[i]
    BY <1>1 DEF Over
  <2>5. Over(s.fil.bits4, part, val) = s.fil.bits4
    BY <2>2, <2>3, <2>4, SameBits
  <2> QED BY <1>1, <2>1, <2>5 DEF Sent
<1>2. CASE ~(~s.fil.needs_init /\ \A i \in part : s.fil.bits4[i] = val[i])
  <2> DEFINE r == [s EXCEPT !.fil.bits4 = Over(@, part, val), !.fil.needs_init = FALSE]
  <2>1. t = filter_mask_(r, part)
    BY <1>2 DEF Send
  <2>2. /\ r.fun = s.fun /\ r.out = s.out /\ r.told = s.told
        /\ r.fil.bits4 = Over(s.fil.bits4, part, val)
        /\ r.fil.force4 = s.fil.force4 /\ r.fil.force_mask = s.fil.force_mask
        /\ r.fil.force_propagate = s.fil.force_propagate
    BY DEF Objects, Filter
  <2>3. r \in Objects
    <3>1. Over(s.fil.bits4, part, val) \in Vector
      BY OverType DEF Objects, Filter
    <3> QED BY <3>1 DEF Objects, Filter
  <2> HIDE DEF r
  <2>4. CASE r.fil.force_mask = {} \/ r.fil.force_propagate \/ part \ r.fil.force_mask # {}
    <3>1. t = [r EXCEPT !.out = Over(r.out, part, Filtered(r.fil)), !.told = TRUE,
                        !.fil.force_propagate = r.fil.force_propagate
                                                /\ r.fil.force_mask = {}]
      BY <2>1, <2>4 DEF filter_mask_
    <3>2. /\ t.fun = r.fun /\ t.told = TRUE /\ t.out = Over(r.out, part, Filtered(r.fil))
          /\ t.fil.bits4 = r.fil.bits4 /\ t.fil.force4 = r.fil.force4
          /\ t.fil.force_mask = r.fil.force_mask
      BY <2>3, <3>1 DEF Objects, Filter
    <3>3. Filtered(t.fil) = Filtered(r.fil)
      BY <3>2 DEF Filtered
    <3>4. Filtered(r.fil) \in Vector
      BY <2>2, <2>3, FilteredType DEF Objects
    <3>5. Over(r.out, part, Filtered(r.fil)) \in Vector
      BY <2>3, <3>4, OverType DEF Objects
    <3>6. t \in Objects
      <4>1. t.fil = [r.fil EXCEPT !.force_propagate = r.fil.force_propagate
                                                      /\ r.fil.force_mask = {}]
        BY <2>3, <3>1 DEF Objects
      <4>2. t.fil \in Filter
        BY <2>3, <4>1 DEF Objects, Filter
      <4>3. t = [r EXCEPT !.out = t.out, !.told = TRUE, !.fil = t.fil]
        BY <2>3, <3>1, <3>2, <4>1 DEF Objects
      <4> QED BY <2>3, <3>2, <3>5, <4>2, <4>3 DEF Objects
    <3> QED BY <2>2, <3>2, <3>3, <3>6 DEF Sent
  <2>5. CASE ~(r.fil.force_mask = {} \/ r.fil.force_propagate \/ part \ r.fil.force_mask # {})
    <3>1. t = r
      BY <2>1, <2>5 DEF filter_mask_
    <3> QED BY <2>2, <2>3, <2>5, <3>1 DEF Sent
  <2> QED BY <2>4, <2>5
<1> QED
  BY <1>1, <1>2

\* Readers see val on part where no force is; the fan-out and the callbacks
\* have heard of it.
Arrives(s, part, val, t) ==
  /\ t.out = Filtered(t.fil)
  /\ Filtered(t.fil) = Over(Filtered(s.fil), part \ s.fil.force_mask, val)
  /\ t.told = TRUE \/ Filtered(t.fil) = Filtered(s.fil)

\* A new driven value arrives.
LEMMA SendGood ==
  ASSUME NEW s \in Objects, NEW part \in SUBSET Index, NEW val \in Vector,
         s.out = Filtered(s.fil), s.fil.force4 = None => s.fil.force_mask = {}
  PROVE  Arrives(s, part, val, Send(s, part, val))
<1> SUFFICES ASSUME NEW t, t = Send(s, part, val)
             PROVE  Arrives(s, part, val, t)
  OBVIOUS
<1> USE DEF Arrives
<1> DEFINE new == Over(Filtered(s.fil), part \ s.fil.force_mask, val)
<1>0. Sent(s, part, val, t)
  <2>1. Sent(s, part, val, Send(s, part, val))
    BY SendEffect
  <2> QED BY <2>1
<1>1. Filtered(s.fil) \in Vector /\ Filtered(t.fil) \in Vector
  BY <1>0, FilteredType DEF Objects, Sent
<1>2. new \in Vector
  BY <1>1, OverType
<1>3. Filtered(t.fil) = new
  <2>1. \A i \in Index : Filtered(t.fil)[i] = new[i]
    BY <1>0 DEF Filtered, Over, Sent
  <2> QED BY <1>1, <1>2, <2>1, SameBits
<1>4. t.out \in Vector
  BY <1>0 DEF Objects, Sent
<1> HIDE DEF new
<1>5. CASE t = s
  BY <1>3, <1>5 DEF new
<1>6. CASE t.told = TRUE /\ t.out = Over(s.out, part, Filtered(t.fil))
  <2>1. \A i \in Index : t.out[i] = Filtered(t.fil)[i]
    BY <1>3, <1>6 DEF Over, new
  <2> QED BY <1>1, <1>3, <1>4, <1>6, <2>1, SameBits DEF new
<1>7. CASE t.out = s.out /\ part \subseteq s.fil.force_mask
  <2>1. \A i \in Index : new[i] = Filtered(s.fil)[i]
    BY <1>7 DEF Over, new
  <2>2. new = Filtered(s.fil)
    BY <1>1, <1>2, <2>1, SameBits
  <2> QED BY <1>3, <1>7, <2>2 DEF new
<1> QED
  BY <1>0, <1>5, <1>6, <1>7 DEF Sent

\* force_vec4: readers see the forced value and keep the rest.
LEMMA ForceGood ==
  ASSUME NEW s, Good(s), NEW part \in SUBSET Index, part # {}, NEW val \in Vector,
         \A i \in Index \ part : val[i] = Filtered(s.fil)[i]
  PROVE  /\ Moves(s, force_vec4(s, part, val), val, s.fil.force_mask \cup part)
         /\ force_vec4(s, part, val).fun = s.fun
         /\ force_vec4(s, part, val).fil.bits4 = s.fil.bits4
<1> DEFINE t == force_vec4(s, part, val)
<1> DEFINE f == IF s.fil.force4 = None THEN val ELSE Over(s.fil.force4, part, val)
<1>1. s \in Objects
  BY DEF Good
<1>2. f \in Vector
  BY <1>1, OverType DEF Objects, Filter
<1> DEFINE fil_ == [s.fil EXCEPT !.force_mask = s.fil.force_mask \cup part,
                                 !.force_propagate = TRUE, !.force4 = f]
<1>3. t = [s EXCEPT !.fil = fil_, !.out = val, !.told = TRUE]
  BY <1>1 DEF force_vec4, Objects, Filter
<1> HIDE DEF f
<1>4. /\ t.fun = s.fun /\ t.told = TRUE /\ t.out = val
      /\ t.fil.force_mask = s.fil.force_mask \cup part /\ t.fil.force4 = f
      /\ t.fil.bits4 = s.fil.bits4
  <2>1. t.fil = fil_ /\ t.fun = s.fun /\ t.told = TRUE /\ t.out = val
    BY <1>1, <1>3 DEF Objects
  <2>2. s.fil \in Filter
    BY <1>1 DEF Objects
  <2> QED BY <2>1, <2>2 DEF Filter
<1>5. t \in Objects
  <2>1. fil_ \in Filter
    BY <1>1, <1>2 DEF Objects, Filter
  <2> QED BY <1>1, <1>3, <2>1 DEF Objects
<1>6. Index # {} /\ None \notin Vector
  BY DEF None, Vector
<1>7. Filtered(t.fil) = val
  <2>1. Filtered(t.fil) \in Vector
    BY <1>2, <1>4, <1>5, <1>6, FilteredType DEF Objects
  <2>2. \A i \in Index : Filtered(t.fil)[i] = val[i]
    BY <1>4 DEF f, Filtered, Over, Good
  <2> QED BY <2>1, <2>2, SameBits
<1>8. Good(t)
  BY <1>2, <1>4, <1>5, <1>6, <1>7 DEF Good
<1> HIDE DEF t
<1>9. Moves(s, t, val, s.fil.force_mask \cup part)
  BY <1>4, <1>7, <1>8 DEF Moves
<1> QED
  BY <1>4, <1>9 DEF t

-----------------------------------------------------------------------------
(* The functor of a variable. *)

\* A variable's functor takes a value and sends all of it.
LEMMA FunctorSends ==
  ASSUME NEW s, Good(s), ~IsNet, NEW g \in Functor, NEW r, r = [s EXCEPT !.fun = g]
  PROVE  /\ Moves(s, Send(r, Index, g.bits4),
                  Over(Filtered(s.fil), Index \ s.fil.force_mask, g.bits4), s.fil.force_mask)
         /\ Send(r, Index, g.bits4).fun = g
<1> DEFINE t == Send(r, Index, g.bits4)
<1>1. s \in Objects
  BY DEF Good
<1>2. /\ r \in Objects /\ r.fun = g /\ r.fil = s.fil /\ r.out = s.out /\ r.told = s.told
      /\ g.bits4 \in Vector
  BY <1>1 DEF Objects, Functor
<1>3. r.out = Filtered(r.fil) /\ (r.fil.force4 = None => r.fil.force_mask = {})
  BY <1>2 DEF Good
<1>4. Sent(r, Index, g.bits4, t)
  BY <1>2, <1>3, SendEffect
<1>5. Arrives(r, Index, g.bits4, t)
  BY <1>2, <1>3, SendGood
<1> HIDE DEF t
<1>6. t.fil.bits4 = g.bits4
  <2>1. Over(r.fil.bits4, Index, g.bits4) = g.bits4
    BY <1>2 DEF Over, Vector
  <2> QED BY <1>4, <2>1 DEF Sent
<1>7. Good(t)
  BY <1>2, <1>3, <1>4, <1>5, <1>6 DEF Good, Sent, Arrives
<1>8. Moves(s, t, Over(Filtered(s.fil), Index \ s.fil.force_mask, g.bits4), s.fil.force_mask)
  BY <1>2, <1>4, <1>5, <1>7 DEF Moves, Sent, Arrives
<1>9. t.fun = g
  BY <1>2, <1>4 DEF Sent
<1> QED BY <1>8, <1>9 DEF t

\* recv_vec4: the bits that neither an assign nor a force owns change.
LEMMA RecvGood ==
  ASSUME NEW s, Good(s), ~IsNet, NEW part \in SUBSET Index, NEW val \in Vector
  PROVE  /\ Moves(s, recv_vec4(s, part, val),
                  Over(Filtered(s.fil), part \ (s.fil.force_mask \cup s.fun.assign_mask), val),
                  s.fil.force_mask)
         /\ recv_vec4(s, part, val).fun.assign_mask = s.fun.assign_mask
<1> DEFINE free == part \ s.fun.assign_mask
           new  == Over(s.fun.bits4, free, val)
           same == part = Index /\ s.fun.assign_mask = {} /\ ~s.fun.needs_init
                   /\ s.fun.bits4 = new
           seen == Over(Filtered(s.fil), part \ (s.fil.force_mask \cup s.fun.assign_mask), val)
<1>1. s \in Objects /\ s.fun.bits4 = s.fil.bits4
  BY DEF Good
<1>2. s.fun \in Functor /\ s.fun.bits4 \in Vector
  BY <1>1 DEF Objects, Functor
<1>3. new \in Vector
  BY <1>2, OverType
<1>4. Filtered(s.fil) \in Vector
  BY <1>1, FilteredType DEF Good, Objects
<1>5. seen \in Vector
  BY <1>4, OverType
<1>6. CASE free = {} \/ same
  <2>1. recv_vec4(s, part, val) = s
    BY <1>6 DEF recv_vec4
  <2>2. \A i \in free : s.fun.bits4[i] = val[i]
    BY <1>6 DEF Over
  <2>3. \A i \in Index : seen[i] = Filtered(s.fil)[i]
    BY <1>1, <2>2 DEF Over, Filtered
  <2>4. seen = Filtered(s.fil)
    BY <1>4, <1>5, <2>3, SameBits
  <2> HIDE DEF seen
  <2>5. Moves(s, s, seen, s.fil.force_mask)
    BY <2>4 DEF Moves
  <2> QED BY <2>1, <2>5 DEF seen
<1>7. CASE ~(free = {} \/ same)
  <2> DEFINE g == [s.fun EXCEPT !.bits4 = new, !.needs_init = FALSE]
             r == [s EXCEPT !.fun = g]
  <2>1. g \in Functor /\ g.bits4 = new /\ g.assign_mask = s.fun.assign_mask
    BY <1>2, <1>3 DEF Functor
  <2>2. recv_vec4(s, part, val) = Send(r, Index, new)
    BY <1>1, <1>7 DEF recv_vec4, Objects
  <2> HIDE DEF g
  <2>3. /\ Moves(s, Send(r, Index, g.bits4),
                 Over(Filtered(s.fil), Index \ s.fil.force_mask, g.bits4), s.fil.force_mask)
        /\ Send(r, Index, g.bits4).fun = g
    BY <2>1, FunctorSends
  <2> HIDE DEF r
  <2>4. Over(Filtered(s.fil), Index \ s.fil.force_mask, new) = seen
    <3>1. Over(Filtered(s.fil), Index \ s.fil.force_mask, new) \in Vector
      BY <1>3, <1>4, OverType
    <3>2. \A i \in Index : Over(Filtered(s.fil), Index \ s.fil.force_mask, new)[i] = seen[i]
      BY <1>1 DEF Over, Filtered
    <3> QED BY <1>5, <3>1, <3>2, SameBits
  <2> HIDE DEF seen, new
  <2> QED BY <2>1, <2>2, <2>3, <2>4 DEF seen
<1> QED
  BY <1>6, <1>7

\* recv_cassign: the bits change that no force hides, and the assign owns all.
LEMMA CassignGood ==
  ASSUME NEW s, Good(s), ~IsNet, NEW part \in SUBSET Index, NEW val \in Vector
  PROVE  /\ Moves(s, recv_cassign(s, part, val),
                  Over(Filtered(s.fil), part \ s.fil.force_mask, val), s.fil.force_mask)
         /\ recv_cassign(s, part, val).fun.assign_mask = s.fun.assign_mask \cup part
<1> DEFINE new  == Over(s.fun.bits4, part, val)
           g    == [s.fun EXCEPT !.bits4 = new, !.assign_mask = s.fun.assign_mask \cup part]
           r    == [s EXCEPT !.fun = g]
           seen == Over(Filtered(s.fil), part \ s.fil.force_mask, val)
<1>1. s \in Objects /\ s.fun.bits4 = s.fil.bits4
  BY DEF Good
<1>2. s.fun \in Functor /\ s.fun.bits4 \in Vector
  BY <1>1 DEF Objects, Functor
<1>3. new \in Vector
  BY <1>2, OverType
<1>4. Filtered(s.fil) \in Vector
  BY <1>1, FilteredType DEF Good, Objects
<1>5. g \in Functor /\ g.bits4 = new /\ g.assign_mask = s.fun.assign_mask \cup part
  BY <1>2, <1>3 DEF Functor
<1>6. recv_cassign(s, part, val) = Send(r, Index, new)
  BY <1>1 DEF recv_cassign, Objects
<1> HIDE DEF g
<1>7. /\ Moves(s, Send(r, Index, g.bits4),
               Over(Filtered(s.fil), Index \ s.fil.force_mask, g.bits4), s.fil.force_mask)
      /\ Send(r, Index, g.bits4).fun = g
  BY <1>5, FunctorSends
<1> HIDE DEF r
<1>8. Over(Filtered(s.fil), Index \ s.fil.force_mask, new) = seen
  <2>1. Over(Filtered(s.fil), Index \ s.fil.force_mask, new) \in Vector
    BY <1>3, <1>4, OverType
  <2>2. seen \in Vector
    BY <1>4, OverType
  <2>3. \A i \in Index : Over(Filtered(s.fil), Index \ s.fil.force_mask, new)[i] = seen[i]
    BY <1>1 DEF Over, Filtered
  <2> QED BY <2>1, <2>2, <2>3, SameBits
<1> HIDE DEF seen, new
<1> QED
  BY <1>5, <1>6, <1>7, <1>8 DEF seen

\* A driver of a net: the bits change that no force hides.
LEMMA NetSends ==
  ASSUME NEW s, Good(s), IsNet, NEW part \in SUBSET Index, NEW val \in Vector
  PROVE  /\ Moves(s, Send(s, part, val),
                  Over(Filtered(s.fil), part \ s.fil.force_mask, val), s.fil.force_mask)
         /\ Send(s, part, val).fun = s.fun
         /\ Send(s, part, val).fil.bits4 = Over(s.fil.bits4, part, val)
<1>1. s \in Objects /\ s.out = Filtered(s.fil) /\ (s.fil.force4 = None => s.fil.force_mask = {})
  BY DEF Good
<1>2. Sent(s, part, val, Send(s, part, val))
  BY <1>1, SendEffect
<1>3. Arrives(s, part, val, Send(s, part, val))
  BY <1>1, SendGood
<1> QED
  BY <1>2, <1>3 DEF Sent, Arrives, Moves, Good

-----------------------------------------------------------------------------
(* The release. *)

\* release of a net: the released bits read as they are driven.
LEMMA ReleaseNetGood ==
  ASSUME Good(State), IsNet, NEW part \in SUBSET Index, part # {}
  PROVE  /\ Moves(State, ReleaseNet(part), Over(Filtered(fil), part, fil.bits4),
                  fil.force_mask \ part)
         /\ ReleaseNet(part).fun = fun
         /\ ReleaseNet(part).fil.bits4 = fil.bits4
<1> DEFINE force4 == IF fil.force4 = None THEN Unknown ELSE fil.force4
           hidden == \/ fil.force4 = None /\ part = Index
                     \/ \E i \in part : force4[i] # fil.bits4[i]
           released == [fil EXCEPT !.force_mask = fil.force_mask \ part, !.needs_init = hidden]
           s == [State EXCEPT !.fil = released]
           t == Send(s, part, fil.bits4)
           seen == Over(Filtered(fil), part, fil.bits4)
<1>1. /\ fun \in Functor /\ fil \in Filter /\ out \in Vector /\ out = Filtered(fil)
      /\ (fil.force4 = None => fil.force_mask = {})
      /\ fun.assign_mask = {}
  BY DEF Good, State, Objects
<1>2. /\ released \in Filter /\ released.bits4 = fil.bits4 /\ released.force4 = fil.force4
      /\ released.force_mask = fil.force_mask \ part /\ released.needs_init = hidden
  BY <1>1 DEF Filter
<1> HIDE DEF released, hidden
<1>3. /\ s \in Objects /\ s.fun = fun /\ s.fil = released /\ s.out = out
  BY <1>1, <1>2 DEF State, Objects
<1>4. fil.bits4 \in Vector
  BY <1>1 DEF Filter
<1> HIDE DEF s
<1>5. Sent(s, part, fil.bits4, t)
  BY <1>1, <1>2, <1>3, <1>4, SendEffect
<1>6. ReleaseNet(part) = [t EXCEPT !.told = TRUE]
  BY <1>1 DEF ReleaseNet, State, s, released, hidden, Filter
<1> HIDE DEF t
<1>7. /\ t \in Objects /\ t.fun = fun /\ t.fil.bits4 = fil.bits4
      /\ t.fil.force4 = fil.force4 /\ t.fil.force_mask = fil.force_mask \ part
  <2>1. Over(fil.bits4, part, fil.bits4) = fil.bits4
    BY <1>4 DEF Over, Vector
  <2> QED BY <1>2, <1>3, <1>5, <2>1 DEF Sent
<1>8. seen \in Vector /\ Filtered(fil) \in Vector /\ Filtered(t.fil) \in Vector
  BY <1>1, <1>4, <1>7, OverType, FilteredType DEF Objects
<1>9. Filtered(t.fil) = seen
  <2>1. \A i \in Index : Filtered(t.fil)[i] = seen[i]
    BY <1>7 DEF Filtered, Over
  <2> QED BY <1>8, <2>1, SameBits
<1>10. t.out = seen
  <2>1. CASE t = s /\ ~s.fil.needs_init
    <3>1. ~hidden
      BY <1>2, <1>3, <2>1
    <3>2. \A i \in part : i \in fil.force_mask => fil.force4[i] = fil.bits4[i]
      BY <1>1, <3>1 DEF hidden
    <3>3. \A i \in Index : Filtered(fil)[i] = seen[i]
      BY <3>2 DEF Filtered, Over
    <3>4. Filtered(fil) = seen
      BY <1>8, <3>3, SameBits
    <3> QED BY <1>1, <1>3, <2>1, <3>4
  <2>2. CASE t.out = Over(s.out, part, Filtered(t.fil))
    <3>1. \A i \in Index : t.out[i] = seen[i]
      BY <1>1, <1>3, <1>9, <2>2 DEF Over
    <3>2. t.out \in Vector
      BY <1>7 DEF Objects
    <3> HIDE DEF seen
    <3> QED BY <1>8, <3>1, <3>2, SameBits
  <2>3. ~(part \subseteq s.fil.force_mask)
    BY <1>2, <1>3
  <2> QED BY <1>5, <2>1, <2>2, <2>3 DEF Sent
<1> DEFINE u == [t EXCEPT !.told = TRUE]
<1>11. u \in Objects /\ u.fun = fun /\ u.fil = t.fil /\ u.out = t.out /\ u.told = TRUE
  BY <1>7 DEF Objects
<1> HIDE DEF u, seen
<1>12. Good(u)
  BY <1>1, <1>7, <1>9, <1>10, <1>11 DEF Good
<1>13. Moves(State, u, seen, fil.force_mask \ part)
  BY <1>7, <1>9, <1>11, <1>12 DEF Moves
<1> QED
  BY <1>6, <1>7, <1>11, <1>13 DEF u, seen

\* release of a variable: it keeps the value it was forced to.
LEMMA ReleaseRegGood ==
  ASSUME Good(State), ~IsNet, NEW part \in SUBSET Index, part # {},
         part \cap fil.force_mask \cap fun.assign_mask = {}
  PROVE  /\ Moves(State, ReleaseReg(part), Filtered(fil), fil.force_mask \ part)
         /\ ReleaseReg(part).fun.assign_mask = fun.assign_mask
<1> DEFINE seen == Filtered(fil)
           released == [fil EXCEPT !.force_mask = fil.force_mask \ part]
           s == [State EXCEPT !.fil = released]
           free == part \ fun.assign_mask
           new == Over(fun.bits4, free, seen)
           same == part = Index /\ fun.assign_mask = {} /\ ~fun.needs_init /\ fun.bits4 = new
<1>1. /\ fun \in Functor /\ fil \in Filter /\ out \in Vector /\ out = seen
      /\ (fil.force4 = None => fil.force_mask = {})
      /\ fun.bits4 = fil.bits4 /\ fun.bits4 \in Vector
  BY DEF Good, State, Objects, Functor
<1>2. /\ released \in Filter /\ released.bits4 = fil.bits4 /\ released.force4 = fil.force4
      /\ released.force_mask = fil.force_mask \ part
  BY <1>1 DEF Filter
<1>3. ReleaseReg(part) = recv_vec4(s, part, seen)
  BY <1>1 DEF ReleaseReg, State, Filter
<1> HIDE DEF released
<1>4. s \in Objects /\ s.fun = fun /\ s.fil = released /\ s.out = out /\ s.told = FALSE
  BY <1>1, <1>2 DEF State, Objects
<1> HIDE DEF s
<1>5. seen \in Vector
  BY <1>1, FilteredType
<1>6. new \in Vector
  BY <1>1, <1>5, OverType
<1>7. ASSUME NEW f \in Filter, f.force4 = fil.force4, f.force_mask = fil.force_mask \ part,
             \A i \in Index : i \notin f.force_mask => f.bits4[i] = seen[i]
      PROVE  Filtered(f) = seen
  <2>1. \A i \in Index : Filtered(f)[i] = seen[i]
    BY <1>7 DEF Filtered
  <2>2. Filtered(f) \in Vector
    BY <1>1, <1>7, FilteredType
  <2> QED BY <1>5, <2>1, <2>2, SameBits
<1>8. \A i \in Index : i \notin fil.force_mask \ part => new[i] = seen[i]
  BY <1>1 DEF Over, Filtered
<1> HIDE DEF seen
<1>9. CASE free = {} \/ same
  <2>1. ReleaseReg(part) = s
    BY <1>3, <1>4, <1>9 DEF recv_vec4
  <2>2. new = fun.bits4
    <3>1. CASE free = {}
      <4>1. \A i \in Index : new[i] = fun.bits4[i]
        BY <3>1 DEF Over
      <4> HIDE DEF new
      <4> QED BY <1>1, <1>6, <4>1, SameBits
    <3> QED BY <1>9, <3>1
  <2> HIDE DEF new
  <2>3. Filtered(released) = seen
    BY <1>1, <1>2, <1>7, <1>8, <2>2
  <2>4. Good(s)
    BY <1>1, <1>2, <1>4, <2>3 DEF Good
  <2>5. Moves(State, s, seen, fil.force_mask \ part)
    BY <1>2, <1>4, <2>3, <2>4 DEF Moves, State, seen
  <2> QED BY <1>4, <2>1, <2>5 DEF seen
<1>10. CASE ~(free = {} \/ same)
  <2> DEFINE g == [fun EXCEPT !.bits4 = new, !.needs_init = FALSE]
             r == [s EXCEPT !.fun = g]
             t == Send(r, Index, new)
  <2>1. g \in Functor /\ g.bits4 = new /\ g.assign_mask = fun.assign_mask
    BY <1>1, <1>6 DEF Functor
  <2>2. ReleaseReg(part) = t
    BY <1>3, <1>4, <1>10 DEF recv_vec4, Objects
  <2> HIDE DEF g, new
  <2>3. r \in Objects /\ r.fun = g /\ r.fil = released /\ r.out = out /\ r.told = FALSE
    BY <1>4, <2>1 DEF Objects
  <2> HIDE DEF r
  <2>4. Sent(r, Index, new, t)
    BY <1>1, <1>2, <1>6, <2>3, SendEffect
  <2> HIDE DEF t
  <2>5. /\ t \in Objects /\ t.fun = g /\ t.fil.bits4 = new /\ t.fil.force4 = fil.force4
        /\ t.fil.force_mask = fil.force_mask \ part
    <3>1. Over(released.bits4, Index, new) = new
      BY <1>6 DEF Over, Vector
    <3> QED BY <1>2, <2>3, <2>4, <3>1 DEF Sent
  <2>6. Filtered(t.fil) = seen
    BY <1>7, <1>8, <2>5 DEF Objects
  <2>7. t.out = seen
    <3>1. CASE t.out = Over(r.out, Index, Filtered(t.fil))
      BY <1>5, <2>6, <3>1 DEF Over, Vector
    <3>2. CASE t.out = r.out
      BY <1>1, <2>3, <3>2
    <3> QED BY <2>4, <3>1, <3>2 DEF Sent
  <2>8. Good(t)
    BY <1>1, <2>1, <2>5, <2>6, <2>7 DEF Good
  <2>9. Moves(State, t, seen, fil.force_mask \ part)
    BY <2>5, <2>6, <2>8 DEF Moves, State, seen
  <2> QED BY <2>1, <2>2, <2>5, <2>9 DEF seen
<1> QED
  BY <1>9, <1>10

-----------------------------------------------------------------------------
(* The statements. *)

\* A step leaves both objects consistent, readers seeing seen and mask forced,
\* and tells of any change.
Leaves(seen, mask, owned) ==
  /\ Good(State)'
  /\ Filtered(fil)' = seen
  /\ fil'.force_mask = mask
  /\ fun'.assign_mask = owned
  /\ ChangeIsTold

\* A statement leaves what the operation it became has done.
LEMMA Became ==
  ASSUME NEW s, NEW seen, NEW mask, Moves(State, s, seen, mask), Become(s)
  PROVE  Leaves(seen, mask, s.fun.assign_mask)
<1>1. Good(s) /\ Filtered(s.fil) = seen /\ s.fil.force_mask = mask
      /\ (s.told = TRUE \/ seen = Filtered(fil))
  BY DEF Moves, State
<1>2. fun' = s.fun /\ fil' = s.fil /\ out' = s.out /\ told' = s.told
  BY DEF Become
<1>3. Good(State)'
  BY <1>1, <1>2 DEF Good, State, Objects
<1>4. Filtered(fil)' = seen
  BY <1>1, <1>2 DEF Filtered
<1>5. ChangeIsTold
  BY <1>1, <1>2, <1>4 DEF ChangeIsTold
<1> QED
  BY <1>1, <1>2, <1>3, <1>4, <1>5 DEF Leaves

\* A part is some bits, and values are vectors.
LEMMA PartType ==
  ASSUME SignalAssumption
  PROVE  /\ \A part \in Parts : part \in SUBSET Index /\ part # {}
         /\ Index \in SUBSET Index /\ Index # {}
         /\ \A val \in Values : val \in Vector
         /\ Unknown \in Vector
<1>1. Width \in Nat \ {0} /\ BIT4_X \in Bit
  BY DEF SignalAssumption, Bit
<1>2. \A part \in Parts : part \in SUBSET Index /\ part # {}
  BY <1>1 DEF Parts, Index
<1>3. Index # {}
  BY <1>1 DEF Index
<1>4. \A val \in Values : val \in Vector
  BY DEF Values, Vector, Bit
<1>5. Unknown \in Vector
  BY <1>1 DEF Unknown, Vector
<1> QED
  BY <1>2, <1>3, <1>4, <1>5

\* Write: readers see the new value where no force and no assign is.
LEMMA WriteStep ==
  ASSUME SignalAssumption, SignalInv, NEW part \in Parts, NEW val \in Values, Write(part, val)
  PROVE  /\ Leaves(Over(Filtered(fil), part \ (fil.force_mask \cup fun.assign_mask), val),
                   fil.force_mask, fun.assign_mask)
         /\ IsNet => fil'.bits4 = Over(fil.bits4, part, val)
<1>1. Good(State) /\ part \in SUBSET Index /\ val \in Vector
  BY PartType DEF SignalInv
<1>2. State.fun = fun /\ State.fil = fil
  BY DEF State
<1>3. CASE IsNet
  <2> DEFINE t == Send(State, part, val)
  <2>1. Become(t)
    BY <1>3 DEF Write
  <2>2. Moves(State, t, Over(Filtered(fil), part \ fil.force_mask, val), fil.force_mask)
        /\ t.fun = fun /\ t.fil.bits4 = Over(fil.bits4, part, val)
    BY <1>1, <1>2, <1>3, NetSends
  <2> HIDE DEF t
  <2>3. fun.assign_mask = {}
    BY <1>1, <1>2, <1>3 DEF Good
  <2>4. Leaves(Over(Filtered(fil), part \ fil.force_mask, val), fil.force_mask, fun.assign_mask)
    BY <2>1, <2>2, Became
  <2>5. fil' = t.fil
    BY <2>1 DEF Become
  <2>6. part \ (fil.force_mask \cup fun.assign_mask) = part \ fil.force_mask
    BY <2>3
  <2> QED BY <2>2, <2>4, <2>5, <2>6
<1>4. CASE ~IsNet
  <2> DEFINE t == recv_vec4(State, part, val)
  <2>1. Become(t)
    BY <1>4 DEF Write
  <2>2. Moves(State, t, Over(Filtered(fil), part \ (fil.force_mask \cup fun.assign_mask), val),
              fil.force_mask)
        /\ t.fun.assign_mask = fun.assign_mask
    BY <1>1, <1>2, <1>4, RecvGood
  <2> HIDE DEF t
  <2> QED BY <1>4, <2>1, <2>2, Became
<1> QED
  BY <1>3, <1>4

\* A force: readers see it.
LEMMA ForceStep ==
  ASSUME SignalAssumption, SignalInv, NEW part \in SUBSET Index, part # {}, NEW val \in Vector,
         \A i \in Index \ part : val[i] = Filtered(fil)[i],
         Become(force_vec4(State, part, val))
  PROVE  /\ Leaves(val, fil.force_mask \cup part, fun.assign_mask)
         /\ fil'.bits4 = fil.bits4
<1> DEFINE t == force_vec4(State, part, val)
<1>1. State.fun = fun /\ State.fil = fil /\ Good(State)
  BY DEF State, SignalInv
<1>2. Moves(State, t, val, fil.force_mask \cup part) /\ t.fun = fun /\ t.fil.bits4 = fil.bits4
  BY <1>1, ForceGood
<1>3. Become(t)
  OBVIOUS
<1> HIDE DEF t
<1>4. fil' = t.fil
  BY <1>3 DEF Become
<1> QED
  BY <1>2, <1>3, <1>4, Became

\* A release: a net reads as driven, a variable keeps its value.
LEMMA ReleaseStep ==
  ASSUME SignalAssumption, IsNet \/ ~ReleaseOwned, SignalInv, NEW part \in Parts, Release(part)
  PROVE  /\ Leaves(IF IsNet THEN Over(Filtered(fil), part, fil.bits4) ELSE Filtered(fil),
                   fil.force_mask \ part, fun.assign_mask)
         /\ IsNet => fil'.bits4 = fil.bits4
<1>1. Good(State) /\ part \in SUBSET Index /\ part # {}
  BY PartType DEF SignalInv
<1>2. CASE IsNet
  <2> DEFINE t == ReleaseNet(part)
  <2>1. Become(t)
    BY <1>2 DEF Release
  <2>2. Moves(State, t, Over(Filtered(fil), part, fil.bits4), fil.force_mask \ part)
        /\ t.fun = fun /\ t.fil.bits4 = fil.bits4
    BY <1>1, <1>2, ReleaseNetGood
  <2> HIDE DEF t
  <2>3. fil' = t.fil
    BY <2>1 DEF Become
  <2>4. Leaves(Over(Filtered(fil), part, fil.bits4), fil.force_mask \ part, fun.assign_mask)
    BY <2>1, <2>2, Became
  <2> QED BY <1>2, <2>2, <2>3, <2>4
<1>3. CASE ~IsNet
  <2> DEFINE t == ReleaseReg(part)
  <2>1. Become(t) /\ part \cap fil.force_mask \cap fun.assign_mask = {}
    BY <1>3 DEF Release
  <2>2. Moves(State, t, Filtered(fil), fil.force_mask \ part)
        /\ t.fun.assign_mask = fun.assign_mask
    BY <1>1, <1>3, <2>1, ReleaseRegGood
  <2> HIDE DEF t
  <2> QED BY <1>3, <2>1, <2>2, Became
<1> QED
  BY <1>2, <1>3

\* An assign: readers see it where no force is.
LEMMA AssignStep ==
  ASSUME SignalAssumption, SignalInv, ~IsNet, NEW part \in SUBSET Index, NEW val \in Vector,
         Become(recv_cassign(State, part, val))
  PROVE  Leaves(Over(Filtered(fil), part \ fil.force_mask, val), fil.force_mask,
                fun.assign_mask \cup part)
<1> DEFINE t == recv_cassign(State, part, val)
<1>1. State.fun = fun /\ State.fil = fil /\ Good(State)
  BY DEF State, SignalInv
<1>2. Moves(State, t, Over(Filtered(fil), part \ fil.force_mask, val), fil.force_mask)
      /\ t.fun.assign_mask = fun.assign_mask \cup part
  BY <1>1, CassignGood
<1>3. Become(t)
  OBVIOUS
<1> HIDE DEF t
<1> QED
  BY <1>2, <1>3, Became

\* A deassign: nothing that readers see changes.
LEMMA DeassignStep ==
  ASSUME SignalAssumption, SignalInv, NEW part \in Parts, Deassign(part)
  PROVE  Leaves(Filtered(fil), fil.force_mask, fun.assign_mask \ part)
<1> DEFINE g == [fun EXCEPT !.assign_mask = fun.assign_mask \ part]
           t == [State EXCEPT !.fun = g]
<1>1. /\ fun \in Functor /\ fil \in Filter /\ out \in Vector
      /\ Good(State) /\ ~IsNet
  BY DEF SignalAssumption, Good, State, Objects, SignalInv, Deassign
<1>2. Become(t)
  BY <1>1 DEF Deassign, State, Functor
<1>3. g \in Functor /\ g.bits4 = fun.bits4 /\ g.assign_mask = fun.assign_mask \ part
  BY <1>1 DEF Functor
<1> HIDE DEF g
<1>4. t \in Objects /\ t.fun = g /\ t.fil = fil /\ t.out = out
  BY <1>1, <1>3 DEF State, Objects
<1>5. State.fil = fil /\ State.fun = fun /\ State.out = out /\ State.told = FALSE
  BY DEF State
<1> HIDE DEF t
<1>6. Moves(State, t, Filtered(fil), fil.force_mask)
  BY <1>1, <1>3, <1>4, <1>5 DEF Moves, Good
<1> QED
  BY <1>2, <1>3, <1>4, <1>6, Became

\* Two operations one after the other.
LEMMA MovesOn ==
  ASSUME NEW s, NEW r, NEW t, NEW seen, NEW mask, NEW seen2, NEW mask2,
         Moves(s, r, seen, mask), Moves(r, t, seen2, mask2)
  PROVE  Moves(s, t, seen2, mask2)
  BY DEF Moves

\* An assign and a force that both follow the source, in either order: readers
\* see its new value.
LEMMA BothFollow ==
  ASSUME SignalAssumption, SignalInv, ~IsNet, NEW val \in Vector, NEW t,
         \/ t = recv_cassign(force_vec4(State, Index, val), Index, val)
         \/ t = force_vec4(recv_cassign(State, Index, val), Index, val)
  PROVE  Moves(State, t, val, Index) /\ t.fun.assign_mask = Index
<1>1. /\ State.fun = fun /\ State.fil = fil /\ Good(State)
      /\ fun.assign_mask \subseteq Index /\ fil.force_mask \subseteq Index
  BY DEF State, SignalInv, Good, Objects, Functor, Filter
<1>2. Index \in SUBSET Index /\ Index # {}
  BY PartType
<1>3. CASE t = recv_cassign(force_vec4(State, Index, val), Index, val)
  <2> DEFINE r == force_vec4(State, Index, val)
  <2>1. Moves(State, r, val, fil.force_mask \cup Index) /\ r.fun = fun
    BY <1>1, <1>2, ForceGood
  <2>2. t = recv_cassign(r, Index, val)
    BY <1>3
  <2> HIDE DEF r
  <2>3. Good(r) /\ r.fil.force_mask = Index /\ Filtered(r.fil) = val
    BY <1>1, <2>1 DEF Moves
  <2>4. /\ Moves(r, t, Over(Filtered(r.fil), Index \ r.fil.force_mask, val), r.fil.force_mask)
        /\ t.fun.assign_mask = r.fun.assign_mask \cup Index
    BY <1>2, <2>2, <2>3, CassignGood
  <2>5. Over(val, Index \ Index, val) = val
    BY DEF Over, Vector
  <2>6. Moves(r, t, val, Index)
    BY <2>3, <2>4, <2>5
  <2>7. Moves(State, t, val, Index)
    BY <2>1, <2>6, MovesOn
  <2>8. fun.assign_mask \cup Index = Index
    BY <1>1
  <2> QED BY <2>1, <2>4, <2>7, <2>8
<1>4. CASE t = force_vec4(recv_cassign(State, Index, val), Index, val)
  <2> DEFINE r == recv_cassign(State, Index, val)
             seen == Over(Filtered(fil), Index \ fil.force_mask, val)
  <2>1. Moves(State, r, seen, fil.force_mask) /\ r.fun.assign_mask = fun.assign_mask \cup Index
    BY <1>1, <1>2, CassignGood
  <2>2. t = force_vec4(r, Index, val)
    BY <1>4
  <2> HIDE DEF r, seen
  <2>3. Good(r) /\ r.fil.force_mask = fil.force_mask
    BY <2>1 DEF Moves
  <2>4. Moves(r, t, val, r.fil.force_mask \cup Index) /\ t.fun = r.fun
    BY <1>2, <2>2, <2>3, ForceGood
  <2>5. fil.force_mask \cup Index = Index /\ fun.assign_mask \cup Index = Index
    BY <1>1
  <2>6. Moves(r, t, val, Index)
    BY <2>3, <2>4, <2>5
  <2>7. Moves(State, t, val, Index)
    BY <2>1, <2>6, MovesOn
  <2> QED BY <2>1, <2>4, <2>5, <2>7
<1> QED
  BY <1>3, <1>4

\* What the links make of a new value of the source, as readers see it.
LEMMA SourceStep ==
  ASSUME SignalAssumption, SignalInv, NEW val \in Values, SourceChanges(val)
  PROVE  /\ force_link_ /\ cassign_link => Leaves(val, Index, Index)
         /\ force_link_ /\ ~cassign_link => Leaves(val, fil.force_mask \cup Index, fun.assign_mask)
         /\ ~force_link_ /\ cassign_link =>
              Leaves(Over(Filtered(fil), Index \ fil.force_mask, val), fil.force_mask,
                     fun.assign_mask \cup Index)
         /\ ~force_link_ /\ ~cassign_link => Leaves(Filtered(fil), fil.force_mask, fun.assign_mask)
         /\ IsNet => fil'.bits4 = fil.bits4
<1>1. val \in Vector /\ Index \in SUBSET Index /\ Index # {}
  BY PartType
<1>2. IsNet => ~cassign_link
  BY DEF SignalInv
<1>3. CASE force_link_ /\ cassign_link
  <2>1. PICK t : /\ Become(t)
                 /\ \/ t = recv_cassign(force_vec4(State, Index, val), Index, val)
                    \/ t = force_vec4(recv_cassign(State, Index, val), Index, val)
    BY <1>3 DEF SourceChanges
  <2>2. Moves(State, t, val, Index) /\ t.fun.assign_mask = Index
    BY <1>1, <1>2, <1>3, <2>1, BothFollow
  <2>3. Leaves(val, Index, Index)
    BY <2>1, <2>2, Became
  <2> QED BY <1>2, <1>3, <2>3
<1>4. CASE force_link_ /\ ~cassign_link
  <2>1. Become(force_vec4(State, Index, val))
    BY <1>4 DEF SourceChanges
  <2>2. Leaves(val, fil.force_mask \cup Index, fun.assign_mask) /\ fil'.bits4 = fil.bits4
    BY <1>1, <2>1, ForceStep
  <2> QED BY <1>4, <2>2
<1>5. CASE ~force_link_ /\ cassign_link
  <2>1. Become(recv_cassign(State, Index, val))
    BY <1>5 DEF SourceChanges
  <2>2. Leaves(Over(Filtered(fil), Index \ fil.force_mask, val), fil.force_mask,
               fun.assign_mask \cup Index)
    BY <1>1, <1>2, <1>5, <2>1, AssignStep
  <2> QED BY <1>2, <1>5, <2>2
<1>6. CASE ~force_link_ /\ ~cassign_link
  <2>1. Become(State)
    BY <1>6 DEF SourceChanges
  <2>2. Moves(State, State, Filtered(fil), fil.force_mask) /\ State.fun = fun /\ State.fil = fil
    BY DEF Moves, SignalInv, State
  <2>3. Leaves(Filtered(fil), fil.force_mask, State.fun.assign_mask)
    BY <2>1, <2>2, Became
  <2>4. fil' = fil
    BY <2>1, <2>2 DEF Become
  <2> QED BY <1>6, <2>2, <2>3, <2>4
<1> QED
  BY <1>3, <1>4, <1>5, <1>6

\* force of another signal, and assign of another signal.
LEMMA SignalFollows ==
  ASSUME SignalAssumption, SignalInv
  PROVE  /\ ForceSignal => /\ Leaves(source, fil.force_mask \cup Index, fun.assign_mask)
                           /\ fil'.bits4 = fil.bits4
         /\ AssignSignal => /\ Leaves(Over(Filtered(fil), Index \ fil.force_mask, source),
                                      fil.force_mask, fun.assign_mask \cup Index)
                            /\ ~IsNet
<1>1. source \in Vector /\ Index \in SUBSET Index /\ Index # {}
  BY PartType DEF SignalInv
<1>2. ASSUME ForceSignal
      PROVE  /\ Leaves(source, fil.force_mask \cup Index, fun.assign_mask)
             /\ fil'.bits4 = fil.bits4
  <2>1. Become(force_vec4(State, Index, source))
    BY <1>2 DEF ForceSignal
  <2> QED BY <1>1, <2>1, ForceStep
<1>3. ASSUME AssignSignal
      PROVE  /\ Leaves(Over(Filtered(fil), Index \ fil.force_mask, source), fil.force_mask,
                       fun.assign_mask \cup Index)
             /\ ~IsNet
  <2>1. Become(recv_cassign(State, Index, source)) /\ ~IsNet
    BY <1>3 DEF AssignSignal, SignalAssumption
  <2> QED BY <1>1, <2>1, AssignStep
<1> QED
  BY <1>2, <1>3

\* A force of part, as %force/vec4 writes it.
LEMMA ForceVec4Step ==
  ASSUME SignalAssumption, SignalInv, NEW part \in Parts, NEW val \in Values,
         ForceVec4(part, val)
  PROVE  /\ Leaves(Over(Filtered(fil), part, val), fil.force_mask \cup part, fun.assign_mask)
         /\ fil'.bits4 = fil.bits4
<1> DEFINE new == Over(Filtered(fil), part, val)
<1>1. part \in SUBSET Index /\ part # {} /\ val \in Vector
  BY PartType
<1>2. Filtered(fil) \in Vector
  BY FilteredType DEF SignalInv, Good, Objects, State
<1>3. new \in Vector
  BY <1>1, <1>2, OverType
<1>4. \A i \in Index \ part : new[i] = Filtered(fil)[i]
  BY DEF Over
<1>5. Become(force_vec4(State, part, new))
  BY DEF ForceVec4
<1> HIDE DEF new
<1>6. /\ Leaves(new, fil.force_mask \cup part, fun.assign_mask)
      /\ fil'.bits4 = fil.bits4
  BY <1>1, <1>3, <1>4, <1>5, ForceStep
<1> QED
  BY <1>6 DEF new

-----------------------------------------------------------------------------
(* Every step. *)

\* Whatever an action leaves, the invariant holds after it if the source and
\* the links are what they may be.
LEMMA LeavesInv ==
  ASSUME NEW seen, NEW mask, NEW owned, Leaves(seen, mask, owned),
         source' \in Vector, IsNet => ~cassign_link'
  PROVE  SignalInv' /\ ChangeIsTold
  BY DEF Leaves, SignalInv

\* Both objects stay consistent, and no change goes untold.
LEMMA StepIsTold ==
  ASSUME SignalAssumption, IsNet \/ ~ReleaseOwned, SignalInv, [Next]_vars
  PROVE  SignalInv' /\ [ChangeIsTold]_vars
<1>0. source \in Vector /\ (IsNet => ~cassign_link) /\ (\A val \in Values : val \in Vector)
  BY PartType DEF SignalInv
<1>1. CASE ForceSignal
  BY <1>0, <1>1, SignalFollows, LeavesInv DEF ForceSignal
<1>2. CASE AssignSignal
  BY <1>0, <1>2, SignalFollows, LeavesInv DEF AssignSignal
<1>3. ASSUME NEW part \in Parts, Release(part)
      PROVE  SignalInv' /\ ChangeIsTold
  <2>1. source' = source /\ cassign_link' = cassign_link
    BY <1>3 DEF Release
  <2> QED BY <1>0, <1>3, <2>1, ReleaseStep, LeavesInv
<1>4. ASSUME NEW part \in Parts, Deassign(part)
      PROVE  SignalInv' /\ ChangeIsTold
  <2>1. source' = source /\ cassign_link' = FALSE
    BY <1>4 DEF Deassign
  <2> QED BY <1>0, <1>4, <2>1, DeassignStep, LeavesInv
<1>5. ASSUME NEW part \in Parts, NEW val \in Values, Write(part, val)
      PROVE  SignalInv' /\ ChangeIsTold
  <2>1. source' = source /\ cassign_link' = cassign_link
    BY <1>5 DEF Write
  <2> QED BY <1>0, <1>5, <2>1, WriteStep, LeavesInv
<1>6. ASSUME NEW part \in Parts, NEW val \in Values, ForceVec4(part, val)
      PROVE  SignalInv' /\ ChangeIsTold
  <2>1. source' = source /\ cassign_link' = cassign_link
    BY <1>6 DEF ForceVec4
  <2> QED BY <1>0, <1>6, <2>1, ForceVec4Step, LeavesInv
<1>7. ASSUME NEW part \in Parts, NEW val \in Values, Assign(part, val)
      PROVE  SignalInv' /\ ChangeIsTold
  <2>1. source' = source /\ cassign_link' = FALSE /\ ~IsNet /\ Become(recv_cassign(State, part, val))
    BY <1>7 DEF Assign, SignalAssumption
  <2>2. part \in SUBSET Index /\ val \in Vector
    BY PartType
  <2> QED BY <1>0, <2>1, <2>2, AssignStep, LeavesInv
<1>8. ASSUME NEW val \in Values, SourceChanges(val)
      PROVE  SignalInv' /\ ChangeIsTold
  <2>1. source' = val /\ cassign_link' = cassign_link
    BY <1>8 DEF SourceChanges
  <2> QED BY <1>0, <1>8, <2>1, SourceStep, LeavesInv
<1>9. CASE UNCHANGED vars
  <2>1. Good(State)' /\ source' \in Vector /\ (IsNet => ~cassign_link')
    BY <1>0, <1>9 DEF vars, SignalInv, Good, State, Objects
  <2> QED BY <1>9, <2>1 DEF SignalInv
<1> QED
  BY <1>1, <1>2, <1>3, <1>4, <1>5, <1>6, <1>7, <1>8, <1>9 DEF Next

\* At the start both objects hold the same unknown value.
LEMMA StartIsGood ==
  ASSUME SignalAssumption, Init
  PROVE  SignalInv /\ Filtered(fil) = Unknown
<1>1. Unknown \in Vector /\ cassign_link = FALSE /\ source = Unknown
  BY PartType DEF Init
<1>2. Filtered(fil) = Unknown
  BY DEF Init, Filtered, Unknown
<1>3. State \in Objects
  BY <1>1 DEF Init, State, Objects, Functor, Filter
<1>4. Good(State)
  BY <1>2, <1>3 DEF Init, Good, State
<1> QED
  BY <1>1, <1>2, <1>4 DEF SignalInv

\* The invariant is one of every width, net or variable.
LEMMA SignalIsGood ==
  ASSUME SignalAssumption, IsNet \/ ~ReleaseOwned
  PROVE  Spec => []SignalInv
<1>1. Init => SignalInv
  BY StartIsGood
<1>2. SignalInv /\ [Next]_vars => SignalInv'
  BY StepIsTold
<1> QED
  BY <1>1, <1>2, PTL DEF Spec

-----------------------------------------------------------------------------
(* What the statements promise. *)

\* A step leaves what the promise says.
LEMMA PromiseKept ==
  ASSUME NEW seen, NEW mask, NEW owned, Leaves(seen, mask, owned),
         value' = seen, forced' = mask, assigned' = owned,
         IsNet => driven' = fil'.bits4
  PROVE  PromiseInv'
  BY DEF Leaves, PromiseInv, Filtered

\* Some bits replaced, as the promise writes it.
LEMMA SameOver ==
  ASSUME NEW f, NEW part, NEW g
  PROVE  Promise!Over(f, part, g) = Over(f, part, g)
  BY DEF Promise!Over, Over

\* Each statement does to the signal what it promises.
LEMMA StepIsPromised ==
  ASSUME SignalAssumption, IsNet \/ ~ReleaseOwned, SignalInv, PromiseInv,
         [StatementsNext]_allvars
  PROVE  PromiseInv'
<1>0. /\ value = Filtered(fil) /\ forced = fil.force_mask /\ assigned = fun.assign_mask
      /\ (IsNet => driven = fil.bits4)
      /\ fun.assign_mask \subseteq Index /\ fil.force_mask \subseteq Index
  BY DEF PromiseInv, SignalInv, Good, Objects, State, Functor, Filter
<1>1. ASSUME ForceSignal, Promise!Force(Index, source)
      PROVE  PromiseInv'
  <2>1. /\ Leaves(source, fil.force_mask \cup Index, fun.assign_mask)
        /\ fil'.bits4 = fil.bits4 /\ source \in Vector
    BY <1>1, SignalFollows DEF SignalInv
  <2>2. Over(value, Index, source) = source
    BY <2>1 DEF Over, Vector
  <2>3. /\ value' = source /\ forced' = fil.force_mask \cup Index /\ assigned' = fun.assign_mask
        /\ driven' = driven
    BY <1>0, <1>1, <2>2, SameOver DEF Promise!Force
  <2> QED BY <1>0, <2>1, <2>3, PromiseKept
<1>2. ASSUME AssignSignal, Promise!Assign(Index, source)
      PROVE  PromiseInv'
  <2>1. /\ Leaves(Over(Filtered(fil), Index \ fil.force_mask, source), fil.force_mask,
                  fun.assign_mask \cup Index)
        /\ ~IsNet
    BY <1>2, SignalFollows
  <2>2. /\ value' = Over(Filtered(fil), Index \ fil.force_mask, source)
        /\ forced' = fil.force_mask /\ assigned' = fun.assign_mask \cup Index
    BY <1>0, <1>2, SameOver DEF Promise!Assign
  <2> QED BY <2>1, <2>2, PromiseKept
<1>3. ASSUME NEW part \in Parts, Release(part), Promise!Release(part)
      PROVE  PromiseInv'
  <2>1. /\ Leaves(IF IsNet THEN Over(Filtered(fil), part, fil.bits4) ELSE Filtered(fil),
                  fil.force_mask \ part, fun.assign_mask)
        /\ IsNet => fil'.bits4 = fil.bits4
    BY <1>3, ReleaseStep
  <2>2. /\ value' = (IF IsNet THEN Over(Filtered(fil), part, fil.bits4) ELSE Filtered(fil))
        /\ forced' = fil.force_mask \ part /\ assigned' = fun.assign_mask /\ driven' = driven
    BY <1>0, <1>3, SameOver DEF Promise!Release
  <2> QED BY <1>0, <2>1, <2>2, PromiseKept
<1>4. ASSUME NEW part \in Parts, Deassign(part), Promise!Deassign(part)
      PROVE  PromiseInv'
  <2>1. Leaves(Filtered(fil), fil.force_mask, fun.assign_mask \ part) /\ ~IsNet
    BY <1>4, DeassignStep DEF Deassign, SignalAssumption
  <2>2. value' = Filtered(fil) /\ forced' = fil.force_mask /\ assigned' = fun.assign_mask \ part
    BY <1>0, <1>4 DEF Promise!Deassign
  <2> QED BY <2>1, <2>2, PromiseKept
<1>5. ASSUME NEW part \in Parts, NEW val \in Values, Write(part, val), Promise!Write(part, val)
      PROVE  PromiseInv'
  <2>1. /\ Leaves(Over(Filtered(fil), part \ (fil.force_mask \cup fun.assign_mask), val),
                  fil.force_mask, fun.assign_mask)
        /\ IsNet => fil'.bits4 = Over(fil.bits4, part, val)
    BY <1>5, WriteStep
  <2>2. /\ value' = Over(Filtered(fil), part \ (fil.force_mask \cup fun.assign_mask), val)
        /\ forced' = fil.force_mask /\ assigned' = fun.assign_mask
        /\ IsNet => driven' = Over(driven, part, val)
    BY <1>0, <1>5, SameOver DEF Promise!Write
  <2> QED BY <1>0, <2>1, <2>2, PromiseKept
<1>6. ASSUME NEW part \in Parts, NEW val \in Values, ForceVec4(part, val),
             Promise!Force(part, val)
      PROVE  PromiseInv'
  <2>1. /\ Leaves(Over(Filtered(fil), part, val), fil.force_mask \cup part, fun.assign_mask)
        /\ fil'.bits4 = fil.bits4
    BY <1>6, ForceVec4Step
  <2>2. /\ value' = Over(Filtered(fil), part, val) /\ forced' = fil.force_mask \cup part
        /\ assigned' = fun.assign_mask /\ driven' = driven
    BY <1>0, <1>6, SameOver DEF Promise!Force
  <2> QED BY <1>0, <2>1, <2>2, PromiseKept
<1>7. ASSUME NEW part \in Parts, NEW val \in Values, Assign(part, val),
             Promise!Assign(part, val)
      PROVE  PromiseInv'
  <2>1. ~IsNet /\ Become(recv_cassign(State, part, val))
    BY <1>7 DEF Assign, SignalAssumption
  <2>2. part \in SUBSET Index /\ val \in Vector
    BY PartType
  <2>3. Leaves(Over(Filtered(fil), part \ fil.force_mask, val), fil.force_mask,
               fun.assign_mask \cup part)
    BY <2>1, <2>2, AssignStep
  <2>4. /\ value' = Over(Filtered(fil), part \ fil.force_mask, val)
        /\ forced' = fil.force_mask /\ assigned' = fun.assign_mask \cup part
    BY <1>0, <1>7, SameOver DEF Promise!Assign
  <2> QED BY <2>1, <2>3, <2>4, PromiseKept
<1>8. ASSUME NEW val \in Values, SourceChanges(val), Followed(val)
      PROVE  PromiseInv'
  <2>1. /\ force_link_ /\ cassign_link => Leaves(val, Index, Index)
        /\ force_link_ /\ ~cassign_link => Leaves(val, fil.force_mask \cup Index, fun.assign_mask)
        /\ ~force_link_ /\ cassign_link =>
             Leaves(Over(Filtered(fil), Index \ fil.force_mask, val), fil.force_mask,
                    fun.assign_mask \cup Index)
        /\ ~force_link_ /\ ~cassign_link => Leaves(Filtered(fil), fil.force_mask, fun.assign_mask)
        /\ IsNet => fil'.bits4 = fil.bits4
    BY <1>8, SourceStep
  <2>2. val \in Vector
    BY PartType
  <2>3. CASE force_link_ /\ cassign_link
    <3>1. Promise!AssignAndForce(val)
      BY <1>8, <2>3 DEF Followed
    <3>2. value' = val /\ forced' = Index /\ assigned' = Index /\ driven' = driven
      BY <3>1 DEF Promise!AssignAndForce
    <3> QED BY <1>0, <2>1, <2>3, <3>2, PromiseKept
  <2>4. CASE force_link_ /\ ~cassign_link
    <3>1. Promise!Force(Index, val)
      BY <1>8, <2>4 DEF Followed
    <3>2. Over(value, Index, val) = val
      BY <2>2 DEF Over, Vector
    <3>3. /\ value' = val /\ forced' = fil.force_mask \cup Index /\ assigned' = fun.assign_mask
          /\ driven' = driven
      BY <1>0, <3>1, <3>2, SameOver DEF Promise!Force
    <3> QED BY <1>0, <2>1, <2>4, <3>3, PromiseKept
  <2>5. CASE ~force_link_ /\ cassign_link
    <3>1. Promise!Assign(Index, val)
      BY <1>8, <2>5 DEF Followed
    <3>2. /\ value' = Over(Filtered(fil), Index \ fil.force_mask, val)
          /\ forced' = fil.force_mask /\ assigned' = fun.assign_mask \cup Index
          /\ driven' = driven
      BY <1>0, <3>1, SameOver DEF Promise!Assign
    <3> QED BY <1>0, <2>1, <2>5, <3>2, PromiseKept
  <2>6. CASE ~force_link_ /\ ~cassign_link
    <3>1. UNCHANGED <<value, driven, forced, assigned>>
      BY <1>8, <2>6 DEF Followed
    <3> QED BY <1>0, <2>1, <2>6, <3>1, PromiseKept
  <2> QED BY <2>3, <2>4, <2>5, <2>6
<1>9. CASE UNCHANGED allvars
  BY <1>0, <1>9 DEF allvars, vars, PromiseInv, Filtered
<1> QED
  BY <1>1, <1>2, <1>3, <1>4, <1>5, <1>6, <1>7, <1>8, <1>9 DEF StatementsNext

\* The statements are steps of the signal.
LEMMA StatementIsStep ==
  ASSUME [StatementsNext]_allvars
  PROVE  [Next]_vars
  BY DEF StatementsNext, Next, allvars

\* run_vpi_callbacks: no operation changes what the signal reads as without
\* telling the value change callbacks, unless a variable is released where an
\* assign owns forced bits.
THEOREM NoChangeUntold ==
  ASSUME SignalAssumption, IsNet \/ ~ReleaseOwned
  PROVE  Spec => ChangesAreTold
<1>1. Spec => []SignalInv
  BY SignalIsGood
<1>2. SignalInv /\ [Next]_vars => [ChangeIsTold]_vars
  BY StepIsTold
<1> QED
  BY <1>1, <1>2, PTL DEF Spec, ChangesAreTold

\* filter_vec4, filter_mask_ and force_vec4: the fan-out has what readers see,
\* and both objects keep their types.
THEOREM FanOutAgrees ==
  ASSUME SignalAssumption, IsNet \/ ~ReleaseOwned
  PROVE  Spec => [](FanOutHasValue /\ TypeOK)
<1>1. Spec => []SignalInv
  BY SignalIsGood
<1>2. SignalInv => FanOutHasValue /\ TypeOK
  BY DEF SignalInv, Good, Objects, State, Functor, Filter, FanOutHasValue, TypeOK
<1> QED
  BY <1>1, <1>2, PTL

\* do_release_vec, force_vec4, recv_vec4 and their filters: whatever was
\* driven, forced, assigned, released or linked before, the signal reads as
\* the statements say.
THEOREM StatementsAreKept ==
  ASSUME SignalAssumption, IsNet \/ ~ReleaseOwned
  PROVE  StatementsSpec => []ReadsAsPromised
<1> DEFINE Inv == SignalInv /\ PromiseInv
<1>1. StatementsInit => Inv
  <2> SUFFICES ASSUME StatementsInit PROVE Inv
    OBVIOUS
  <2>1. SignalInv /\ Filtered(fil) = Unknown
    BY StartIsGood DEF StatementsInit
  <2>2. PromiseInv
    BY <2>1 DEF StatementsInit, Init, Promise!Init, PromiseInv
  <2> QED BY <2>1, <2>2
<1>2. Inv /\ [StatementsNext]_allvars => Inv'
  BY StepIsTold, StatementIsStep, StepIsPromised
<1>3. Inv => ReadsAsPromised
  <2>1. SignalInv => FanOutHasValue
    BY DEF SignalInv, Good, Objects, State, Functor, Filter, FanOutHasValue
  <2> QED BY <2>1 DEF PromiseInv, ReadsAsPromised
<1> QED
  BY <1>1, <1>2, <1>3, PTL DEF StatementsSpec
=============================================================================
