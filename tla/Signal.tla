------------------------------- MODULE Signal -------------------------------
(***************************************************************************)
(* A net or a variable of vvp under force, release, assign and deassign    *)
(* (vvp/vvp_net_sig.cc, the filter of vvp/vvp_net.cc and the opcodes of    *)
(* vvp/vthread.cc).  A variable is two objects: the functor, which holds   *)
(* what was assigned and which bits a procedural continuous assignment     *)
(* owns, and the filter behind it, which holds what the functor sent last  *)
(* and the force on each bit.  A net has the filter only.  Readers ask the *)
(* filter; the fan-out has what the filter let through.                    *)
(***************************************************************************)
EXTENDS Bit4

CONSTANTS Width,        \* bits in the signal
          InputBits,    \* the bits values are made of
          IsNet,        \* a net, or a variable
          Assigns,      \* there are assign and deassign statements
          ReleaseOwned  \* a release may cover a forced bit that an assign owns

SignalAssumption == /\ Width \in Nat \ {0}
                    /\ InputBits \subseteq Bits
                    /\ IsNet \in BOOLEAN
                    /\ Assigns \in BOOLEAN /\ (Assigns => ~IsNet)
                    /\ ReleaseOwned \in BOOLEAN

VARIABLES
    fun,           \* vvp_fun_signal4_sa: bits4_, needs_init_, assign_mask_
    fil,           \* vvp_wire_vec4: bits4_, needs_init_, force4_, force_mask_,
                   \* force_propagate_
    out,           \* what the fan-out received last
    told,          \* run_vpi_callbacks ran in this operation
    source,        \* the signal that an assign or a force may follow
    force_link_,   \* the force follows it
    cassign_link   \* the assign follows it

vars == <<fun, fil, out, told, source, force_link_, cassign_link>>

Index == 0 .. Width - 1
Values == [Index -> InputBits]
Unknown == [i \in Index |-> BIT4_X]
\* The vector of no bits: force4_ before the first force.
None == [i \in {} |-> BIT4_X]

\* The part selects of the signal.
Parts == {from .. to : from \in Index, to \in Index} \ {{}}

\* Some bits of f are those of new.
Over(f, part, new) == [i \in Index |-> IF i \in part THEN new[i] ELSE f[i]]

\* Both objects, what they sent and whether they told VPI, as one record for
\* the operators to pass on.
State == [fun |-> fun, fil |-> fil, out |-> out, told |-> FALSE]

Become(s) ==
    /\ fun' = s.fun
    /\ fil' = s.fil
    /\ out' = s.out
    /\ told' = s.told

-----------------------------------------------------------------------------
\* The filter.

\* filtered_value_, vec4_value: what the signal reads as.
Filtered(f) == [i \in Index |-> IF i \in f.force_mask THEN f.force4[i] ELSE f.bits4[i]]

\* What of a new value gets past the force: all of it, a replacement or none.
filter_mask_(s, part) ==
    LET f == s.fil
    IN  IF f.force_mask = {} \/ f.force_propagate \/ part \ f.force_mask # {}
        THEN [s EXCEPT !.out = Over(s.out, part, Filtered(f)), !.told = TRUE,
                       !.fil.force_propagate = f.force_propagate /\ f.force_mask = {}]
        ELSE s

\* filter_vec4 does not keep the value driven on a forced bit.
Send_ForcedLost(s, part, val) ==
    IF ~s.fil.needs_init /\ \A i \in part : s.fil.bits4[i] = val[i] THEN s
    ELSE filter_mask_([s EXCEPT !.fil.bits4 = Over(@, part \ s.fil.force_mask, val),
                                !.fil.needs_init = FALSE], part)

\* send_vec4 and send_vec4_pv through filter_vec4.
Send(s, part, val) ==
    IF ~s.fil.needs_init /\ \A i \in part : s.fil.bits4[i] = val[i] THEN s
    ELSE filter_mask_([s EXCEPT !.fil.bits4 = Over(@, part, val), !.fil.needs_init = FALSE], part)

\* vvp_net_t::force_vec4: every bit of val goes out, forced or not.
force_vec4(s, part, val) ==
    LET f == s.fil
    IN  [s EXCEPT !.fil = [f EXCEPT !.force_mask = f.force_mask \cup part,
                                    !.force_propagate = TRUE,
                                    !.force4 = IF f.force4 = None THEN val
                                               ELSE Over(f.force4, part, val)],
                  !.out = val,
                  !.told = TRUE]

-----------------------------------------------------------------------------
\* The functor of a variable.

\* recv_vec4 and recv_vec4_pv on port 0: an assignment.
recv_vec4(s, part, val) ==
    LET free == part \ s.fun.assign_mask
        new  == Over(s.fun.bits4, free, val)
        same == part = Index /\ s.fun.assign_mask = {} /\ ~s.fun.needs_init /\ s.fun.bits4 = new
    IN  IF free = {} \/ same THEN s
        ELSE Send([s EXCEPT !.fun.bits4 = new, !.fun.needs_init = FALSE], Index, new)

\* recv_vec4 and recv_vec4_pv on port 1: the value of an assign statement.
recv_cassign(s, part, val) ==
    LET new == Over(s.fun.bits4, part, val)
    IN  Send([s EXCEPT !.fun.bits4 = new, !.fun.assign_mask = @ \cup part], Index, new)

-----------------------------------------------------------------------------
\* A driver of the net, or an assignment to the variable.
Write(part, val) ==
    /\ Become(IF IsNet THEN Send(State, part, val) ELSE recv_vec4(State, part, val))
    /\ UNCHANGED <<source, force_link_, cassign_link>>

\* %force/vec4 and %force/vec4/off: unforced bits go out as they are.
ForceVec4(part, val) ==
    /\ Become(force_vec4(State, part, Over(Filtered(fil), part, val)))
    /\ UNCHANGED <<source, force_link_, cassign_link>>

\* force of another signal: its value now, then %force/link.
ForceSignal ==
    /\ Become(force_vec4(State, Index, source))
    /\ force_link_' = TRUE
    /\ UNCHANGED <<source, cassign_link>>

\* release of a net that filter_vec4 takes for no change.
ReleaseNet_NoInit(part) == Send([State EXCEPT !.fil.force_mask = @ \ part], part, fil.bits4)

\* release of a net: needs_init_ is set when the force hid another value, so
\* that the value gets past filter_vec4.
ReleaseNet(part) ==
    LET force4 == IF fil.force4 = None THEN Unknown ELSE fil.force4
        hidden == \/ fil.force4 = None /\ part = Index
                  \/ \E i \in part : force4[i] # fil.bits4[i]
        sent   == Send([State EXCEPT !.fil.force_mask = @ \ part, !.fil.needs_init = hidden],
                       part, fil.bits4)
    IN  [sent EXCEPT !.told = TRUE]

\* release of a variable: assign it the value it was forced to.
ReleaseReg(part) == recv_vec4([State EXCEPT !.fil.force_mask = @ \ part], part, Filtered(fil))

\* %release/net and %release/reg: a force link goes even for a part.
Release(part) ==
    /\ part \cap fil.force_mask \cap fun.assign_mask # {} => ReleaseOwned
    /\ Become(IF IsNet THEN ReleaseNet(part) ELSE ReleaseReg(part))
    /\ force_link_' = FALSE
    /\ UNCHANGED <<source, cassign_link>>

\* %cassign/vec4 and %cassign/vec4/off: an earlier link goes.
Assign(part, val) ==
    /\ Assigns
    /\ Become(recv_cassign(State, part, val))
    /\ cassign_link' = FALSE
    /\ UNCHANGED <<source, force_link_>>

\* assign of another signal: its value now, then %cassign/link.
AssignSignal ==
    /\ Assigns
    /\ Become(recv_cassign(State, Index, source))
    /\ cassign_link' = TRUE
    /\ UNCHANGED <<source, force_link_>>

\* %deassign: a part of a linked assign is refused, and a part of none asserts.
Deassign(part) ==
    /\ Assigns
    /\ part # Index => ~cassign_link /\ fun.assign_mask # {}
    /\ Become([State EXCEPT !.fun.assign_mask = @ \ part])
    /\ cassign_link' = FALSE
    /\ UNCHANGED <<source, force_link_>>

\* The source changes: its links deliver it in the order they were made.
SourceChanges(val) ==
    LET assigned(s) == IF cassign_link THEN recv_cassign(s, Index, val) ELSE s
        forced(s)   == IF force_link_ THEN force_vec4(s, Index, val) ELSE s
    IN  /\ source' = val
        /\ \/ Become(assigned(forced(State)))
           \/ Become(forced(assigned(State)))
        /\ UNCHANGED <<force_link_, cassign_link>>

Init ==
    /\ fun = [bits4 |-> Unknown, needs_init |-> TRUE, assign_mask |-> {}]
    /\ fil = [bits4 |-> Unknown, needs_init |-> TRUE, force4 |-> None,
              force_mask |-> {}, force_propagate |-> FALSE]
    /\ out = Unknown
    /\ told = FALSE
    /\ source = Unknown
    /\ force_link_ = FALSE
    /\ cassign_link = FALSE

Next == \/ ForceSignal
        \/ AssignSignal
        \/ \E part \in Parts : Release(part) \/ Deassign(part)
        \/ \E part \in Parts, val \in Values : Write(part, val) \/ ForceVec4(part, val)
        \/ \E part \in Parts, val \in Values : Assign(part, val)
        \/ \E val \in Values : SourceChanges(val)

Spec == Init /\ [][Next]_vars

-----------------------------------------------------------------------------
Bit == InputBits \cup {BIT4_X}
Vector == [Index -> Bit]

TypeOK ==
    /\ fun \in [bits4 : Vector, needs_init : BOOLEAN, assign_mask : SUBSET Index]
    /\ fil.bits4 \in Vector /\ fil.force4 \in Vector \cup {None}
    /\ fil.force_mask \subseteq Index
    /\ out \in Vector
    /\ source \in Vector
    /\ IsNet => fun.assign_mask = {}

\* filter_vec4 stops what the filter already has, and filter_mask_ what a
\* force hides: still the fan-out always has the value that readers see, so
\* no change is lost on the way and no forced bit leaks.
FanOutHasValue == out = Filtered(fil)

\* run_vpi_callbacks: no operation changes what the signal reads as without
\* telling the value change callbacks.
ChangeIsTold == Filtered(fil)' # Filtered(fil) => told'
ChangesAreTold == [][ChangeIsTold]_vars
=============================================================================
