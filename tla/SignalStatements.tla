-------------------------- MODULE SignalStatements --------------------------
(***************************************************************************)
(* Signal and SignalSpec side by side: each statement is carried out by    *)
(* both.  Since every action of SignalSpec has one outcome, its state is   *)
(* determined by the statements executed so far, and the two must agree    *)
(* after each of them.                                                     *)
(***************************************************************************)
EXTENDS Signal

VARIABLES value, driven, forced, assigned

allvars == <<vars, value, driven, forced, assigned>>

Promise == INSTANCE SignalSpec

\* What the links make of a change of the source.
Followed(val) ==
    CASE force_link_ /\ cassign_link -> Promise!AssignAndForce(val)
      [] force_link_ /\ ~cassign_link -> Promise!Force(Index, val)
      [] ~force_link_ /\ cassign_link -> Promise!Assign(Index, val)
      [] OTHER -> UNCHANGED <<value, driven, forced, assigned>>

StatementsInit == Init /\ Promise!Init /\ value = Unknown

StatementsNext ==
    \/ ForceSignal /\ Promise!Force(Index, source)
    \/ AssignSignal /\ Promise!Assign(Index, source)
    \/ \E part \in Parts : \/ Release(part) /\ Promise!Release(part)
                           \/ Deassign(part) /\ Promise!Deassign(part)
    \/ \E part \in Parts, val \in Values :
          \/ Write(part, val) /\ Promise!Write(part, val)
          \/ ForceVec4(part, val) /\ Promise!Force(part, val)
          \/ Assign(part, val) /\ Promise!Assign(part, val)
    \/ \E val \in Values : SourceChanges(val) /\ Followed(val)

StatementsSpec == StatementsInit /\ [][StatementsNext]_allvars

-----------------------------------------------------------------------------
\* do_release_vec, force_vec4, recv_vec4 and their filters: whatever was
\* driven, forced, assigned, released or linked before, the signal reads as
\* the statements say, its fan-out has that value, and the same bits are
\* forced and assigned.
ReadsAsPromised ==
    /\ FanOutHasValue
    /\ value = Filtered(fil)
    /\ forced = fil.force_mask
    /\ assigned = fun.assign_mask
=============================================================================
