---------------------------- MODULE SignalSpec -----------------------------
(***************************************************************************)
(* What the force, release, assign and deassign statements promise about   *)
(* the bits of a net or a variable (the opcodes' description in            *)
(* Documentation/developer/guide/vvp/opcodes.rst), as one action for each. *)
(* Every action is enabled in every state and has one outcome.             *)
(***************************************************************************)
CONSTANTS Index,   \* the bits of the signal
          Bit,     \* the values of a bit
          IsNet    \* a net, which has drivers, or a variable, which is set

VARIABLES value,     \* what the signal reads as
          driven,    \* what the drivers of a net make it
          forced,    \* the bits under a force
          assigned   \* the bits under a procedural continuous assignment

vars == <<value, driven, forced, assigned>>

\* Some bits take new values.
Over(f, part, new) == [i \in Index |-> IF i \in part THEN new[i] ELSE f[i]]

\* A driver of the net, or an assignment to the variable.
Write(part, new) ==
    /\ driven' = IF IsNet THEN Over(driven, part, new) ELSE driven
    /\ value' = Over(value, part \ (forced \cup assigned), new)
    /\ UNCHANGED <<forced, assigned>>

Force(part, new) ==
    /\ value' = Over(value, part, new)
    /\ forced' = forced \cup part
    /\ UNCHANGED <<driven, assigned>>

\* A net goes back to what drives it; a variable holds its value.
Release(part) ==
    /\ value' = IF IsNet THEN Over(value, part, driven) ELSE value
    /\ forced' = forced \ part
    /\ UNCHANGED <<driven, assigned>>

Assign(part, new) ==
    /\ value' = Over(value, part \ forced, new)
    /\ assigned' = assigned \cup part
    /\ UNCHANGED <<driven, forced>>

Deassign(part) ==
    /\ assigned' = assigned \ part
    /\ UNCHANGED <<value, driven, forced>>

\* The signal assigned to it changes, and it is forced to that signal too.
AssignAndForce(new) ==
    /\ value' = new
    /\ assigned' = Index
    /\ forced' = Index
    /\ UNCHANGED driven

Init ==
    /\ value \in [Index -> Bit]
    /\ driven = value
    /\ forced = {}
    /\ assigned = {}
=============================================================================
