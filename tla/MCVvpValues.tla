---------------------------- MODULE MCVvpValues -----------------------------
(***************************************************************************)
(* What vvp computes and delivers: packed vectors, arithmetic functors,    *)
(* delayed nets, forced and assigned signals, and nets with several        *)
(* drivers, each at its own sizes.  A behaviour is a behaviour of one of   *)
(* them, and unit says of which; the variables of the others are not used. *)
(***************************************************************************)
EXTENDS SignalStatements, Delay, Resolver

VARIABLES unit,
          functor, result, op_a, op_b, arrivals,
          v, bits, diff, differs

functorVars == <<functor, result, op_a, op_b, arrivals>>
vectorVars == <<v, bits, diff, differs>>
valueVars == <<unit, functorVars, vectorVars, delayVars, allvars, resolverVars>>

TwoState == {BIT4_0, BIT4_1}

-----------------------------------------------------------------------------
(* Functors: two words with X and Z, three words, and one native word. *)

Integral == {"abs", "div", "div.s", "mod", "mod.s", "mult", "pow", "pow.s", "sum", "sub",
             "ge", "gt", "ge.s", "gt.s"}
Functors == Integral \cup {"eeq", "nee", "eq", "ne", "eqx", "eqz", "weq", "wne",
                           "shiftl", "shiftr", "shiftr.s"}

Wide == INSTANCE Arith WITH
  kind <- functor, out <- result, BITS_PER_WORD <- 2, WID <- 3, INT_BITS <- 1, MaxXZ <- 3, MaxArrivals <- 2,
  Kinds <- Functors
Words == INSTANCE Arith WITH
  kind <- functor, out <- result, BITS_PER_WORD <- 2, WID <- 5, INT_BITS <- 1, MaxXZ <- 0, MaxArrivals <- 2,
  Kinds <- Integral
Native == INSTANCE Arith WITH
  kind <- functor, out <- result, BITS_PER_WORD <- 4, WID <- 3, INT_BITS <- 4, MaxXZ <- 1, MaxArrivals <- 2,
  Kinds <- Functors

(* Packed vectors of up to three words of two bits. *)

Four == INSTANCE Vector4 WITH BITS_PER_WORD <- 2, MaxSize <- 3, Alphabet <- Bits
Long == INSTANCE Vector4 WITH BITS_PER_WORD <- 2, MaxSize <- 6, Alphabet <- TwoState
Unknowns == INSTANCE Vector4 WITH
  BITS_PER_WORD <- 2, MaxSize <- 4, Alphabet <- {BIT4_1, BIT4_Z}

(* Delayed nets: Delay itself with the constants of the configuration, a net of *)
(* fixed delays; then a vector, delay expressions and a real.                   *)

Bus == INSTANCE Delay WITH
  Kind <- "vec4", NetWidth <- 2, Inputs <- TwoState, Delays <- {1, 2}, Variable <- FALSE,
  MaxChanges <- 1, ChangeWhenDue <- "not first", MaxTime <- 6
Varying == INSTANCE Delay WITH
  Kind <- "vec4", NetWidth <- 1, Inputs <- {BIT4_0, BIT4_1, BIT4_X}, Delays <- {0, 1, 2},
  Variable <- TRUE, MaxChanges <- 1, ChangeWhenDue <- "always", MaxTime <- 3
Real == INSTANCE Delay WITH
  Kind <- "real", NetWidth <- 1, Inputs <- {0, 1, 2}, Delays <- {0, 2},
  Variable <- TRUE, MaxChanges <- 2, ChangeWhenDue <- "never", MaxTime <- 6

(* Signals of two bits: SignalStatements itself with the constants of the       *)
(* configuration, a net; then a variable.                                       *)

Reg == INSTANCE SignalStatements WITH
  IsNet <- FALSE, Assigns <- TRUE, ReleaseOwned <- FALSE

(* Nets with several drivers: Resolver itself with the constants of the         *)
(* configuration, a tree of two levels, its second group a single node.         *)

Evenly(bit, strength) == scalar(bit, strength, strength)

\* Drivers that are equally strong both ways.
EvenDrivers ==
    {HiZ, Evenly(BIT4_0, 6), Evenly(BIT4_1, 6), Evenly(BIT4_1, 5), Evenly(BIT4_X, 3)}
StrongDrivers == {HiZ, Evenly(BIT4_0, 6), Evenly(BIT4_1, 3)}
StrongZeros == {BIT4_0}

\* Every scalar a driver can be declared to send: two drivers compare four strengths.
Strengths == {0, 3, 5, 6, 7}
AllDrivers == {scalar(bit, s0, s1) : bit \in Bits, s0 \in Strengths, s1 \in Strengths}

\* A tree of three levels, the last port alone in its groups.
Deep == INSTANCE Resolver WITH
  NPorts <- 17, ActivePorts <- {0, 6, 16}, VectorWidth <- 1, Partial <- FALSE,
  Drivers <- EvenDrivers, Drivers4 <- {}, Kinds <- {"tri", "tri1", "triand"}
\* Two drivers of two bits, in whole or in part.
Split == INSTANCE Resolver WITH
  NPorts <- 2, ActivePorts <- {0, 1}, VectorWidth <- 2, Partial <- TRUE,
  Drivers <- StrongDrivers, Drivers4 <- {BIT4_1, BIT4_X}, Kinds <- {"tri0", "trior"}
\* Two drivers with any strengths.
Uneven == INSTANCE Resolver WITH
  NPorts <- 2, ActivePorts <- {0, 1}, VectorWidth <- 1, Partial <- FALSE,
  Drivers <- AllDrivers, Drivers4 <- {}, Kinds <- {"tri"}

-----------------------------------------------------------------------------
ASSUME FunctorsAssumption ==
    /\ Wide!ArithAssumption /\ Words!ArithAssumption /\ Native!ArithAssumption
    /\ Wide!WordAssumption /\ Native!WordAssumption
ASSUME VectorsAssumption ==
    Four!Vector4Assumption /\ Long!Vector4Assumption /\ Unknowns!Vector4Assumption
ASSUME DelaysAssumption ==
    /\ DelayAssumption /\ Bus!DelayAssumption
    /\ Varying!DelayAssumption /\ Real!DelayAssumption
ASSUME SignalsAssumption == SignalAssumption /\ Reg!SignalAssumption
ASSUME ResolversAssumption ==
    /\ ResolverAssumption /\ Deep!ResolverAssumption
    /\ Split!ResolverAssumption /\ Uneven!ResolverAssumption

NoFunctor == functor = 0 /\ result = 0 /\ op_a = 0 /\ op_b = 0 /\ arrivals = 0
NoVector == v = 0 /\ bits = 0 /\ diff = 0 /\ differs = 0
\* A delayed net, a signal and a resolver that nothing happens to.
IdleDelay == DelayInit /\ delay_ = Constructed(0, 0, 0, FALSE)
IdleSignal == StatementsInit
IdleResolver == ResolverInit /\ kind = "tri"

ValuesInit ==
    \/ /\ \/ unit = "wide" /\ Wide!Init
          \/ unit = "words" /\ Words!Init
          \/ unit = "native" /\ Native!Init
       /\ NoVector /\ IdleDelay /\ IdleSignal /\ IdleResolver
    \/ /\ \/ unit = "four" /\ Four!Init
          \/ unit = "long" /\ Long!Init
          \/ unit = "unknowns" /\ Unknowns!Init
       /\ NoFunctor /\ IdleDelay /\ IdleSignal /\ IdleResolver
    \/ /\ \/ unit = "fixed" /\ DelayInit
          \/ unit = "bus" /\ Bus!DelayInit
          \/ unit = "varying" /\ Varying!DelayInit
          \/ unit = "real" /\ Real!DelayInit
       /\ NoFunctor /\ NoVector /\ IdleSignal /\ IdleResolver
    \/ /\ \/ unit = "net" /\ StatementsInit
          \/ unit = "reg" /\ Reg!StatementsInit
       /\ NoFunctor /\ NoVector /\ IdleDelay /\ IdleResolver
    \/ /\ \/ unit = "tree" /\ ResolverInit
          \/ unit = "deep" /\ Deep!ResolverInit
          \/ unit = "split" /\ Split!ResolverInit
          \/ unit = "uneven" /\ Uneven!ResolverInit
       /\ NoFunctor /\ NoVector /\ IdleDelay /\ IdleSignal

ValuesNext ==
    \/ /\ \/ unit = "wide" /\ Wide!Next
          \/ unit = "words" /\ Words!Next
          \/ unit = "native" /\ Native!Next
       /\ UNCHANGED <<unit, vectorVars, delayVars, allvars, resolverVars>>
    \/ /\ \/ unit = "four" /\ Four!Next
          \/ unit = "long" /\ Long!Next
          \/ unit = "unknowns" /\ Unknowns!Next
       /\ UNCHANGED <<unit, functorVars, delayVars, allvars, resolverVars>>
    \/ /\ \/ unit = "fixed" /\ DelayNext
          \/ unit = "bus" /\ Bus!DelayNext
          \/ unit = "varying" /\ Varying!DelayNext
          \/ unit = "real" /\ Real!DelayNext
       /\ UNCHANGED <<unit, functorVars, vectorVars, allvars, resolverVars>>
    \/ /\ \/ unit = "net" /\ StatementsNext
          \/ unit = "reg" /\ Reg!StatementsNext
       /\ UNCHANGED <<unit, functorVars, vectorVars, delayVars, resolverVars>>
    \/ /\ \/ unit = "tree" /\ ResolverNext
          \/ unit = "deep" /\ Deep!ResolverNext
          \/ unit = "split" /\ Split!ResolverNext
          \/ unit = "uneven" /\ Uneven!ResolverNext
       /\ UNCHANGED <<unit, functorVars, vectorVars, delayVars, allvars>>

ValuesSpec == ValuesInit /\ [][ValuesNext]_valueVars

-----------------------------------------------------------------------------
\* vvp_arith_*::recv_vec4 and wide_: the result last sent is the operator's value
\* on the operands now held, at every width; excused are wide divisions by 1 and wide
\* negative powers of 0, 1 and -1 that are known to be wrong.
ResultIsRight == /\ unit = "wide" => Wide!TypeOK /\ Wide!ResultIsRight
                 /\ unit = "words" => Words!ResultIsRight
                 /\ unit = "native" => Native!ResultIsRight

\* vvp_vector4_t: a packed vector stands for the bits that the calls ask for, and
\* set_vec answers true exactly when one of them changed.
StandsForBits ==
    /\ unit = "four" => Four!TypeOK /\ Four!StandsForBits /\ Four!ReportsChange
    /\ unit = "long" => Long!StandsForBits
    /\ unit = "unknowns" => Unknowns!StandsForBits /\ Unknowns!ReportsChange

\* vvp_vector4_t::subvalue, subarray, eeq, eq_xz, has_xz: what is read from a vector
\* depends on its bits alone, at any alignment, and is X past its end.
ReadsBits ==
    /\ unit = "four" => Four!SelectsPart /\ Four!ArrayIsPart /\ Four!ComparesBits
    /\ unit = "long" => Long!SelectsPart /\ Long!ArrayIsPart

(* Of delays, signals and nets the properties are those of the modules:              *)
(* InputArrives, ReadsAsPromised, ChangesAreTold and NetIsResolved.                  *)

\* vvp_fun_delay::clean_pulse_events_: where delays are fixed, each bit of the output
\* changes when the input has held the new vector for that bit's own delay; bits with
\* different delays, which the code makes wait for the longest, are never early.
FixedDelayIsInertial == [][/\ unit = "fixed" => InertialStep
                           /\ unit = "bus" => Bus!InertialStep]_valueVars
=============================================================================
