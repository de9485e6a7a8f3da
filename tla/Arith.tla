------------------------------- MODULE Arith --------------------------------
(***************************************************************************)
(* The arithmetic, comparison and shift functors of vvp (vvp/arith.cc):    *)
(* nodes of the net that keep their two operands and send a new result     *)
(* each time one of them arrives.  They evaluate every continuous          *)
(* assignment with an operator, `assign y = a / b' included.               *)
(*                                                                         *)
(* Operands that fit a machine word are computed natively, wider ones on   *)
(* the two-state vectors of Vector2; X or Z in an operand makes the result *)
(* of an arithmetic functor X.  The two operands have the functor's width, *)
(* as the compiler guarantees.                                             *)
(***************************************************************************)
EXTENDS Bit4, Vector2

CONSTANTS WID,        \* width of the operands
          INT_BITS,   \* bits of an int; 32 in the real build
          Kinds,      \* the functors under study
          MaxXZ,      \* bound: X and Z bits of an operand that arrives
          MaxArrivals \* bound: operands that arrive

\* A shift amount that overflows a word is more than any width.
ArithAssumption ==
    /\ WID \in Nat \ {0} /\ INT_BITS \in Nat \ {0}
    /\ {"shiftl", "shiftr", "shiftr.s"} \cap Kinds # {} => WID < Base

VARIABLES kind,       \* which functor this is
          op_a, op_b, \* operands last received (op_a_, op_b_)
          out,        \* result last sent, or NoResult
          arrivals    \* operands received so far

vars == <<kind, op_a, op_b, out, arrivals>>

NoResult == <<>>
XVal == Filled(WID, BIT4_X)
Operands == {v \in Vectors(WID) :
                Cardinality({i \in DOMAIN v : bit4_is_xz(v[i])}) <= MaxXZ}

Known == ~has_xz(op_a) /\ ~has_xz(op_b)

(***************************************************************************)
(* What each functor computes from its operands.                           *)
(***************************************************************************)

\* vvp_vector2_t(that, true): X or Z makes a NaN.
ToVector2(v) == IF has_xz(v) THEN NaN ELSE Vec2(Value(v), WID)

vector2_to_vector4(v, n) == [i \in 0 .. n - 1 |-> bit(v, i)]

SignBit(v) == bit(v, v.wid - 1) = 1
Magnitude(v) == IF SignBit(v) THEN Negate(v) ELSE v

\* vvp_arith_div::wide4_.
WideDiv(a, b, signed) ==
    LET a2 == ToVector2(a)
        b2 == ToVector2(b)
        negate == signed /\ SignBit(a2) # SignBit(b2)
        res == IF signed THEN div_mod(Magnitude(a2), Magnitude(b2)).quotient
               ELSE div_mod(a2, b2).quotient
    IN  IF is_NaN(a2) \/ is_NaN(b2) \/ is_zero(b2) THEN XVal
        ELSE vector2_to_vector4(IF negate THEN Negate(res) ELSE res, WID)

\* vvp_arith_mod::wide_: the remainder takes the dividend's sign.
WideMod(a, b, signed) ==
    LET a2 == ToVector2(a)
        b2 == ToVector2(b)
        res == IF signed THEN div_mod(Magnitude(a2), Magnitude(b2)).remainder
               ELSE div_mod(a2, b2).remainder
    IN  IF is_NaN(a2) \/ is_NaN(b2) \/ is_zero(b2) THEN XVal
        ELSE vector2_to_vector4(IF signed /\ SignBit(a2) THEN Negate(res)
                                ELSE res, WID)

\* The native operand of a signed operation: its sign taken out.
NativeMagnitude(v, signed) ==
    IF signed /\ v[WID - 1] = BIT4_1 THEN (0 - Value(v)) % 2 ^ WID
    ELSE Value(v)

Native(x, negate) == OfNumber((IF negate THEN 0 - x ELSE x) % Base, WID)

Div(a, b, signed) ==
    IF WID > BITS_PER_WORD THEN WideDiv(a, b, signed)
    ELSE IF has_xz(a) \/ has_xz(b) THEN XVal
    ELSE LET x == NativeMagnitude(a, signed)
             y == NativeMagnitude(b, signed)
         IN  IF y = 0 THEN XVal
             ELSE Native(x \div y, signed /\ a[WID - 1] # b[WID - 1])

Mod(a, b, signed) ==
    IF WID > BITS_PER_WORD THEN WideMod(a, b, signed)
    ELSE IF has_xz(a) \/ has_xz(b) THEN XVal
    ELSE LET x == NativeMagnitude(a, signed)
             y == NativeMagnitude(b, signed)
         IN  IF y = 0 THEN XVal
             ELSE Native(x % y, signed /\ a[WID - 1] = BIT4_1)

Mult(a, b) ==
    IF has_xz(a) \/ has_xz(b) THEN XVal
    ELSE IF WID > BITS_PER_WORD
         THEN vector2_to_vector4(Multiply(ToVector2(a), ToVector2(b)), WID)
         ELSE OfNumber((Value(a) * Value(b)) % Base, WID)

\* A negative exponent is decided by the base, if that fits an int.
NegativePower(a, b) ==
    IF WID > INT_BITS THEN OfNumber(0, WID)
    ELSE CASE Signed(a) = 0 -> XVal
           [] Signed(a) = 1 -> OfNumber(1, WID)
           [] Signed(a) = -1 -> OfNumber(IF b[0] = BIT4_1 THEN -1 ELSE 1, WID)
           [] OTHER -> OfNumber(0, WID)

Pow(a, b, signed) ==
    IF has_xz(a) \/ has_xz(b) THEN XVal
    ELSE IF signed /\ b[WID - 1] = BIT4_1 THEN NegativePower(a, b)
    ELSE vector2_to_vector4(Power(ToVector2(a), ToVector2(b)), WID)

\* The adder's loop: an X sum bit makes the whole result X.
AddBits(a, b, carry0) ==
    LET step[i \in 0 .. WID - 1] ==
            add_with_carry(a[i], b[i], IF i = 0 THEN carry0
                                       ELSE step[i - 1].carry)
        value == [i \in 0 .. WID - 1 |-> step[i].sum]
    IN  IF \E i \in DOMAIN value : value[i] = BIT4_X THEN XVal ELSE value

Invert(v) == [i \in DOMAIN v |-> NotBit(v[i])]

Sum(a, b) == AddBits(a, b, BIT4_0)
Sub(a, b) == AddBits(a, Invert(b), BIT4_1)

\* vvp_arith_abs takes its operand on port 0 and keeps nothing.
Abs(a) ==
    CASE compare_gtge_signed(a, Filled(WID, BIT4_0), BIT4_1) = BIT4_1 -> a
      [] compare_gtge_signed(a, Filled(WID, BIT4_0), BIT4_1) = BIT4_0 ->
            AddBits(Invert(a), OfNumber(1, WID), BIT4_0)
      [] OTHER -> XVal

\* The loop of the equality functors, from bit 0: a pair of bits may be
\* ignored, may make the result unknown, or may differ and decide it.
CompareLoop(a, b, equal, ignored, unknown) ==
    LET step[i \in 0 .. WID] ==
            IF i = 0 THEN [res |-> equal, done |-> FALSE]
            ELSE LET p == step[i - 1]
                 IN  IF p.done \/ i - 1 \in ignored THEN p
                     ELSE IF i - 1 \in unknown THEN [p EXCEPT !.res = BIT4_X]
                     ELSE IF a[i - 1] # b[i - 1]
                          THEN [res |-> NotBit(equal), done |-> TRUE]
                     ELSE p
    IN  Filled(1, step[WID].res)

\* The positions a functor ignores or finds unknown.
Never == {}
AnyXZ(a, b) == {i \in DOMAIN a : bit4_is_xz(a[i]) \/ bit4_is_xz(b[i])}
LeftXZ(a) == {i \in DOMAIN a : bit4_is_xz(a[i])}
RightXZ(b) == {i \in DOMAIN b : bit4_is_xz(b[i])}
RightZ(b) == {i \in DOMAIN b : b[i] = BIT4_Z}

\* A shift amount is read as an unsigned long; a set bit above overflows.
ShiftAmount(b) == IF Value(b) >= Base \/ Value(b) > WID THEN WID ELSE Value(b)

Shiftl(a, b) ==
    IF has_xz(b) THEN XVal
    ELSE [i \in 0 .. WID - 1 |->
            IF i < ShiftAmount(b) THEN BIT4_0 ELSE a[i - ShiftAmount(b)]]

Shiftr(a, b, signed) ==
    IF has_xz(b) THEN XVal
    ELSE LET pad == IF signed THEN a[WID - 1] ELSE BIT4_0
         IN  [i \in 0 .. WID - 1 |->
                IF i + ShiftAmount(b) < WID THEN a[i + ShiftAmount(b)] ELSE pad]

Result(k, a, b) ==
    CASE k = "abs" -> Abs(a)
      [] k = "div" -> Div(a, b, FALSE)
      [] k = "div.s" -> Div(a, b, TRUE)
      [] k = "mod" -> Mod(a, b, FALSE)
      [] k = "mod.s" -> Mod(a, b, TRUE)
      [] k = "mult" -> Mult(a, b)
      [] k = "pow" -> Pow(a, b, FALSE)
      [] k = "pow.s" -> Pow(a, b, TRUE)
      [] k = "sum" -> Sum(a, b)
      [] k = "sub" -> Sub(a, b)
      [] k = "eeq" -> CompareLoop(a, b, BIT4_1, Never, Never)
      [] k = "nee" -> CompareLoop(a, b, BIT4_0, Never, Never)
      [] k = "eq" -> CompareLoop(a, b, BIT4_1, Never, AnyXZ(a, b))
      [] k = "ne" -> CompareLoop(a, b, BIT4_0, Never, AnyXZ(a, b))
      [] k = "eqx" -> CompareLoop(a, b, BIT4_1, RightXZ(b), Never)
      [] k = "eqz" -> CompareLoop(a, b, BIT4_1, RightZ(b), Never)
      [] k = "weq" -> CompareLoop(a, b, BIT4_1, RightXZ(b), LeftXZ(a))
      [] k = "wne" -> CompareLoop(a, b, BIT4_0, RightXZ(b), LeftXZ(a))
      [] k = "ge" -> Filled(1, compare_gtge(a, b, BIT4_1))
      [] k = "gt" -> Filled(1, compare_gtge(a, b, BIT4_0))
      [] k = "ge.s" -> Filled(1, compare_gtge_signed(a, b, BIT4_1))
      [] k = "gt.s" -> Filled(1, compare_gtge_signed(a, b, BIT4_0))
      [] k = "shiftl" -> Shiftl(a, b)
      [] k = "shiftr" -> Shiftr(a, b, FALSE)
      [] k = "shiftr.s" -> Shiftr(a, b, TRUE)
-----------------------------------------------------------------------------
\* The constructor vvp_arith_: both operands start as Z.
Init == /\ kind \in Kinds
        /\ op_a = Filled(WID, BIT4_Z)
        /\ op_b = Filled(WID, BIT4_Z)
        /\ out = NoResult
        /\ arrivals = 0

\* dispatch_operand_ keeps the operand of the port; the result goes out.
recv_vec4(port, v) ==
    /\ arrivals' = arrivals + 1
    /\ op_a' = IF port = 0 THEN v ELSE op_a
    /\ op_b' = IF port = 1 THEN v ELSE op_b
    /\ out' = Result(kind, op_a', op_b')
    /\ UNCHANGED kind

\* vvp_arith_abs has one port.
Next == /\ arrivals < MaxArrivals
        /\ \E v \in Operands, port \in {0, 1} :
              /\ kind = "abs" => port = 0
              /\ recv_vec4(port, v)

Spec == Init /\ [][Next]_vars
-----------------------------------------------------------------------------
(***************************************************************************)
(* What the operators mean, on integers.                                   *)
(***************************************************************************)
AbsInt(x) == IF x < 0 THEN 0 - x ELSE x

\* Division that truncates towards zero, and the remainder it leaves.
Quotient(x, y) == LET q == AbsInt(x) \div AbsInt(y)
                  IN  IF (x < 0) # (y < 0) THEN 0 - q ELSE q
Remainder(x, y) == x - y * Quotient(x, y)

PowerMod(x, n) ==
    LET p[i \in 0 .. n] == IF i = 0 THEN 1 % 2 ^ WID
                           ELSE (p[i - 1] * x) % 2 ^ WID
    IN  p[n]

\* IEEE 1364-2005 table 5-6: a base raised to a negative power.
NegativePowerRule(x, n) ==
    CASE x = 0 -> XVal
      [] x = 1 -> OfNumber(1, WID)
      [] x = -1 -> OfNumber(IF n % 2 = 1 THEN -1 ELSE 1, WID)
      [] OTHER -> OfNumber(0, WID)

\* b's X and Z bits are wildcards in Differ; a known difference decides.
Differ(a, b) == \E i \in DOMAIN a : i \notin AnyXZ(a, b) /\ a[i] # b[i]
WildMatch(a, b, Wild(_)) == \A i \in DOMAIN a : Wild(b[i]) \/ a[i] = b[i]

Bool(p) == Filled(1, IF p THEN BIT4_1 ELSE BIT4_0)
Order(p) == IF Known THEN Bool(p) ELSE Filled(1, BIT4_X)
ThreeWay(differ, unknown, equal) ==
    IF differ THEN Filled(1, NotBit(equal))
    ELSE IF unknown THEN Filled(1, BIT4_X) ELSE Filled(1, equal)

Meaning ==
    LET a == Value(op_a)
        b == Value(op_b)
        sa == Signed(op_a)
        sb == Signed(op_b)
        Arithmetic(p, x) == IF Known /\ p THEN OfNumber(x, WID) ELSE XVal
        leftUnknown == \E i \in DOMAIN op_a : /\ bit4_is_xz(op_a[i])
                                              /\ ~bit4_is_xz(op_b[i])
        amount == IF has_xz(op_b) THEN 0 ELSE b
    IN  CASE kind = "abs" -> IF has_xz(op_a) THEN XVal
                             ELSE OfNumber(AbsInt(sa), WID)
          [] kind = "div" -> Arithmetic(b # 0, a \div b)
          [] kind = "mod" -> Arithmetic(b # 0, a % b)
          [] kind = "div.s" -> Arithmetic(b # 0, Quotient(sa, sb))
          [] kind = "mod.s" -> Arithmetic(b # 0, Remainder(sa, sb))
          [] kind = "mult" -> Arithmetic(TRUE, a * b)
          [] kind = "pow" -> Arithmetic(TRUE, PowerMod(a, b))
          [] kind = "pow.s" ->
                IF Known /\ sb < 0 THEN NegativePowerRule(sa, sb)
                ELSE Arithmetic(TRUE, PowerMod(a, b))
          [] kind = "sum" -> Arithmetic(TRUE, a + b)
          [] kind = "sub" -> Arithmetic(TRUE, a - b)
          [] kind = "eeq" -> Bool(op_a = op_b)
          [] kind = "nee" -> Bool(op_a # op_b)
          [] kind = "eq" -> ThreeWay(Differ(op_a, op_b), ~Known, BIT4_1)
          [] kind = "ne" -> ThreeWay(Differ(op_a, op_b), ~Known, BIT4_0)
          [] kind = "weq" -> ThreeWay(Differ(op_a, op_b), leftUnknown, BIT4_1)
          [] kind = "wne" -> ThreeWay(Differ(op_a, op_b), leftUnknown, BIT4_0)
          [] kind = "eqx" -> Bool(WildMatch(op_a, op_b, bit4_is_xz))
          [] kind = "eqz" -> Bool(WildMatch(op_a, op_b, LAMBDA x : x = BIT4_Z))
          [] kind = "ge" -> Order(a >= b)
          [] kind = "gt" -> Order(a > b)
          [] kind = "ge.s" -> Order(sa >= sb)
          [] kind = "gt.s" -> Order(sa > sb)
          [] kind = "shiftl" ->
                IF has_xz(op_b) THEN XVal
                ELSE [i \in 0 .. WID - 1 |->
                        IF i >= amount THEN op_a[i - amount]
                        ELSE BIT4_0]
          [] kind \in {"shiftr", "shiftr.s"} ->
                IF has_xz(op_b) THEN XVal
                ELSE [i \in 0 .. WID - 1 |->
                        IF i + amount < WID THEN op_a[i + amount]
                        ELSE IF kind = "shiftr" THEN BIT4_0
                        ELSE op_a[WID - 1]]

\* The operands for which two wide functors are known to be wrong.
WideDivideByOne ==
    /\ kind = "div" /\ WID > BITS_PER_WORD /\ Known
    /\ Value(op_b) = 1 /\ Value(op_a) > 2 ^ (WID - 1)
WideNegativeExponent ==
    /\ kind = "pow.s" /\ WID > INT_BITS /\ Known
    /\ Signed(op_b) < 0 /\ Signed(op_a) \in {-1, 0, 1}

\* Operands are vectors of the functor's width.
TypeOK == /\ kind \in Kinds /\ arrivals \in 0 .. MaxArrivals
          /\ op_a \in Vectors(WID) /\ op_b \in Vectors(WID)
          /\ out = NoResult \/ out \in Vectors(1) \cup Vectors(WID)

\* In whatever order operands arrived, the result last sent is the operator's
\* value on the operands now held, two wide functors apart that are wrong for
\* known ones: a dividend above half the range divided by 1 (vvp_net.cc:2824)
\* and a negative power of 0, 1 or -1 (arith.cc:496).  Otherwise no carry is lost between
\* words, no bits above the width leak into the result, the native and the
\* wide path agree with the integers, signs are put back, and X and Z are
\* treated as the language says (vvp_arith_*::recv_vec4 and wide_).
ResultIsRight ==
    \/ out = NoResult
    \/ WideDivideByOne \/ WideNegativeExponent
    \/ out = Meaning
=============================================================================
