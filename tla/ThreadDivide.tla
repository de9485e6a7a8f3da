---------------------------- MODULE ThreadDivide ----------------------------
(***************************************************************************)
(* Division and remainder in procedural code: the opcodes %div, %div/s,    *)
(* %mod and %mod/s of a vvp thread (vvp/vthread.cc).  Operands of one word *)
(* use the native operators.  Wider ones use a long division of its own,   *)
(* unlike the one of the functors (Vector2, Arith): divide_bits guesses a  *)
(* word of the quotient from the top words, subtracts and corrects; the    *)
(* remainder opcodes subtract bit by bit (do_verylong_mod).  Each loop     *)
(* iteration is a step here.                                               *)
(***************************************************************************)
EXTENDS Vector2

Word == INSTANCE WordArithmetic

CONSTANTS WID,        \* width of the two operands
          Opcodes,    \* the opcodes under study
          WideDivisor \* whether a divisor of %div may have several words

DivideAssumption ==
    /\ WID \in Nat \ {0}
    /\ Opcodes \subseteq {"div", "div.s", "mod", "mod.s"}
    /\ WideDivisor \in BOOLEAN

VARIABLES
    pc,        \* the loop the thread is in
    op,        \* opcode
    a0, b0,    \* the operands popped: numbers below 2^WID, or XZ
    ap, bp,    \* words of the dividend, becoming the remainder; of the divisor
    result,    \* words of the quotient found so far
    cur,       \* word (div) or bit (mod) of the quotient being found, plus 1
    guess,     \* divide2words: the word of the quotient so far
    high, low, \* divide2words: the two words still to be divided
    diff,      \* the divisor times the guess
    mul_idx,   \* multiply_array_imm: the word of the divisor it is at
    negate,    \* the answer is to be negated at the end
    answer     \* what is pushed: a number below 2^WID, XZ, or Pending

product == <<diff, mul_idx>>
work == <<ap, bp, result, cur, guess, high, low, product, negate>>
vars == <<pc, op, a0, b0, work, answer>>

XZ == -1
Pending == -2

NumWords == Words(WID)
Top == NumWords - 1
Zero == [i \in 0 .. Top |-> 0]

\* A number in words, and words as a number, from word `from' up.
ToWords(x) == [i \in 0 .. Top |-> (x \div Base ^ i) % Base]
FromWord(w, from) ==
    LET sum[i \in from .. NumWords] ==
            IF i = from THEN 0 ELSE sum[i - 1] + w[i - 1] * Base ^ (i - 1 - from)
    IN  sum[NumWords]
Num(w) == FromWord(w, 0)

\* The operand sign extended to whole words.
SignExtended(x) ==
    IF x >= 2 ^ (WID - 1) THEN x + (Base ^ NumWords - 2 ^ WID) ELSE x
Negative(x) == x >= 2 ^ (WID - 1)
SignedNumber(x) == IF Negative(x) THEN x - 2 ^ WID ELSE x

\* Add b's words, moved up by `from', into a; the last carry is kept.
AddFrom(a, b, from, carry0) ==
    LET step[i \in from .. Top] ==
            Word!add_with_carry(a[i], b[i], IF i = from THEN carry0
                                            ELSE step[i - 1].carry)
    IN  [words |-> [i \in 0 .. Top |-> IF i < from THEN a[i] ELSE step[i].sum],
         carry |-> step[Top].carry]

MovedUp(w, from) == [i \in 0 .. Top |-> IF i < from THEN 0 ELSE w[i - from]]

negate_words(w) == AddFrom(Zero, Complement(w), 0, 1).words

BTop == LET nonzero == {i \in 0 .. Top : i = 0 \/ bp[i] # 0}
        IN  CHOOSE i \in nonzero : \A j \in nonzero : j <= i

AbsInt(x) == IF x < 0 THEN 0 - x ELSE x
Quotient(x, y) == LET q == AbsInt(x) \div AbsInt(y)
                  IN  IF (x < 0) # (y < 0) THEN 0 - q ELSE q
Remainder(x, y) == x - y * Quotient(x, y)
-----------------------------------------------------------------------------
\* One divisor word, or any; the operands of the other opcodes are any.
MayDivide(b) == \/ WideDivisor \/ op \in {"mod", "mod.s"}
                \/ b = XZ
                \/ AbsInt(IF op = "div" THEN b ELSE SignedNumber(b)) < Base

Init == /\ pc = "start"
        /\ op \in Opcodes
        /\ a0 \in 0 .. 2 ^ WID - 1 \cup {XZ}
        /\ b0 \in {b \in 0 .. 2 ^ WID - 1 \cup {XZ} : MayDivide(b)}
        /\ ap = Zero /\ bp = Zero /\ result = Zero
        /\ cur = 0 /\ guess = 0 /\ high = 0 /\ low = 0
        /\ diff = Zero /\ mul_idx = 0
        /\ negate = FALSE
        /\ answer = Pending

Signing == op \in {"div.s", "mod.s"}

Push(x) == pc' = "done" /\ answer' = x % 2 ^ WID
PushX == pc' = "done" /\ answer' = XZ

\* X or Z in an operand, or a zero divisor, gives X.
Undefined == /\ pc = "start"
             /\ a0 = XZ \/ b0 = XZ \/ b0 = 0
             /\ PushX
             /\ UNCHANGED <<op, a0, b0, work>>

\* One word: the native operators, and the one case they overflow in.
NativeOp == /\ pc = "start" /\ a0 # XZ /\ b0 # XZ /\ b0 # 0
            /\ WID <= BITS_PER_WORD
            /\ LET x == SignedNumber(a0)
                   y == SignedNumber(b0)
                   overflow == /\ WID = BITS_PER_WORD
                               /\ x = 0 - 2 ^ (BITS_PER_WORD - 1) /\ y = -1
               IN  CASE op = "div" -> Push(a0 \div b0)
                     [] op = "mod" -> Push(a0 % b0)
                     [] op = "div.s" /\ overflow -> Push(2 ^ (WID - 1))
                     [] op = "div.s" /\ ~overflow -> Push(Quotient(x, y))
                     [] op = "mod.s" /\ overflow -> Push(0)
                     [] op = "mod.s" /\ ~overflow -> Push(Remainder(x, y))
            /\ UNCHANGED <<op, a0, b0, work>>

\* Wide operands: signs out, then the long division.
Magnitude(x) == IF Signing /\ Negative(x)
                THEN negate_words(ToWords(SignExtended(x)))
                ELSE ToWords(x)

StartDivide == /\ pc = "start" /\ a0 # XZ /\ b0 # XZ /\ b0 # 0
               /\ WID > BITS_PER_WORD /\ op \in {"div", "div.s"}
               /\ ap' = Magnitude(a0)
               /\ bp' = Magnitude(b0)
               /\ negate' = (Signing /\ Negative(a0) # Negative(b0))
               /\ result' = Zero
               /\ cur' = NumWords - BTop'
               /\ pc' = "outer"
               /\ UNCHANGED <<op, a0, b0, guess, high, low, product, answer>>

\* The head of divide_bits' loop: whether there is a word of quotient to
\* find at cur, and what divide2words starts from.
NextWord == /\ pc = "outer" /\ cur > 0
            /\ LET at == cur - 1 + BTop
                   above == IF at + 1 < NumWords THEN ap[at + 1] ELSE 0
               IN  IF ap[at] < bp[BTop] /\ above = 0
                   THEN /\ cur' = cur - 1
                        /\ UNCHANGED <<pc, guess, high, low>>
                   ELSE /\ guess' = 0 /\ high' = above /\ low' = ap[at]
                        /\ pc' = "guess"
                        /\ UNCHANGED cur
            /\ UNCHANGED <<op, a0, b0, ap, bp, result, product, negate, answer>>

\* An iteration of divide2words: high words of the dividend are turned into
\* high * (Base \div b) of quotient and high * (Base % b) of dividend.
GuessHigh == /\ pc = "guess" /\ high > 0
             /\ LET b == bp[BTop]
                    r == (ULONG_MAX % b) + 1
                    remain == IF r >= b THEN r - b ELSE r
                    tmp == (ULONG_MAX \div b) + (IF r >= b THEN 1 ELSE 0)
                    p == Word!multiply_with_carry(high, remain)
                    a == (low + p.low) % Base
                IN  /\ guess' = (guess + tmp * high) % Base
                    /\ low' = a
                    /\ high' = p.high + (IF a < p.low THEN 1 ELSE 0)
             /\ UNCHANGED <<pc, op, a0, b0, ap, bp, result, cur, product, negate, answer>>

\* The guess is complete; multiply_array_imm is next.
GuessLow == /\ pc = "guess" /\ high = 0
            /\ guess' = (guess + (low \div bp[BTop])) % Base
            /\ diff' = Zero /\ mul_idx' = 0
            /\ pc' = "multiply"
            /\ UNCHANGED <<op, a0, b0, ap, bp, result, cur, high, low, negate, answer>>

\* An iteration of multiply_array_imm: the two words of a product are added in
\* at their place, the carry running to the top word; what passes that is lost.
MultiplyWord == /\ pc = "multiply" /\ mul_idx < NumWords - (cur - 1)
                /\ LET at == cur - 1 + mul_idx
                       p == Word!multiply_with_carry(bp[mul_idx], guess)
                       pair == [i \in 0 .. Top |-> IF i = at THEN p.low
                                                  ELSE IF i = at + 1 THEN p.high ELSE 0]
                   IN  diff' = AddFrom(diff, pair, at, 0).words
                /\ mul_idx' = mul_idx + 1
                /\ UNCHANGED <<pc, op, a0, b0, ap, bp, result, cur, guess, high, low,
                               negate, answer>>

\* The word of the quotient is found.
Found(q) == /\ result' = [result EXCEPT ![cur - 1] = q]
            /\ cur' = cur - 1
            /\ pc' = "outer"

\* Subtract the divisor times the guess.  No carry: the guess was too large.
SubtractProduct ==
    /\ pc = "multiply" /\ mul_idx = NumWords - (cur - 1)
    /\ LET s == AddFrom(ap, Complement(diff), cur - 1, 1)
       IN  /\ ap' = s.words
           /\ \/ s.carry = 0 /\ pc' = "addback" /\ UNCHANGED <<result, cur>>
              \/ s.carry # 0 /\ Found(guess)
    /\ UNCHANGED <<op, a0, b0, bp, guess, high, low, product, negate, answer>>

\* The divisor is added back but the guess keeps its value (mutant).
NotLowered(q) == q

Lowered(q) == (q - 1) % Base

\* The guess was too large: add the divisor back until there is a carry.
AddBack == /\ pc = "addback"
           /\ LET s == AddFrom(ap, MovedUp(bp, cur - 1), cur - 1, 0)
              IN  /\ ap' = s.words
                  /\ guess' = Lowered(guess)
                  /\ \/ s.carry = 0 /\ UNCHANGED <<pc, result, cur>>
                     \/ s.carry # 0 /\ Found(guess')
           /\ UNCHANGED <<op, a0, b0, bp, high, low, product, negate, answer>>

PushQuotient == /\ pc = "outer" /\ cur = 0
                /\ Push(Num(IF negate THEN negate_words(result) ELSE result))
                /\ UNCHANGED <<op, a0, b0, work>>

(***************************************************************************)
(* do_verylong_mod.  The bits are kept as numbers: ap is z, bp the divisor *)
(* whose complement is a.  A window of the dividend, one bit longer than   *)
(* the divisor, loses the divisor if that leaves a carry.                  *)
(***************************************************************************)
BitLength(x) == CHOOSE n \in 0 .. WID + 1 : /\ x < 2 ^ n
                                            /\ n = 0 \/ 2 ^ (n - 1) <= x

\* How many positions the divisor has under the dividend's top bit.
BitsToTry(la, lb) == IF lb > la THEN 0 ELSE la - lb + 1

StartMod == /\ pc = "start" /\ a0 # XZ /\ b0 # XZ /\ b0 # 0
            /\ WID > BITS_PER_WORD /\ op \in {"mod", "mod.s"}
            /\ ap' = Magnitude(a0)
            /\ bp' = Magnitude(b0)
            /\ negate' = (Signing /\ Negative(a0))
            /\ cur' = BitsToTry(BitLength(Num(ap')), BitLength(Num(bp')))
            /\ pc' = "mod"
            /\ UNCHANGED <<op, a0, b0, result, guess, high, low, product, answer>>

ModBit == /\ pc = "mod" /\ cur > 0
          /\ LET at == cur - 1
                 size == 2 ^ (BitLength(Num(bp)) + 1)
                 window == (Num(ap) \div 2 ^ at) % size
                 sum == window + (size - 1 - Num(bp)) + 1
             IN  ap' = IF sum >= size
                       THEN ToWords(Num(ap)
                                    + ((sum % size) - window) * 2 ^ at)
                       ELSE ap
          /\ cur' = cur - 1
          /\ UNCHANGED <<pc, op, a0, b0, bp, result, guess, high, low, product, negate, answer>>

PushRemainder == /\ pc = "mod" /\ cur = 0
                 /\ Push(IF negate THEN 0 - Num(ap) ELSE Num(ap))
                 /\ UNCHANGED <<op, a0, b0, work>>

Next == \/ Undefined \/ NativeOp
        \/ StartDivide \/ NextWord \/ GuessHigh \/ GuessLow
        \/ MultiplyWord \/ SubtractProduct \/ AddBack
        \/ PushQuotient
        \/ StartMod \/ ModBit \/ PushRemainder

Spec == Init /\ [][Next]_vars

\* A thread runs its instruction to the end without giving up control.
FairSpec == Spec /\ WF_vars(Next)
-----------------------------------------------------------------------------
\* Words are words, and the answer has the operands' width.
TypeOK ==
    /\ pc \in {"start", "outer", "guess", "multiply", "addback", "mod", "done"}
    /\ {ap, bp, result, diff} \subseteq [0 .. Top -> 0 .. ULONG_MAX]
    /\ guess \in 0 .. ULONG_MAX /\ high \in 0 .. ULONG_MAX
    /\ low \in 0 .. ULONG_MAX
    /\ cur \in 0 .. WID /\ mul_idx \in 0 .. NumWords
    /\ answer \in {Pending, XZ} \cup 0 .. 2 ^ WID - 1

\* The value the division started from.
StartValue == Num(Magnitude(a0))

\* divide_bits, between two words of the quotient: "input-a = bp * result +
\* ap" (vthread.cc:2827).  What has been subtracted from the dividend is
\* what the quotient accounts for, so no guess was off by an amount that
\* the sign of the truncated difference does not show.
DivisionInvariant ==
    pc = "outer" => StartValue = Num(bp) * Num(result) + Num(ap)

\* do_verylong_mod never lets the dividend leave its residue class, and
\* below the window nothing of the divisor is left over when it stops.
RemainderInvariant ==
    pc = "mod" => /\ Num(ap) % Num(bp) = StartValue % Num(bp)
                  /\ Num(ap) < Num(bp) * 2 ^ cur

\* What is pushed is what the operator means on integers, X for a zero
\* divisor or an unknown operand; the most negative number divided by -1
\* wraps (of_DIV, of_DIV_S, of_MOD, of_MOD_S).
AnswerIsRight ==
    pc = "done" =>
        answer = IF a0 = XZ \/ b0 = XZ \/ b0 = 0 THEN XZ
                 ELSE LET x == SignedNumber(a0)
                          y == SignedNumber(b0)
                      IN  CASE op = "div" -> a0 \div b0
                            [] op = "mod" -> a0 % b0
                            [] op = "div.s" -> Quotient(x, y) % 2 ^ WID
                            [] op = "mod.s" -> Remainder(x, y) % 2 ^ WID

\* Each iteration of divide2words leaves less to divide, high and low words
\* together (the carry out of low included): why its loop ends.
LessToDivide == pc = "guess" /\ high > 0 => high' * Base + low' < high * Base + low
TwoWordsShrink == [][LessToDivide]_vars

\* No operands keep the opcode in one of its loops for ever.
Terminates == <>(pc = "done")
=============================================================================
