------------------------------ MODULE Strength ------------------------------
(***************************************************************************)
(* vvp_scalar_t (vvp/vvp_net.h, vvp/vvp_net.cc): one bit with the strength *)
(* of its driver.  The byte VSSSvsss is a pair of ends, hi closest to      *)
(* supply1 and lo closest to supply0, each a value bit v and a strength s; *)
(* the bit may be anything between them.                                   *)
(***************************************************************************)
EXTENDS Bit4, Integers, FiniteSetsExt

End(v, s) == [v |-> v, s |-> s]
Scalar(hi, lo) == [hi |-> hi, lo |-> lo]
Ends == [v : BOOLEAN, s : 0 .. 7]
Scalars == [hi : Ends, lo : Ends]

HiZ == Scalar(End(FALSE, 0), End(FALSE, 0))

\* The constructor from a value and the strengths of its driver.
scalar(val, str0, str1) ==
  CASE val = BIT4_Z \/ (str0 = 0 /\ str1 = 0) -> HiZ
    [] val = BIT4_0 /\ str0 + str1 > 0 -> Scalar(End(FALSE, str0), End(FALSE, str0))
    [] val = BIT4_1 /\ str0 + str1 > 0 -> Scalar(End(TRUE, str1), End(TRUE, str1))
    [] val = BIT4_X /\ str0 + str1 > 0 -> Scalar(End(TRUE, str1), End(FALSE, str0))

\* What a driver can be declared to send.
Declared == {scalar(val, str0, str1) : val \in Bits, str0 \in 0 .. 7, str1 \in 0 .. 7}

is_hiz(a) == a.hi.s = 0 /\ a.lo.s = 0

\* value(): the strength is dropped.
scalar_value(a) ==
  CASE is_hiz(a)                           -> BIT4_Z
    [] ~is_hiz(a) /\ a.hi.v /\ a.lo.v      -> BIT4_1
    [] ~is_hiz(a) /\ ~a.hi.v /\ ~a.lo.v    -> BIT4_0
    [] ~is_hiz(a) /\ a.hi.v # a.lo.v       -> BIT4_X

UNAMBIG(a) == a.hi = a.lo

\* An end as a signed level, from -7 (supply0) to 7 (supply1).
Level(e) == IF e.v THEN e.s ELSE -e.s

\* Both ends known, and not the same.
StrongerOf(a, b) ==
  CASE b.lo.s > a.lo.s -> b
    [] b.lo.s = a.lo.s -> Scalar(End(TRUE, a.hi.s), End(FALSE, a.lo.s))
    [] b.lo.s < a.lo.s -> a

\* A known bit a takes the place of the ends of b that are weaker.
SweepUp(a, b) ==
  Scalar(IF a.hi.s > b.hi.s THEN a.hi ELSE b.hi,
         IF a.lo.s > b.lo.s THEN a.lo ELSE b.lo)

\* Two ambiguous bits: the result spans both.
Widen(a, b) ==
  LET levels == {Level(e) : e \in {a.hi, a.lo, b.hi, b.lo}}
      sv1    == Max(levels)
      sv0    == Min(levels)
      res    == Scalar(IF sv1 > 0 THEN End(TRUE, sv1) ELSE End(a.hi.v /\ b.hi.v, -sv1),
                       IF sv0 > 0 THEN End(TRUE, sv0) ELSE End(FALSE, -sv0))
  IN IF is_hiz(res) THEN HiZ ELSE res

fully_featured_resolv_(a, b) ==
  CASE UNAMBIG(a) /\ UNAMBIG(b)   -> StrongerOf(a, b)
    [] UNAMBIG(a) /\ ~UNAMBIG(b)  -> SweepUp(a, b)
    [] ~UNAMBIG(a) /\ UNAMBIG(b)  -> SweepUp(b, a)
    [] ~UNAMBIG(a) /\ ~UNAMBIG(b) -> Widen(a, b)

\* Two drivers of one net.
resolve(a, b) ==
  CASE is_hiz(a) -> b
    [] ~is_hiz(a) /\ (is_hiz(b) \/ a = b) -> a
    [] ~is_hiz(a) /\ ~is_hiz(b) /\ a # b -> fully_featured_resolv_(a, b)

=============================================================================
