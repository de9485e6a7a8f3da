--------------------------- MODULE ResolverProofs ---------------------------
(***************************************************************************)
(* A net with several drivers has the value that its drivers give it, for  *)
(* any number of drivers and any width.  The proof has four parts: what    *)
(* two bits resolve to, and that it does not matter in which order and how *)
(* often they do; the shape of the tree; that a climb which stops at the   *)
(* first node that does not change leaves every node above the ports equal *)
(* to the resolution of its group; and that such a tree has the resolution *)
(* of all its ports in the root.                                           *)
(***************************************************************************)
EXTENDS Resolver, TLAPS, NaturalsInduction, WellFoundedInduction

-----------------------------------------------------------------------------
(* Induction, and functions that are defined step by step. *)

\* A set of naturals has a least element.
LEMMA LeastNatural ==
  ASSUME NEW T, T \subseteq Nat, T # {}
  PROVE  \E x \in T : \A y \in T : x <= y
<1>1. IsWellFoundedOn({ss \in Nat \X Nat : ss[1] < ss[2]}, Nat)
  BY NatLessThanWellFounded, Zenon DEF OpToRel
<1>2. PICK x \in T : \A y \in T : ~(<<y, x>> \in {ss \in Nat \X Nat : ss[1] < ss[2]})
  BY <1>1, WFMin
<1>3. ASSUME NEW y \in T PROVE x <= y
  <2>1. ~(<<y, x>> \in {ss \in Nat \X Nat : ss[1] < ss[2]})
    BY <1>2
  <2>2. <<y, x>> \in Nat \X Nat /\ <<y, x>>[1] = y /\ <<y, x>>[2] = x
    OBVIOUS
  <2>3. ~(y < x)
    BY <2>1, <2>2
  <2> QED
    BY <2>3
<1> QED
  BY <1>3

\* A set that holds 0 and with n also n + 1, up to a bound, holds everything
\* up to the bound.
LEMMA UpTo ==
  ASSUME NEW m \in Nat, NEW S, 0 \in S, \A n \in 0..(m - 1) : n \in S => n + 1 \in S
  PROVE  0..m \subseteq S
<1> DEFINE T == (0..m) \ S
<1> SUFFICES ASSUME T # {} PROVE FALSE
  OBVIOUS
<1>1. PICK x \in T : \A y \in T : x <= y
  <2>1. T \subseteq Nat
    OBVIOUS
  <2> HIDE DEF T
  <2> QED
    BY <2>1, LeastNatural
<1>2. x - 1 \in 0..(m - 1) /\ x - 1 \in S
  BY <1>1
<1> QED
  BY <1>1, <1>2

\* f starts with a and goes on by F, up to m.
Iterates(f, F, a, m) == f[0] = a /\ \A n \in 1..m : f[n] = F[<<n, f[n - 1]>>]

\* There is such a function.
LEMMA IteratesExist ==
  ASSUME NEW m \in Nat, NEW R, NEW a \in R, NEW F,
         \A n \in 1..m : \A x \in R : F[<<n, x>>] \in R
  PROVE  \E f \in [0..m -> R] : Iterates(f, F, a, m)
<1> DEFINE S == {n \in 0..m : \E f \in [0..n -> R] : Iterates(f, F, a, n)}
<1>1. 0 \in S
  <2> DEFINE f == [n \in 0..0 |-> a]
  <2>1. f \in [0..0 -> R] /\ Iterates(f, F, a, 0)
    BY DEF Iterates
  <2> HIDE DEF f
  <2> QED BY <2>1
<1>2. ASSUME NEW n \in 0..(m - 1), n \in S PROVE n + 1 \in S
  <2>1. PICK f \in [0..n -> R] : Iterates(f, F, a, n)
    BY <1>2
  <2> DEFINE g == [k \in 0..(n + 1) |-> IF k = n + 1 THEN F[<<n + 1, f[n]>>] ELSE f[k]]
  <2>2. F[<<n + 1, f[n]>>] \in R
    BY <2>1
  <2>3. g \in [0..(n + 1) -> R]
    BY <2>1, <2>2
  <2>4. g[0] = a
    BY <2>1 DEF Iterates
  <2>5. ASSUME NEW k \in 1..(n + 1) PROVE g[k] = F[<<k, g[k - 1]>>]
    <3>1. CASE k = n + 1
      <4>1. g[k] = F[<<n + 1, f[n]>>] /\ g[k - 1] = f[n]
        BY <3>1
      <4> QED BY <3>1, <4>1
    <3>2. CASE k \in 1..n
      <4>1. g[k] = f[k] /\ g[k - 1] = f[k - 1]
        BY <3>2
      <4>2. f[k] = F[<<k, f[k - 1]>>]
        BY <2>1, <3>2 DEF Iterates
      <4> QED BY <4>1, <4>2
    <3> QED BY <3>1, <3>2
  <2>6. Iterates(g, F, a, n + 1)
    <3> HIDE DEF g
    <3> QED BY <2>4, <2>5 DEF Iterates
  <2> HIDE DEF g
  <2>7. n + 1 \in 0..m
    OBVIOUS
  <2> QED BY <2>3, <2>6, <2>7
<1>3. 0..m \subseteq S
  <2> HIDE DEF S
  <2> QED BY <1>1, <1>2, UpTo
<1>4. m \in S
  <2> HIDE DEF S
  <2> QED BY <1>3
<1> QED
  BY <1>4

-----------------------------------------------------------------------------
(* The levels of the tree. *)

\* Span and Base satisfy their definitions.
LEMMA SpanSteps ==
  ASSUME ResolverAssumption
  PROVE  /\ Span[0] = NPorts
         /\ \A n \in 1..NPorts : Span[n] = (Span[n - 1] + 3) \div 4
         /\ \A n \in 0..NPorts : Span[n] \in Nat
<1> DEFINE F == [y \in (1..NPorts) \X Nat |-> (y[2] + 3) \div 4]
           body(f) == [n \in 0..NPorts |-> IF n = 0 THEN NPorts ELSE (f[n - 1] + 3) \div 4]
<1>0. NPorts \in Nat
  BY DEF ResolverAssumption
<1>1. \A n \in 1..NPorts : \A x \in Nat : F[<<n, x>>] = (x + 3) \div 4 /\ F[<<n, x>>] \in Nat
  OBVIOUS
<1>2. PICK f \in [0..NPorts -> Nat] : Iterates(f, F, NPorts, NPorts)
  <2> HIDE DEF F
  <2> QED BY <1>0, <1>1, IteratesExist
<1>3. \A n \in 1..NPorts : f[n - 1] \in Nat /\ f[n] = (f[n - 1] + 3) \div 4
  <2> SUFFICES ASSUME NEW n \in 1..NPorts PROVE f[n - 1] \in Nat /\ f[n] = (f[n - 1] + 3) \div 4
    OBVIOUS
  <2>1. f[n - 1] \in Nat
    BY <1>0
  <2>2. f[n] = F[<<n, f[n - 1]>>]
    BY <1>2 DEF Iterates
  <2> HIDE DEF F
  <2> QED BY <1>1, <2>1, <2>2
<1>4. f = body(f)
  BY <1>0, <1>2, <1>3 DEF Iterates
<1>5. Span = body(Span)
  <2>1. \E g : g = body(g)
    BY <1>4
  <2> HIDE DEF body
  <2>2. Span = CHOOSE g : g = body(g)
    BY DEF Span, body
  <2> QED BY <2>1, <2>2
<1>6. Span[0] = NPorts /\ \A n \in 1..NPorts : Span[n] = (Span[n - 1] + 3) \div 4
  <2>1. \A n \in 0..NPorts : Span[n] = IF n = 0 THEN NPorts ELSE (Span[n - 1] + 3) \div 4
    BY <1>5
  <2> QED BY <1>0, <2>1
<1>7. \A n \in 0..NPorts : Span[n] \in Nat
  <2> DEFINE S == {n \in 0..NPorts : Span[n] \in Nat}
  <2>1. 0 \in S
    BY <1>0, <1>6
  <2>2. ASSUME NEW n \in 0..(NPorts - 1), n \in S PROVE n + 1 \in S
    <3>1. Span[n + 1] = (Span[n] + 3) \div 4
      <4>1. n + 1 \in 1..NPorts /\ (n + 1) - 1 = n
        BY <1>0
      <4> QED BY <1>6, <4>1
    <3> QED BY <1>0, <2>2, <3>1
  <2>3. 0..NPorts \subseteq S
    <3> HIDE DEF S
    <3> QED BY <1>0, <2>1, <2>2, UpTo
  <2> QED BY <2>3
<1> QED
  BY <1>6, <1>7

\* Base likewise: each level starts where the one below it ends.
LEMMA BaseSteps ==
  ASSUME ResolverAssumption
  PROVE  /\ Base[0] = 0
         /\ \A n \in 1..NPorts : Base[n] = Base[n - 1] + Span[n - 1]
         /\ \A n \in 0..NPorts : Base[n] \in Nat
<1> DEFINE F == [y \in (1..NPorts) \X Nat |-> y[2] + Span[y[1] - 1]]
           body(f) == [n \in 0..NPorts |-> IF n = 0 THEN 0 ELSE f[n - 1] + Span[n - 1]]
<1>0. NPorts \in Nat /\ \A n \in 1..NPorts : Span[n - 1] \in Nat
  <2>1. NPorts \in Nat
    BY DEF ResolverAssumption
  <2> QED BY <2>1, SpanSteps
<1>1. \A n \in 1..NPorts : \A x \in Nat : F[<<n, x>>] = x + Span[n - 1] /\ F[<<n, x>>] \in Nat
  BY <1>0
<1>2. PICK f \in [0..NPorts -> Nat] : Iterates(f, F, 0, NPorts)
  <2> HIDE DEF F
  <2> QED BY <1>0, <1>1, IteratesExist
<1>3. \A n \in 1..NPorts : f[n - 1] \in Nat /\ f[n] = f[n - 1] + Span[n - 1]
  <2> SUFFICES ASSUME NEW n \in 1..NPorts PROVE f[n - 1] \in Nat /\ f[n] = f[n - 1] + Span[n - 1]
    OBVIOUS
  <2>1. f[n - 1] \in Nat
    BY <1>0
  <2>2. f[n] = F[<<n, f[n - 1]>>]
    BY <1>2 DEF Iterates
  <2> HIDE DEF F
  <2> QED BY <1>1, <2>1, <2>2
<1>4. f = body(f)
  BY <1>0, <1>2, <1>3 DEF Iterates
<1>5. Base = body(Base)
  <2>1. \E g : g = body(g)
    BY <1>4
  <2> HIDE DEF body
  <2>2. Base = CHOOSE g : g = body(g)
    BY DEF Base, body
  <2> QED BY <2>1, <2>2
<1>6. Base[0] = 0 /\ \A n \in 1..NPorts : Base[n] = Base[n - 1] + Span[n - 1]
  <2>1. \A n \in 0..NPorts : Base[n] = IF n = 0 THEN 0 ELSE Base[n - 1] + Span[n - 1]
    BY <1>5
  <2> QED BY <1>0, <2>1
<1>7. \A n \in 0..NPorts : Base[n] \in Nat
  <2> DEFINE S == {n \in 0..NPorts : Base[n] \in Nat}
  <2>1. 0 \in S
    BY <1>0, <1>6
  <2>2. ASSUME NEW n \in 0..(NPorts - 1), n \in S PROVE n + 1 \in S
    <3>1. Base[n + 1] = Base[n] + Span[n] /\ Span[n] \in Nat
      <4>1. n + 1 \in 1..NPorts /\ (n + 1) - 1 = n
        BY <1>0
      <4> QED BY <1>0, <1>6, <4>1
    <3> QED BY <1>0, <2>2, <3>1
  <2>3. 0..NPorts \subseteq S
    <3> HIDE DEF S
    <3> QED BY <1>0, <2>1, <2>2, UpTo
  <2> QED BY <2>3
<1> QED
  BY <1>6, <1>7

-----------------------------------------------------------------------------
(* One bit: scalars. *)

\* A driver that is as strong towards 0 as towards 1, by its ends.
EvenForm(d) ==
  /\ d \in Scalars /\ d.hi.s = d.lo.s
  /\ d.lo.v => d.hi.v
  /\ d.hi.s = 0 => ~d.hi.v

\* The constructor makes a scalar.
LEMMA ScalarsOf ==
  ASSUME NEW val \in Bits, NEW s \in 0..7, NEW t \in 0..7
  PROVE  scalar(val, s, t) \in Scalars
BY DEF scalar, HiZ, Scalar, End, Scalars, Ends, Bits, BIT4_0, BIT4_1, BIT4_X, BIT4_Z

\* What the constructor makes of 0, 1 and X when some strength is given.
LEMMA ScalarForms ==
  ASSUME NEW s \in 0..7, NEW t \in 0..7, s + t > 0
  PROVE  /\ scalar(BIT4_0, s, t) = Scalar(End(FALSE, s), End(FALSE, s))
         /\ scalar(BIT4_1, s, t) = Scalar(End(TRUE, t), End(TRUE, t))
         /\ scalar(BIT4_X, s, t) = Scalar(End(TRUE, t), End(FALSE, s))
<1> HIDE DEF Scalar, End
<1> QED BY DEF scalar, BIT4_0, BIT4_1, BIT4_X, BIT4_Z

\* An evenly strong driver has ends of one strength.
LEMMA EvenIsForm ==
  ASSUME NEW d, Even(d)
  PROVE  EvenForm(d)
<1>1. CASE d = HiZ
  BY <1>1 DEF EvenForm, HiZ, Scalar, End, Scalars, Ends
<1>2. ASSUME NEW val \in {BIT4_0, BIT4_1, BIT4_X}, NEW s \in 1..7, d = scalar(val, s, s)
      PROVE  EvenForm(d)
  BY <1>2 DEF EvenForm, scalar, HiZ, Scalar, End, Scalars, Ends, Bits, BIT4_0, BIT4_1, BIT4_X, BIT4_Z
<1> QED BY <1>1, <1>2 DEF Even

\* The outermost of the four ends of two scalars.
Levels4(a, b) == {Level(e) : e \in {a.hi, a.lo, b.hi, b.lo}}

\* The outermost of the four levels of two scalars.
LEMMA OuterLevels ==
  ASSUME NEW a \in Scalars, NEW b \in Scalars
  PROVE  /\ Max(Levels4(a, b)) \in -7..7 /\ Min(Levels4(a, b)) \in -7..7
         /\ \A e \in {a.hi, a.lo, b.hi, b.lo} :
              Min(Levels4(a, b)) <= Level(e) /\ Level(e) <= Max(Levels4(a, b))
         /\ \E e \in {a.hi, a.lo, b.hi, b.lo} : Level(e) = Max(Levels4(a, b))
         /\ \E e \in {a.hi, a.lo, b.hi, b.lo} : Level(e) = Min(Levels4(a, b))
<1> DEFINE p == Level(a.hi)
           q == Level(a.lo)
           r == Level(b.hi)
           t == Level(b.lo)
           L == {p, q, r, t}
<1>1. p \in -7..7 /\ q \in -7..7 /\ r \in -7..7 /\ t \in -7..7
  BY DEF Level, Scalars, Ends
<1>2. Levels4(a, b) = L
  BY DEF Levels4
<1> HIDE DEF p, q, r, t
<1>3. \E x \in L : \A y \in L : x >= y
  BY <1>1
<1>4. \E x \in L : \A y \in L : x <= y
  BY <1>1
<1>5. Max(L) \in L /\ \A y \in L : Max(L) >= y
  BY <1>3 DEF Max
<1>6. Min(L) \in L /\ \A y \in L : Min(L) <= y
  BY <1>4 DEF Min
<1>7. /\ Max(L) \in -7..7 /\ Min(L) \in -7..7
      /\ \A y \in {p, q, r, t} : Min(L) <= y /\ y <= Max(L)
  BY <1>1, <1>5, <1>6
<1> QED BY <1>2, <1>5, <1>6, <1>7 DEF p, q, r, t

\* Two scalars resolve to a scalar.
LEMMA ResolveIsScalar ==
  ASSUME NEW a \in Scalars, NEW b \in Scalars
  PROVE  resolve(a, b) \in Scalars
<1>1. CASE is_hiz(a) \/ is_hiz(b) \/ a = b
  BY <1>1 DEF resolve
<1>2. CASE ~is_hiz(a) /\ ~is_hiz(b) /\ a # b
  <2>0. resolve(a, b) = fully_featured_resolv_(a, b)
    BY <1>2 DEF resolve
  <2>1. CASE UNAMBIG(a) /\ UNAMBIG(b)
    <3>1. StrongerOf(a, b) \in Scalars
      BY DEF StrongerOf, Scalars, Ends, Scalar, End
    <3> QED BY <2>0, <2>1, <3>1 DEF fully_featured_resolv_
  <2>2. CASE UNAMBIG(a) /\ ~UNAMBIG(b)
    <3>1. SweepUp(a, b) \in Scalars
      BY DEF SweepUp, Scalars, Ends, Scalar, End
    <3> QED BY <2>0, <2>2, <3>1 DEF fully_featured_resolv_
  <2>3. CASE ~UNAMBIG(a) /\ UNAMBIG(b)
    <3>1. SweepUp(b, a) \in Scalars
      BY DEF SweepUp, Scalars, Ends, Scalar, End
    <3> QED BY <2>0, <2>3, <3>1 DEF fully_featured_resolv_
  <2>4. CASE ~UNAMBIG(a) /\ ~UNAMBIG(b)
    <3>1. Widen(a, b) \in Scalars
      <4> DEFINE M == Max(Levels4(a, b))
                 m == Min(Levels4(a, b))
                 res == Scalar(IF M > 0 THEN End(TRUE, M) ELSE End(a.hi.v /\ b.hi.v, -M),
                               IF m > 0 THEN End(TRUE, m) ELSE End(FALSE, -m))
      <4>1. Widen(a, b) = IF is_hiz(res) THEN HiZ ELSE res
        BY DEF Widen, Levels4
      <4>2. M \in -7..7 /\ m \in -7..7
        BY OuterLevels
      <4> HIDE DEF M, m
      <4>3. End(TRUE, M) \in Ends \/ ~(M > 0)
        BY <4>2 DEF End, Ends
      <4>4. End(a.hi.v /\ b.hi.v, -M) \in Ends \/ M > 0
        <5>1. (a.hi.v /\ b.hi.v) \in BOOLEAN
          OBVIOUS
        <5>2. -M \in 0..7 \/ M > 0
          BY <4>2
        <5> QED BY <5>1, <5>2, Zenon DEF End, Ends
      <4>5. End(TRUE, m) \in Ends \/ ~(m > 0)
        BY <4>2 DEF End, Ends
      <4>6. End(FALSE, -m) \in Ends \/ m > 0
        BY <4>2 DEF End, Ends
      <4>7. res \in Scalars
        BY <4>3, <4>4, <4>5, <4>6 DEF Scalar, Scalars
      <4>8. HiZ \in Scalars
        BY DEF HiZ, Scalar, End, Scalars, Ends
      <4> QED BY <4>1, <4>7, <4>8
    <3> QED BY <2>0, <2>4, <3>1 DEF fully_featured_resolv_
  <2> QED BY <2>1, <2>2, <2>3, <2>4
<1> QED BY <1>1, <1>2

\* Two even scalars: the stronger one, or both.
LEMMA ResolveEven ==
  ASSUME NEW a, NEW b, EvenForm(a), EvenForm(b)
  PROVE  LET c == resolve(a, b)
         IN /\ EvenForm(c)
            /\ c.hi.s = IF a.hi.s >= b.hi.s THEN a.hi.s ELSE b.hi.s
            /\ c.hi.v <=> (a.hi.s = c.hi.s /\ a.hi.v) \/ (b.hi.s = c.hi.s /\ b.hi.v)
            /\ ~c.lo.v <=> (a.hi.s = c.hi.s /\ ~a.lo.v) \/ (b.hi.s = c.hi.s /\ ~b.lo.v)
<1> DEFINE Good(c) ==
            /\ EvenForm(c)
            /\ c.hi.s = IF a.hi.s >= b.hi.s THEN a.hi.s ELSE b.hi.s
            /\ c.hi.v <=> (a.hi.s = c.hi.s /\ a.hi.v) \/ (b.hi.s = c.hi.s /\ b.hi.v)
            /\ ~c.lo.v <=> (a.hi.s = c.hi.s /\ ~a.lo.v) \/ (b.hi.s = c.hi.s /\ ~b.lo.v)
<1> SUFFICES Good(resolve(a, b))
  OBVIOUS
<1>0. a \in Scalars /\ b \in Scalars
  BY DEF EvenForm
<1>1. CASE is_hiz(a)
  <2>1. Good(b)
    BY <1>1 DEF EvenForm, is_hiz, Scalars, Ends
  <2> QED BY <1>1, <2>1 DEF resolve
<1>2. CASE ~is_hiz(a) /\ (is_hiz(b) \/ a = b)
  <2>1. Good(a)
    BY <1>2 DEF EvenForm, is_hiz, Scalars, Ends
  <2> QED BY <1>2, <2>1 DEF resolve
<1>3. CASE ~is_hiz(a) /\ ~is_hiz(b) /\ a # b
  <2>0. resolve(a, b) = fully_featured_resolv_(a, b)
    BY <1>3 DEF resolve
  <2>1. CASE UNAMBIG(a) /\ UNAMBIG(b)
    <3>1. Good(StrongerOf(a, b))
      BY <1>3, <2>1 DEF StrongerOf, EvenForm, UNAMBIG, is_hiz, Scalars, Ends, Scalar, End
    <3> QED BY <2>0, <2>1, <3>1 DEF fully_featured_resolv_
  <2>2. CASE UNAMBIG(a) /\ ~UNAMBIG(b)
    <3>1. Good(SweepUp(a, b))
      BY <1>3, <2>2 DEF SweepUp, EvenForm, UNAMBIG, is_hiz, Scalars, Ends, Scalar, End
    <3> QED BY <2>0, <2>2, <3>1 DEF fully_featured_resolv_
  <2>3. CASE ~UNAMBIG(a) /\ UNAMBIG(b)
    <3>1. Good(SweepUp(b, a))
      BY <1>3, <2>3 DEF SweepUp, EvenForm, UNAMBIG, is_hiz, Scalars, Ends, Scalar, End
    <3> QED BY <2>0, <2>3, <3>1 DEF fully_featured_resolv_
  <2>4. CASE ~UNAMBIG(a) /\ ~UNAMBIG(b)
    <3>1. Good(Widen(a, b))
      <4> DEFINE M == Max(Levels4(a, b))
                 m == Min(Levels4(a, b))
                 res == Scalar(IF M > 0 THEN End(TRUE, M) ELSE End(a.hi.v /\ b.hi.v, -M),
                               IF m > 0 THEN End(TRUE, m) ELSE End(FALSE, -m))
      <4>1. Widen(a, b) = IF is_hiz(res) THEN HiZ ELSE res
        BY DEF Widen, Levels4
      <4>2. /\ a.hi.v /\ ~a.lo.v /\ b.hi.v /\ ~b.lo.v
            /\ a.hi.s \in 1..7 /\ b.hi.s \in 1..7 /\ a.lo.s = a.hi.s /\ b.lo.s = b.hi.s
        BY <1>3, <2>4 DEF EvenForm, UNAMBIG, is_hiz, Scalars, Ends
      <4>3. /\ M = IF a.hi.s >= b.hi.s THEN a.hi.s ELSE b.hi.s
            /\ m = -M
        <5>1. Level(a.hi) = a.hi.s /\ Level(a.lo) = -a.hi.s /\ Level(b.hi) = b.hi.s /\ Level(b.lo) = -b.hi.s
          BY <4>2 DEF Level
        <5>2. /\ M \in -7..7 /\ m \in -7..7
              /\ \A e \in {a.hi, a.lo, b.hi, b.lo} : m <= Level(e) /\ Level(e) <= M
              /\ \E e \in {a.hi, a.lo, b.hi, b.lo} : Level(e) = M
              /\ \E e \in {a.hi, a.lo, b.hi, b.lo} : Level(e) = m
          BY <1>0, OuterLevels
        <5> HIDE DEF M, m
        <5>3. /\ m <= -a.hi.s /\ m <= -b.hi.s /\ a.hi.s <= M /\ b.hi.s <= M
              /\ M = a.hi.s \/ M = -a.hi.s \/ M = b.hi.s \/ M = -b.hi.s
              /\ m = a.hi.s \/ m = -a.hi.s \/ m = b.hi.s \/ m = -b.hi.s
          BY <5>1, <5>2, Zenon
        <5> QED BY <4>2, <5>2, <5>3
      <4> HIDE DEF M, m
      <4>4. res = Scalar(End(TRUE, M), End(FALSE, M)) /\ M \in 1..7
        <5>1. M > 0 /\ ~(m > 0) /\ -m = M /\ M \in 1..7
          BY <4>2, <4>3
        <5> QED BY <5>1, Zenon
      <4>5. Widen(a, b) = Scalar(End(TRUE, M), End(FALSE, M))
        <5>1. ~is_hiz(Scalar(End(TRUE, M), End(FALSE, M)))
          BY <4>4 DEF is_hiz, Scalar, End
        <5> HIDE DEF res
        <5> QED BY <4>1, <4>4, <5>1
      <4> HIDE DEF res
      <4>6. Good(Scalar(End(TRUE, M), End(FALSE, M)))
        BY <4>2, <4>3, <4>4 DEF EvenForm, Scalars, Ends, Scalar, End
      <4> HIDE DEF Good
      <4> QED BY <4>5, <4>6
    <3> QED BY <2>0, <2>4, <3>1 DEF fully_featured_resolv_
  <2> QED BY <2>1, <2>2, <2>3, <2>4
<1> QED BY <1>1, <1>2, <1>3

\* r is what the even scalars ds resolve to: as strong as the strongest of them, and
\* towards what the strongest are towards.
NetOf(ds, r) ==
  /\ \A d \in ds : EvenForm(d)
  /\ EvenForm(r)
  /\ \A d \in ds : d.hi.s <= r.hi.s
  /\ \E d \in ds : d.hi.s = r.hi.s
  /\ r.hi.v <=> \E d \in ds : d.hi.s = r.hi.s /\ d.hi.v
  /\ ~r.lo.v <=> \E d \in ds : d.hi.s = r.hi.s /\ ~d.lo.v

\* One driver alone gives the net its own value.
LEMMA NetOfOne ==
  ASSUME NEW d, EvenForm(d)
  PROVE  NetOf({d}, d)
BY DEF NetOf, EvenForm, Scalars, Ends

\* The resolution of two sets of drivers is that of all of them.
LEMMA NetOfUnion ==
  ASSUME NEW A, NEW B, NEW a, NEW b, NetOf(A, a), NetOf(B, b)
  PROVE  NetOf(A \cup B, resolve(a, b))
<1> DEFINE c == resolve(a, b)
<1>1. EvenForm(a) /\ EvenForm(b)
  BY DEF NetOf
<1>2. /\ EvenForm(c)
      /\ c.hi.s = IF a.hi.s >= b.hi.s THEN a.hi.s ELSE b.hi.s
      /\ c.hi.v <=> (a.hi.s = c.hi.s /\ a.hi.v) \/ (b.hi.s = c.hi.s /\ b.hi.v)
      /\ ~c.lo.v <=> (a.hi.s = c.hi.s /\ ~a.lo.v) \/ (b.hi.s = c.hi.s /\ ~b.lo.v)
  BY <1>1, ResolveEven
<1> HIDE DEF c
<1>3. /\ a.hi.s \in 0..7 /\ b.hi.s \in 0..7 /\ c.hi.s \in 0..7
      /\ \A d \in A \cup B : d.hi.s \in 0..7
  BY <1>1, <1>2 DEF EvenForm, Scalars, Ends, NetOf
<1>4. \A d \in A : d.hi.s <= a.hi.s
  BY DEF NetOf
<1>5. \A d \in B : d.hi.s <= b.hi.s
  BY DEF NetOf
<1>6. \A d \in A \cup B : d.hi.s <= c.hi.s
  BY <1>2, <1>3, <1>4, <1>5
<1>7. \E d \in A \cup B : d.hi.s = c.hi.s
  BY <1>2, <1>3 DEF NetOf
<1>8. \A d \in A : d.hi.s = c.hi.s => a.hi.s = c.hi.s
  BY <1>2, <1>3, <1>4
<1>9. \A d \in B : d.hi.s = c.hi.s => b.hi.s = c.hi.s
  BY <1>2, <1>3, <1>5
<1>10. c.hi.v <=> \E d \in A \cup B : d.hi.s = c.hi.s /\ d.hi.v
  BY <1>2, <1>8, <1>9, Zenon DEF NetOf
<1>11. ~c.lo.v <=> \E d \in A \cup B : d.hi.s = c.hi.s /\ ~d.lo.v
  BY <1>2, <1>8, <1>9, Zenon DEF NetOf
<1>12. \A d \in A \cup B : EvenForm(d)
  BY DEF NetOf
<1>13. NetOf(A \cup B, c)
  BY <1>2, <1>6, <1>7, <1>10, <1>11, <1>12, Zenon DEF NetOf
<1> QED BY <1>13 DEF c

\* An undriven port adds nothing.
LEMMA NetOfHiZ ==
  ASSUME NEW A, NEW a, NetOf(A, a)
  PROVE  NetOf(A \cup {HiZ}, a)
<1>1. EvenForm(HiZ)
  BY EvenIsForm DEF Even
<1>2. NetOf({HiZ}, HiZ)
  BY <1>1, NetOfOne
<1>3. resolve(a, HiZ) = a
  BY DEF resolve, is_hiz, HiZ, Scalar, End, NetOf, EvenForm, Scalars, Ends
<1> QED BY <1>2, <1>3, NetOfUnion

\* The largest of a set of strengths.
LEMMA ALargestStrength ==
  ASSUME NEW T, T \subseteq 0..7, T # {}
  PROVE  Max(T) \in T /\ \A y \in T : y <= Max(T)
<1>1. \E x \in T : \A y \in T : x >= y
  <2> DEFINE U == {n \in 0..7 : 7 - n \in T}
  <2>1. U \subseteq Nat
    OBVIOUS
  <2>2. U # {}
    <3>1. PICK x \in T : TRUE
      OBVIOUS
    <3>2. x \in 0..7 /\ 7 - (7 - x) = x /\ 7 - x \in 0..7
      BY <3>1
    <3>3. 7 - x \in U
      BY <3>1, <3>2
    <3> QED BY <3>3
  <2>3. PICK n \in U : \A k \in U : n <= k
    <3> HIDE DEF U
    <3> QED BY <2>1, <2>2, LeastNatural
  <2>4. ASSUME NEW y \in T PROVE 7 - n >= y
    <3>1. y \in 0..7 /\ 7 - (7 - y) = y /\ 7 - y \in 0..7
      OBVIOUS
    <3>2. 7 - y \in U
      BY <3>1
    <3>3. n <= 7 - y /\ n \in 0..7
      BY <2>3, <3>2
    <3> QED BY <3>1, <3>3
  <2>5. 7 - n \in T
    BY <2>3
  <2> QED BY <2>4, <2>5
<1>2. Max(T) \in T /\ \A y \in T : Max(T) >= y
  BY <1>1 DEF Max
<1> QED BY <1>2

\* This is the net that the strengths of the drivers give.
LEMMA NetOfIsNetScalar ==
  ASSUME NEW ds, NEW r, NetOf(ds, r)
  PROVE  r = NetScalar(ds)
<1> DEFINE t == r.hi.s
           P0(d) == IF d.lo.v THEN 0 ELSE d.lo.s
           P1(d) == IF d.hi.v THEN d.hi.s ELSE 0
           T0 == {P0(d) : d \in ds}
           T1 == {P1(d) : d \in ds}
<1>1. /\ \A d \in ds : EvenForm(d) /\ d.hi.s \in 0..7 /\ d.lo.s = d.hi.s /\ d.hi.s <= t
      /\ t \in 0..7 /\ r.lo.s = t /\ ds # {}
  BY DEF NetOf, EvenForm, Scalars, Ends
<1>2. T0 \subseteq 0..7 /\ T1 \subseteq 0..7 /\ T0 # {} /\ T1 # {}
  BY <1>1
<1>3. \A y \in T0 : y <= t
  BY <1>1
<1>4. \A y \in T1 : y <= t
  BY <1>1
<1>5. t \in T0 <=> ~r.lo.v \/ t = 0
  <2>1. ASSUME ~r.lo.v PROVE t \in T0
    <3>1. PICK d \in ds : d.hi.s = t /\ ~d.lo.v
      BY <2>1 DEF NetOf
    <3>2. P0(d) = t
      BY <1>1, <3>1
    <3> QED BY <3>2
  <2>2. ASSUME t \in T0, t # 0 PROVE ~r.lo.v
    <3>1. PICK d \in ds : P0(d) = t
      BY <2>2
    <3>2. d.hi.s = t /\ ~d.lo.v
      BY <1>1, <2>2, <3>1
    <3> QED BY <3>2 DEF NetOf
  <2>3. ASSUME t = 0 PROVE ~r.lo.v
    BY <2>3 DEF NetOf, EvenForm
  <2> QED BY <2>1, <2>2, <2>3
<1>6. t \in T1 <=> r.hi.v \/ t = 0
  <2>1. ASSUME r.hi.v PROVE t \in T1
    <3>1. PICK d \in ds : d.hi.s = t /\ d.hi.v
      BY <2>1 DEF NetOf
    <3>2. P1(d) = t
      BY <1>1, <3>1
    <3> QED BY <3>2
  <2>2. ASSUME t \in T1, t # 0 PROVE r.hi.v
    <3>1. PICK d \in ds : P1(d) = t
      BY <2>2
    <3>2. d.hi.s = t /\ d.hi.v
      BY <1>1, <2>2, <3>1
    <3> QED BY <3>2 DEF NetOf
  <2>3. ASSUME t = 0 PROVE t \in T1
    <3> HIDE DEF T1
    <3>1. PICK y \in T1 : TRUE
      BY <1>2
    <3>2. y \in 0..7 /\ y <= t
      BY <1>2, <1>4
    <3> QED BY <2>3, <3>1, <3>2
  <2> QED BY <2>1, <2>2, <2>3
<1>7. Strength0(ds) = Max(T0) /\ Strength1(ds) = Max(T1)
  BY DEF Strength0, Strength1
<1> HIDE DEF T0, T1
<1>8. /\ Max(T0) \in T0 /\ Max(T1) \in T1
      /\ \A y \in T0 : y <= Max(T0)
      /\ \A y \in T1 : y <= Max(T1)
  BY <1>2, ALargestStrength
<1> DEFINE s0 == Strength0(ds)
           s1 == Strength1(ds)
<1>9. /\ s0 \in 0..7 /\ s1 \in 0..7 /\ s0 <= t /\ s1 <= t
      /\ s0 = t <=> (~r.lo.v \/ t = 0)
      /\ s1 = t <=> (r.hi.v \/ t = 0)
  <2>1. /\ s0 \in T0 /\ s0 \in 0..7 /\ (\A y \in T0 : y <= s0)
        /\ s1 \in T1 /\ s1 \in 0..7 /\ (\A y \in T1 : y <= s1)
    BY <1>2, <1>7, <1>8
  <2>2. s0 <= t /\ s1 <= t
    BY <1>3, <1>4, <2>1
  <2> HIDE DEF s0, s1, t
  <2>3. s0 = t <=> t \in T0
    BY <1>1, <2>1, <2>2
  <2>4. s1 = t <=> t \in T1
    BY <1>1, <2>1, <2>2
  <2> QED BY <1>5, <1>6, <2>1, <2>2, <2>3, <2>4, Zenon
<1>10. NetScalar(ds) = CASE s0 > s1 -> scalar(BIT4_0, s0, s0)
                         [] s0 < s1 -> scalar(BIT4_1, s1, s1)
                         [] s0 = s1 -> scalar(BIT4_X, s0, s1)
  BY DEF NetScalar
<1> HIDE DEF s0, s1, t
<1>11. /\ EvenForm(r) /\ r.hi.s = t /\ r.lo.s = t /\ t \in 0..7
  BY <1>1 DEF NetOf, t
<1>12. CASE t = 0
  <2>1. s0 = 0 /\ s1 = 0
    BY <1>9, <1>12
  <2>2. NetScalar(ds) = HiZ
    BY <1>10, <2>1 DEF scalar
  <2>3. r = HiZ
    BY <1>11, <1>12 DEF EvenForm, HiZ, Scalar, End, Scalars, Ends
  <2> QED BY <2>2, <2>3
<1>13. CASE t > 0 /\ r.hi.v /\ r.lo.v
  <2>1. s1 = t /\ s0 < s1
    BY <1>9, <1>11, <1>13
  <2>2. NetScalar(ds) = Scalar(End(TRUE, t), End(TRUE, t))
    <3>1. s0 < s1 /\ s0 \in 0..7 /\ s1 \in 0..7 /\ t > 0
      BY <1>13, <1>9, <2>1
    <3>2. NetScalar(ds) = scalar(BIT4_1, s1, s1)
      BY <1>10, <3>1
    <3>3. s1 + s1 > 0
      BY <2>1, <3>1
    <3>4. scalar(BIT4_1, s1, s1) = Scalar(End(TRUE, s1), End(TRUE, s1))
      BY <3>1, <3>3, ScalarForms, Zenon
    <3> QED BY <2>1, <3>2, <3>4, Zenon
  <2>3. r = Scalar(End(TRUE, t), End(TRUE, t))
    BY <1>11, <1>13 DEF EvenForm, Scalar, End, Scalars, Ends
  <2> QED BY <2>2, <2>3
<1>14. CASE t > 0 /\ r.hi.v /\ ~r.lo.v
  <2>1. s1 = t /\ s0 = t
    BY <1>9, <1>11, <1>14
  <2>2. NetScalar(ds) = Scalar(End(TRUE, t), End(FALSE, t))
    <3>1. s0 = s1 /\ s0 \in 0..7 /\ s1 \in 0..7 /\ t > 0
      BY <1>14, <1>9, <2>1
    <3>2. NetScalar(ds) = scalar(BIT4_X, s0, s1)
      BY <1>10, <3>1
    <3>3. s0 + s1 > 0
      BY <2>1, <3>1
    <3>4. scalar(BIT4_X, s0, s1) = Scalar(End(TRUE, s1), End(FALSE, s0))
      BY <3>1, <3>3, ScalarForms, Zenon
    <3> QED BY <2>1, <3>2, <3>4, Zenon
  <2>3. r = Scalar(End(TRUE, t), End(FALSE, t))
    BY <1>11, <1>14 DEF EvenForm, Scalar, End, Scalars, Ends
  <2> QED BY <2>2, <2>3
<1>15. CASE t > 0 /\ ~r.hi.v /\ ~r.lo.v
  <2>1. s0 = t /\ s1 < s0
    BY <1>9, <1>11, <1>15
  <2>2. NetScalar(ds) = Scalar(End(FALSE, t), End(FALSE, t))
    <3>1. s0 > s1 /\ s0 \in 0..7 /\ s1 \in 0..7 /\ t > 0
      BY <1>15, <1>9, <2>1
    <3>2. NetScalar(ds) = scalar(BIT4_0, s0, s0)
      BY <1>10, <3>1
    <3>3. s0 + s0 > 0
      BY <2>1, <3>1
    <3>4. scalar(BIT4_0, s0, s0) = Scalar(End(FALSE, s0), End(FALSE, s0))
      BY <3>1, <3>3, ScalarForms, Zenon
    <3> QED BY <2>1, <3>2, <3>4, Zenon
  <2>3. r = Scalar(End(FALSE, t), End(FALSE, t))
    BY <1>11, <1>15 DEF EvenForm, Scalar, End, Scalars, Ends
  <2> QED BY <2>2, <2>3
<1>16. r.lo.v => r.hi.v
  BY <1>11 DEF EvenForm
<1> QED BY <1>11, <1>12, <1>13, <1>14, <1>15, <1>16

\* A pull of strength 5.
PullOf(h) == \E b \in BOOLEAN : h = Scalar(End(b, 5), End(b, 5))

\* Blending in a pull twice is blending it in once.
LEMMA PullTwice ==
  ASSUME NEW v \in Scalars, NEW h, PullOf(h)
  PROVE  resolve(resolve(v, h), h) = resolve(v, h)
<1>0. PICK b \in BOOLEAN : h = Scalar(End(b, 5), End(b, 5))
  BY DEF PullOf
<1>1. /\ h \in Scalars /\ ~is_hiz(h) /\ UNAMBIG(h) /\ h.hi.s = 5 /\ h.lo.s = 5
  BY <1>0 DEF Scalar, End, Scalars, Ends, is_hiz, UNAMBIG
<1>2. resolve(h, h) = h
  BY <1>1 DEF resolve
<1>3. CASE is_hiz(v) \/ v = h
  BY <1>1, <1>2, <1>3 DEF resolve
<1>4. CASE ~is_hiz(v) /\ v # h /\ UNAMBIG(v)
  <2>1. resolve(v, h) = StrongerOf(v, h)
    BY <1>1, <1>4 DEF resolve, fully_featured_resolv_
  <2>0. v.lo.s \in 0..7
    BY DEF Scalars, Ends
  <2>2. CASE v.lo.s < 5
    <3>1. h.lo.s > v.lo.s /\ h.lo.s # v.lo.s /\ ~(h.lo.s < v.lo.s)
      BY <1>1, <2>0, <2>2
    <3>2. StrongerOf(v, h) = h
      BY <3>1 DEF StrongerOf
    <3> QED BY <1>2, <2>1, <3>2
  <2>3. CASE v.lo.s > 5
    <3>0. h.lo.s < v.lo.s
      BY <1>1, <2>0, <2>3
    <3>1. resolve(v, h) = v
      BY <1>1, <2>0, <2>1, <3>0 DEF StrongerOf
    <3> QED BY <3>1
  <2>4. CASE v.lo.s = 5
    <3> DEFINE c == Scalar(End(TRUE, 5), End(FALSE, 5))
    <3>1. resolve(v, h) = c
      BY <1>1, <1>4, <2>1, <2>4 DEF StrongerOf, UNAMBIG, Scalars, Ends
    <3>2. ~is_hiz(c) /\ c # h /\ ~UNAMBIG(c) /\ SweepUp(h, c) = c
      <4>1. c.hi = End(TRUE, 5) /\ c.lo = End(FALSE, 5)
        BY DEF Scalar, End
      <4>0. c.hi.s = 5 /\ c.lo.s = 5
        BY DEF Scalar, End
      <4> HIDE DEF c
      <4>2. End(TRUE, 5) # End(FALSE, 5)
        <5>1. End(TRUE, 5).v = TRUE /\ End(FALSE, 5).v = FALSE
          BY DEF End
        <5> QED BY <5>1
      <4>3. ~(h.hi.s > c.hi.s) /\ ~(h.lo.s > c.lo.s)
        BY <1>1, <4>0
      <4>4. SweepUp(h, c) = Scalar(c.hi, c.lo)
        BY <4>3 DEF SweepUp
      <4>5. Scalar(c.hi, c.lo) = c
        BY <4>1 DEF c
      <4>6. ~UNAMBIG(c) /\ c # h
        BY <1>1, <4>1, <4>2 DEF UNAMBIG
      <4>7. ~is_hiz(c)
        BY <4>0 DEF is_hiz
      <4> QED BY <4>4, <4>5, <4>6, <4>7
    <3> HIDE DEF c
    <3>3. resolve(c, h) = c
      BY <1>1, <3>2 DEF resolve, fully_featured_resolv_
    <3> QED BY <3>1, <3>3
  <2> QED BY <2>2, <2>3, <2>4 DEF Scalars, Ends
<1>5. CASE ~is_hiz(v) /\ v # h /\ ~UNAMBIG(v)
  <2> DEFINE c == SweepUp(h, v)
  <2>1. resolve(v, h) = c
    BY <1>1, <1>5 DEF resolve, fully_featured_resolv_
  <2>2. /\ c \in Scalars /\ ~is_hiz(c) /\ SweepUp(h, c) = c
    BY <1>1 DEF SweepUp, Scalars, Ends, Scalar, is_hiz
  <2>3. UNAMBIG(c) => c = h
    BY <1>1, <1>5 DEF SweepUp, Scalars, Ends, Scalar, UNAMBIG
  <2> HIDE DEF c
  <2>4. resolve(c, h) = c
    BY <1>1, <2>2, <2>3 DEF resolve, fully_featured_resolv_
  <2> QED BY <2>1, <2>4
<1> QED BY <1>3, <1>4, <1>5

-----------------------------------------------------------------------------
(* No certainty is invented by two drivers. *)

\* A level of a, as strong as some level of b, is allowed by c.
Allows(c, a, b) ==
  \A x \in LevelsOf(a) : (\E y \in LevelsOf(b) : Abs(y) <= Abs(x)) => x \in LevelsOf(c)

\* A known scalar, or an unknown one that may be either value.
Spread(d) == d \in Scalars /\ (UNAMBIG(d) \/ (Level(d.lo) <= 0 /\ 0 <= Level(d.hi)))

\* A declared driver is known, or spans the undriven level.
LEMMA DeclaredIsSpread ==
  ASSUME NEW d \in Declared
  PROVE  Spread(d)
<1>1. PICK val \in Bits, s \in 0..7, t \in 0..7 : d = scalar(val, s, t)
  BY DEF Declared
<1>2. d \in Scalars
  BY <1>1, ScalarsOf
<1>3. CASE val = BIT4_Z \/ (s = 0 /\ t = 0)
  <2>1. d = HiZ
    <3> HIDE DEF BIT4_0, BIT4_1, BIT4_X, BIT4_Z
    <3>1. s = 0 /\ t = 0 => ~(s + t > 0)
      OBVIOUS
    <3>2. BIT4_Z # BIT4_0 /\ BIT4_Z # BIT4_1 /\ BIT4_Z # BIT4_X
      BY DEF BIT4_0, BIT4_1, BIT4_X, BIT4_Z
    <3> QED BY <3>1, <3>2, <1>1, <1>3 DEF scalar
  <2>2. UNAMBIG(HiZ)
    BY DEF HiZ, Scalar, End, UNAMBIG
  <2> QED BY <1>2, <2>1, <2>2 DEF Spread
<1>4. CASE val # BIT4_Z /\ s + t > 0
  <2>1. /\ scalar(BIT4_0, s, t) = Scalar(End(FALSE, s), End(FALSE, s))
        /\ scalar(BIT4_1, s, t) = Scalar(End(TRUE, t), End(TRUE, t))
        /\ scalar(BIT4_X, s, t) = Scalar(End(TRUE, t), End(FALSE, s))
    BY <1>4, ScalarForms, Zenon
  <2>2. val \in {BIT4_0, BIT4_1, BIT4_X}
    BY <1>4 DEF Bits
  <2>3. UNAMBIG(Scalar(End(FALSE, s), End(FALSE, s))) /\ UNAMBIG(Scalar(End(TRUE, t), End(TRUE, t)))
    BY DEF UNAMBIG, Scalar, End
  <2>4. Level(Scalar(End(TRUE, t), End(FALSE, s)).lo) <= 0 /\ 0 <= Level(Scalar(End(TRUE, t), End(FALSE, s)).hi)
    BY DEF Level, Scalar, End
  <2>5. UNAMBIG(d) \/ (Level(d.lo) <= 0 /\ 0 <= Level(d.hi))
    BY <1>1, <2>1, <2>2, <2>3, <2>4, Zenon
  <2> QED BY <1>2, <2>5 DEF Spread
<1> QED BY <1>3, <1>4

\* A known scalar against an ambiguous one.
LEMMA KnownSweeps ==
  ASSUME NEW a \in Scalars, NEW b \in Scalars, UNAMBIG(a), Level(b.lo) <= 0, 0 <= Level(b.hi)
  PROVE  Allows(SweepUp(a, b), a, b) /\ Allows(SweepUp(a, b), b, a)
<1> DEFINE p == Level(a.hi)
           r == Level(b.hi)
           t == Level(b.lo)
           c == SweepUp(a, b)
           hi == Level(c.hi)
           lo == Level(c.lo)
<1>1. p \in -7..7 /\ r \in -7..7 /\ t \in -7..7 /\ Level(a.lo) = p /\ t <= 0 /\ 0 <= r
  BY DEF Level, Scalars, Ends, UNAMBIG
<1>2. /\ Abs(p) = a.hi.s /\ Abs(r) = b.hi.s /\ Abs(t) = b.lo.s /\ a.lo.s = a.hi.s
      /\ a.hi.s \in 0..7 /\ b.hi.s \in 0..7 /\ b.lo.s \in 0..7
  BY DEF Level, Scalars, Ends, UNAMBIG, Abs
<1>3. hi = (IF Abs(p) > Abs(r) THEN p ELSE r) /\ lo = (IF Abs(p) > Abs(t) THEN p ELSE t)
  <2>1. c.hi = IF a.hi.s > b.hi.s THEN a.hi ELSE b.hi
    BY DEF SweepUp, Scalar
  <2>2. c.lo = IF a.lo.s > b.lo.s THEN a.lo ELSE b.lo
    BY DEF SweepUp, Scalar
  <2>3. c.lo = IF a.hi.s > b.lo.s THEN a.hi ELSE b.lo
    BY <1>2, <2>2 DEF UNAMBIG
  <2> HIDE DEF c
  <2> QED BY <1>2, <2>1, <2>3
<1>4. LevelsOf(a) = p..p /\ LevelsOf(b) = t..r /\ LevelsOf(c) = lo..hi
  BY <1>1 DEF LevelsOf
<1> HIDE DEF p, r, t, c, hi, lo
<1>5. ASSUME NEW x \in p..p, NEW y \in t..r, Abs(y) <= Abs(x) PROVE x \in lo..hi
  <2>1. x = p /\ y \in Int /\ t <= y /\ y <= r
    BY <1>1, <1>5
  <2>2. lo <= x /\ lo \in Int
    <3>1. CASE Abs(p) > Abs(t)
      BY <1>1, <1>3, <2>1, <3>1
    <3>2. CASE ~(Abs(p) > Abs(t))
      BY <1>1, <1>3, <1>5, <2>1, <3>2 DEF Abs
    <3> QED BY <3>1, <3>2
  <2>3. x <= hi /\ hi \in Int
    <3>1. CASE Abs(p) > Abs(r)
      BY <1>1, <1>3, <2>1, <3>1
    <3>2. CASE ~(Abs(p) > Abs(r))
      BY <1>1, <1>3, <1>5, <2>1, <3>2 DEF Abs
    <3> QED BY <3>1, <3>2
  <2> QED BY <2>1, <2>2, <2>3
<1>6. ASSUME NEW x \in t..r, NEW y \in p..p, Abs(y) <= Abs(x) PROVE x \in lo..hi
  <2>1. y = p /\ x \in Int /\ t <= x /\ x <= r
    BY <1>1, <1>6
  <2>2. lo <= x /\ lo \in Int
    <3>1. CASE Abs(p) > Abs(t)
      BY <1>1, <1>3, <1>6, <2>1, <3>1 DEF Abs
    <3>2. CASE ~(Abs(p) > Abs(t))
      BY <1>1, <1>3, <2>1, <3>2
    <3> QED BY <3>1, <3>2
  <2>3. x <= hi /\ hi \in Int
    <3>1. CASE Abs(p) > Abs(r)
      BY <1>1, <1>3, <1>6, <2>1, <3>1 DEF Abs
    <3>2. CASE ~(Abs(p) > Abs(r))
      BY <1>1, <1>3, <2>1, <3>2
    <3> QED BY <3>1, <3>2
  <2> QED BY <2>1, <2>2, <2>3
<1>7. Allows(c, a, b)
  BY <1>4, <1>5, Zenon DEF Allows
<1>8. Allows(c, b, a)
  BY <1>4, <1>6, Zenon DEF Allows
<1> QED BY <1>7, <1>8 DEF c

\* Two declared drivers resolve to a scalar that allows the stronger of them.
LEMMA ResolveCovers ==
  ASSUME NEW a, NEW b, Spread(a), Spread(b)
  PROVE  Allows(resolve(a, b), a, b) /\ Allows(resolve(a, b), b, a)
<1> a \in Scalars /\ b \in Scalars
  BY DEF Spread
<1>0. /\ Level(a.hi) \in -7..7 /\ Level(a.lo) \in -7..7
      /\ Level(b.hi) \in -7..7 /\ Level(b.lo) \in -7..7
  BY DEF Level, Scalars, Ends
<1> DEFINE Good(c) == Allows(c, a, b) /\ Allows(c, b, a)
<1>1. CASE is_hiz(a)
  <2>1. Level(a.hi) = 0 /\ Level(a.lo) = 0
    <3>1. a.hi.s = 0 /\ a.lo.s = 0
      BY <1>1 DEF is_hiz
    <3>2. Level(a.hi) \in -(a.hi.s)..a.hi.s /\ Level(a.lo) \in -(a.lo.s)..a.lo.s
      BY DEF Level, Scalars, Ends
    <3> QED BY <3>1, <3>2, <1>0
  <2>2. Good(b)
    BY <1>0, <2>1 DEF Allows, LevelsOf, Abs
  <2> QED BY <1>1, <2>2 DEF resolve
<1>2. CASE ~is_hiz(a) /\ is_hiz(b)
  <2>1. Level(b.hi) = 0 /\ Level(b.lo) = 0
    <3>1. b.hi.s = 0 /\ b.lo.s = 0
      BY <1>2 DEF is_hiz
    <3>2. Level(b.hi) \in -(b.hi.s)..b.hi.s /\ Level(b.lo) \in -(b.lo.s)..b.lo.s
      BY DEF Level, Scalars, Ends
    <3> QED BY <3>1, <3>2, <1>0
  <2>2. Good(a)
    BY <1>0, <2>1 DEF Allows, LevelsOf, Abs
  <2> QED BY <1>2, <2>2 DEF resolve
<1>3. CASE ~is_hiz(a) /\ ~is_hiz(b) /\ a = b
  <2>1. resolve(a, b) = a /\ Good(a)
    BY <1>3 DEF Allows, resolve
  <2> QED BY <2>1
<1>4. CASE ~is_hiz(a) /\ ~is_hiz(b) /\ a # b
  <2>0. resolve(a, b) = fully_featured_resolv_(a, b)
    BY <1>4 DEF resolve
  <2>1. CASE UNAMBIG(a) /\ UNAMBIG(b)
    <3>1. Good(StrongerOf(a, b))
      BY <1>4, <2>1 DEF StrongerOf, UNAMBIG, is_hiz, Allows, LevelsOf, Abs, Level, Scalars, Ends, Scalar, End
    <3> QED BY <2>0, <2>1, <3>1 DEF fully_featured_resolv_
  <2>2. CASE UNAMBIG(a) /\ ~UNAMBIG(b)
    <3>1. Good(SweepUp(a, b))
      BY <1>4, <2>2, KnownSweeps DEF Spread
    <3> QED BY <2>0, <2>2, <3>1 DEF fully_featured_resolv_
  <2>3. CASE ~UNAMBIG(a) /\ UNAMBIG(b)
    <3>1. Good(SweepUp(b, a))
      BY <1>4, <2>3, KnownSweeps DEF Spread
    <3> QED BY <2>0, <2>3, <3>1 DEF fully_featured_resolv_
  <2>4. CASE ~UNAMBIG(a) /\ ~UNAMBIG(b)
    <3>1. Good(Widen(a, b))
      <4> DEFINE M == Max(Levels4(a, b))
                 m == Min(Levels4(a, b))
                 res == Scalar(IF M > 0 THEN End(TRUE, M) ELSE End(a.hi.v /\ b.hi.v, -M),
                               IF m > 0 THEN End(TRUE, m) ELSE End(FALSE, -m))
                 w == Widen(a, b)
      <4>1. w = IF is_hiz(res) THEN HiZ ELSE res
        BY DEF Widen, Levels4
      <4>2. /\ M \in -7..7 /\ m \in -7..7
            /\ \A e \in {a.hi, a.lo, b.hi, b.lo} : m <= Level(e) /\ Level(e) <= M
        BY OuterLevels
      <4> HIDE DEF M, m
      <4>3. M <= 0 /\ a.hi.v => M = 0
        BY <4>2 DEF Level, Scalars, Ends
      <4>4. Level(res.hi) = M /\ Level(res.lo) = m
        <5>1. CASE M > 0
          BY <4>2, <5>1 DEF Level, Scalar, End
        <5>2. CASE ~(M > 0)
          <6>1. res.hi = End(a.hi.v /\ b.hi.v, -M) /\ res.lo = IF m > 0 THEN End(TRUE, m) ELSE End(FALSE, -m)
            BY <5>2 DEF Scalar
          <6>2. Level(End(a.hi.v /\ b.hi.v, -M)) = M
            <7>1. CASE a.hi.v /\ b.hi.v
              <8>1. M = 0 /\ -M = M
                BY <4>2, <4>3, <5>2, <7>1
              <8>2. Level(End(a.hi.v /\ b.hi.v, -M)) = -M
                BY <7>1 DEF Level, End
              <8> QED BY <8>1, <8>2
            <7>2. CASE ~(a.hi.v /\ b.hi.v)
              <8>1. Level(End(a.hi.v /\ b.hi.v, -M)) = -(-M)
                BY <7>2 DEF Level, End
              <8> QED BY <4>2, <8>1
            <7> QED BY <7>1, <7>2
          <6>3. Level(IF m > 0 THEN End(TRUE, m) ELSE End(FALSE, -m)) = m
            BY <4>2 DEF Level, End
          <6> QED BY <6>1, <6>2, <6>3
        <5> QED BY <5>1, <5>2
      <4> HIDE DEF res
      <4>5. Level(w.hi) = M /\ Level(w.lo) = m
        <5>1. CASE ~is_hiz(res)
          BY <4>1, <4>4, <5>1
        <5>2. CASE is_hiz(res)
          <6>1. M = 0 /\ m = 0
            BY <4>2, <4>4, <5>2 DEF is_hiz, Level
          <6>2. Level(HiZ.hi) = 0 /\ Level(HiZ.lo) = 0
            BY DEF HiZ, Scalar, End, Level
          <6> QED BY <4>1, <5>2, <6>1, <6>2
        <5> QED BY <5>1, <5>2
      <4> HIDE DEF w
      <4>6. Good(w)
        BY <1>0, <4>2, <4>5 DEF Allows, LevelsOf
      <4> QED BY <4>6 DEF w
    <3> QED BY <2>0, <2>4, <3>1 DEF fully_featured_resolv_
  <2> QED BY <2>1, <2>2, <2>3, <2>4
<1> QED BY <1>1, <1>2, <1>3, <1>4

-----------------------------------------------------------------------------
(* One bit: wired nets. *)

\* The value of a scalar is a bit.
LEMMA ValueIsBit ==
  ASSUME NEW d \in Scalars
  PROVE  scalar_value(d) \in Bits
BY DEF scalar_value, Bits, Scalars, Ends, is_hiz

\* A bit that is made strong keeps its value.
LEMMA ValueOfStrong ==
  ASSUME NEW b \in Bits
  PROVE  scalar_value(scalar(b, 6, 6)) = b
<1>1. CASE b = BIT4_Z
  <2>1. scalar(BIT4_Z, 6, 6) = HiZ
    BY DEF scalar, BIT4_0, BIT4_1, BIT4_X, BIT4_Z
  <2>2. scalar_value(HiZ) = BIT4_Z
    BY DEF scalar_value, HiZ, is_hiz, Scalar, End
  <2> QED BY <1>1, <2>1, <2>2
<1>2. ASSUME NEW v \in BOOLEAN, NEW w \in BOOLEAN
      PROVE  /\ ~is_hiz(Scalar(End(v, 6), End(w, 6)))
             /\ Scalar(End(v, 6), End(w, 6)).hi.v = v /\ Scalar(End(v, 6), End(w, 6)).lo.v = w
  BY DEF is_hiz, Scalar, End
<1>3. /\ scalar(BIT4_0, 6, 6) = Scalar(End(FALSE, 6), End(FALSE, 6))
      /\ scalar(BIT4_1, 6, 6) = Scalar(End(TRUE, 6), End(TRUE, 6))
      /\ scalar(BIT4_X, 6, 6) = Scalar(End(TRUE, 6), End(FALSE, 6))
  <2>1. 6 \in 0..7 /\ 6 + 6 > 0
    OBVIOUS
  <2> QED BY <2>1, ScalarForms, Zenon
<1>4. scalar_value(Scalar(End(FALSE, 6), End(FALSE, 6))) = BIT4_0
  BY <1>2 DEF scalar_value
<1>5. scalar_value(Scalar(End(TRUE, 6), End(TRUE, 6))) = BIT4_1
  BY <1>2 DEF scalar_value
<1>6. scalar_value(Scalar(End(TRUE, 6), End(FALSE, 6))) = BIT4_X
  BY <1>2 DEF scalar_value
<1> QED BY <1>1, <1>3, <1>4, <1>5, <1>6, Zenon DEF Bits

\* One of the scalars has the value b.
Has(ds, b) == \E d \in ds : scalar_value(d) = b

\* The wired value by cases: the dominant value, X, the other value, Z.
LEMMA WiredBitIs ==
  ASSUME NEW ds, ds \subseteq Scalars,
         NEW dominant, NEW other, {dominant, other} = {BIT4_0, BIT4_1}
  PROVE  WiredBit(ds, dominant, other) =
           IF Has(ds, dominant) THEN dominant
           ELSE IF Has(ds, BIT4_X) THEN BIT4_X
           ELSE IF Has(ds, other) THEN other ELSE BIT4_Z
<1> DEFINE vs == {scalar_value(d) : d \in ds} \ {BIT4_Z}
<1>0. dominant # other /\ dominant # BIT4_Z /\ other # BIT4_Z /\ dominant # BIT4_X /\ other # BIT4_X
  BY DEF BIT4_0, BIT4_1, BIT4_X, BIT4_Z
<1>1. vs \subseteq {dominant, other, BIT4_X}
  <2>1. \A d \in ds : scalar_value(d) \in Bits
    BY ValueIsBit
  <2>2. Bits = {dominant, other, BIT4_X, BIT4_Z}
    BY DEF Bits
  <2> QED BY <2>1, <2>2
<1>2. dominant \in vs <=> Has(ds, dominant)
  BY <1>0 DEF Has
<1>3. other \in vs <=> Has(ds, other)
  BY <1>0 DEF Has
<1>4. BIT4_X \in vs <=> Has(ds, BIT4_X)
  <2>1. BIT4_X # BIT4_Z
    BY DEF BIT4_X, BIT4_Z
  <2> QED BY <2>1 DEF Has
<1>5. WiredBit(ds, dominant, other) =
        CASE vs = {}         -> BIT4_Z
          [] dominant \in vs -> dominant
          [] vs = {other}    -> other
          [] OTHER           -> BIT4_X
  BY DEF WiredBit
<1> HIDE DEF vs
<1>6. CASE dominant \in vs
  <2>1. WiredBit(ds, dominant, other) = dominant
    BY <1>0, <1>5, <1>6
  <2> QED BY <1>2, <1>6, <2>1
<1>7. CASE dominant \notin vs /\ BIT4_X \in vs
  <2>1. vs # {} /\ vs # {other}
    BY <1>0, <1>7
  <2>2. WiredBit(ds, dominant, other) = BIT4_X
    BY <1>5, <1>7, <2>1
  <2> QED BY <1>2, <1>4, <1>7, <2>2
<1>8. CASE dominant \notin vs /\ BIT4_X \notin vs /\ other \in vs
  <2>1. vs = {other}
    BY <1>1, <1>8
  <2>2. WiredBit(ds, dominant, other) = other
    BY <1>0, <1>5, <1>8, <2>1
  <2> QED BY <1>2, <1>3, <1>4, <1>8, <2>2
<1>9. CASE dominant \notin vs /\ BIT4_X \notin vs /\ other \notin vs
  <2>1. vs = {}
    BY <1>1, <1>9
  <2>2. WiredBit(ds, dominant, other) = BIT4_Z
    BY <1>5, <2>1
  <2> QED BY <1>2, <1>3, <1>4, <1>9, <2>2
<1> QED BY <1>6, <1>7, <1>8, <1>9

\* The bit of a wired net, by what its drivers have.
LEMMA WiredUnion ==
  ASSUME NEW A, NEW B, A \subseteq Scalars, B \subseteq Scalars
  PROVE  /\ triand_bit(WiredBit(A, BIT4_0, BIT4_1), WiredBit(B, BIT4_0, BIT4_1))
              = WiredBit(A \cup B, BIT4_0, BIT4_1)
         /\ trior_bit(WiredBit(A, BIT4_1, BIT4_0), WiredBit(B, BIT4_1, BIT4_0))
              = WiredBit(A \cup B, BIT4_1, BIT4_0)
<1>1. \A b : Has(A \cup B, b) <=> Has(A, b) \/ Has(B, b)
  BY DEF Has
<1>2. A \cup B \subseteq Scalars /\ {BIT4_0, BIT4_1} = {BIT4_1, BIT4_0}
  OBVIOUS
<1> DEFINE W(ds, p, q) == IF Has(ds, p) THEN p
                          ELSE IF Has(ds, BIT4_X) THEN BIT4_X
                          ELSE IF Has(ds, q) THEN q ELSE BIT4_Z
<1>3. /\ WiredBit(A, BIT4_0, BIT4_1) = W(A, BIT4_0, BIT4_1)
      /\ WiredBit(B, BIT4_0, BIT4_1) = W(B, BIT4_0, BIT4_1)
      /\ WiredBit(A \cup B, BIT4_0, BIT4_1) = W(A \cup B, BIT4_0, BIT4_1)
  BY <1>2, WiredBitIs, Zenon
<1>4. /\ WiredBit(A, BIT4_1, BIT4_0) = W(A, BIT4_1, BIT4_0)
      /\ WiredBit(B, BIT4_1, BIT4_0) = W(B, BIT4_1, BIT4_0)
      /\ WiredBit(A \cup B, BIT4_1, BIT4_0) = W(A \cup B, BIT4_1, BIT4_0)
  BY <1>2, WiredBitIs, Zenon
<1>5. triand_bit(W(A, BIT4_0, BIT4_1), W(B, BIT4_0, BIT4_1)) = W(A \cup B, BIT4_0, BIT4_1)
  BY <1>1 DEF triand_bit, AndBit, Merge, BIT4_0, BIT4_1, BIT4_X, BIT4_Z
<1>6. trior_bit(W(A, BIT4_1, BIT4_0), W(B, BIT4_1, BIT4_0)) = W(A \cup B, BIT4_1, BIT4_0)
  BY <1>1 DEF trior_bit, OrBit, Merge, BIT4_0, BIT4_1, BIT4_X, BIT4_Z
<1> QED BY <1>3, <1>4, <1>5, <1>6

\* One driver alone gives a wired net its value.
LEMMA WiredOne ==
  ASSUME NEW d \in Scalars,
         NEW dominant, NEW other, {dominant, other} = {BIT4_0, BIT4_1}
  PROVE  WiredBit({d}, dominant, other) = scalar_value(d)
<1>1. scalar_value(d) \in {dominant, other, BIT4_X, BIT4_Z}
  BY ValueIsBit DEF Bits
<1>2. \A b : Has({d}, b) <=> scalar_value(d) = b
  BY DEF Has
<1>3. {d} \subseteq Scalars
  OBVIOUS
<1>4. WiredBit({d}, dominant, other) =
           IF Has({d}, dominant) THEN dominant
           ELSE IF Has({d}, BIT4_X) THEN BIT4_X
           ELSE IF Has({d}, other) THEN other ELSE BIT4_Z
  BY <1>3, WiredBitIs, Zenon
<1> QED BY <1>1, <1>2, <1>4

\* An undriven port adds nothing to a wired net.
LEMMA WiredHiZ ==
  ASSUME NEW A, A \subseteq Scalars,
         NEW dominant, NEW other, {dominant, other} = {BIT4_0, BIT4_1}
  PROVE  WiredBit(A \cup {HiZ}, dominant, other) = WiredBit(A, dominant, other)
<1>1. scalar_value(HiZ) = BIT4_Z
  BY DEF scalar_value, HiZ, is_hiz, Scalar, End
<1>2. {scalar_value(d) : d \in A \cup {HiZ}} \ {BIT4_Z} = {scalar_value(d) : d \in A} \ {BIT4_Z}
  BY <1>1
<1> QED BY <1>2, Zenon DEF WiredBit

-----------------------------------------------------------------------------
(* Vectors, and nodes without a value. *)

\* What a bit of a node is, and what a node holds.
NodeBits == IF Wired THEN Bits ELSE Scalars
Vecs == [Positions -> NodeBits]

\* A vector of the net is not the empty one.
LEMMA VectorIsNotNil ==
  ASSUME ResolverAssumption, NEW S, NEW v \in [Positions -> S]
  PROVE  v # nil
<1>1. 0 \in Positions
  BY DEF ResolverAssumption, Positions
<1>2. DOMAIN v = Positions
  OBVIOUS
<1>3. DOMAIN nil = {}
  BY DEF nil
<1> QED BY <1>1, <1>2, <1>3

\* Two bits of nodes combine to a bit of a node.
LEMMA CombineBitType ==
  ASSUME NEW a \in NodeBits, NEW b \in NodeBits
  PROVE  CombineBit(a, b) \in NodeBits
<1>1. CASE kind = "triand"
  <2>1. a \in Bits /\ b \in Bits
    BY <1>1 DEF NodeBits, Wired
  <2>2. triand_bit(a, b) \in Bits
    BY <2>1 DEF triand_bit, AndBit, Merge, Bits, BIT4_0, BIT4_1, BIT4_X, BIT4_Z
  <2> QED BY <1>1, <2>2 DEF CombineBit, NodeBits, Wired
<1>2. CASE kind = "trior"
  <2>1. a \in Bits /\ b \in Bits
    BY <1>2 DEF NodeBits, Wired
  <2>2. trior_bit(a, b) \in Bits
    BY <2>1 DEF trior_bit, OrBit, Merge, Bits, BIT4_0, BIT4_1, BIT4_X, BIT4_Z
  <2> QED BY <1>2, <2>2 DEF CombineBit, NodeBits, Wired
<1>3. CASE kind # "triand" /\ kind # "trior"
  <2>1. a \in Scalars /\ b \in Scalars
    BY <1>3 DEF NodeBits, Wired
  <2>2. resolve(a, b) \in Scalars
    BY <2>1, ResolveIsScalar
  <2> QED BY <1>3, <2>2 DEF CombineBit, NodeBits, Wired
<1> QED BY <1>1, <1>2, <1>3

\* A group has a value as soon as one of its nodes has.
LEMMA JoinedType ==
  ASSUME ResolverAssumption, NEW a \in Vecs \cup {nil}, NEW b \in Vecs \cup {nil}
  PROVE  /\ Joined(a, b) \in Vecs \cup {nil}
         /\ Joined(a, b) = nil <=> (a = nil /\ b = nil)
<1>1. CASE b = nil
  BY <1>1 DEF Joined
<1>2. CASE b # nil /\ a = nil
  BY <1>2 DEF Joined
<1>3. CASE b # nil /\ a # nil
  <2>1. Combine(a, b) \in Vecs
    <3>1. \A i \in Positions : CombineBit(a[i], b[i]) \in NodeBits
      BY <1>3, CombineBitType DEF Vecs
    <3> QED BY <3>1 DEF Combine, Vecs
  <2>2. Combine(a, b) # nil
    BY <2>1, VectorIsNotNil DEF Vecs
  <2> QED BY <1>3, <2>1, <2>2 DEF Joined
<1> QED BY <1>1, <1>2, <1>3

\* The pull of a net, where there is one.
PullN(v) == IF v = nil THEN nil ELSE Pull(v)

\* Only nets that are not wired are pulled.
LEMMA HizValue ==
  \/ hiz_value_ = HiZ
  \/ PullOf(hiz_value_) /\ ~Wired
<1>1. CASE kind = "tri0"
  <2>1. hiz_value_ = scalar(BIT4_0, 5, 5)
    BY <1>1 DEF hiz_value_
  <2>2. scalar(BIT4_0, 5, 5) = Scalar(End(FALSE, 5), End(FALSE, 5))
    <3>1. 5 \in 0..7 /\ 5 + 5 > 0
      OBVIOUS
    <3> QED BY <3>1, ScalarForms, Zenon
  <2>3. PullOf(hiz_value_)
    BY <2>1, <2>2, Zenon DEF PullOf
  <2> QED BY <1>1, <2>3 DEF Wired
<1>2. CASE kind = "tri1"
  <2>1. hiz_value_ = scalar(BIT4_1, 5, 5)
    BY <1>2 DEF hiz_value_
  <2>2. scalar(BIT4_1, 5, 5) = Scalar(End(TRUE, 5), End(TRUE, 5))
    <3>1. 5 \in 0..7 /\ 5 + 5 > 0
      OBVIOUS
    <3> QED BY <3>1, ScalarForms, Zenon
  <2>3. PullOf(hiz_value_)
    BY <2>1, <2>2, Zenon DEF PullOf
  <2> QED BY <1>2, <2>3 DEF Wired
<1>3. CASE kind # "tri0" /\ kind # "tri1"
  BY <1>3 DEF hiz_value_
<1> QED BY <1>1, <1>2, <1>3

\* The undriven value and the pulls are evenly strong scalars.
LEMMA PullFacts ==
  /\ is_hiz(HiZ) /\ HiZ \in Scalars
  /\ \A h : PullOf(h) => ~is_hiz(h) /\ h \in Scalars /\ EvenForm(h)
<1>1. is_hiz(HiZ) /\ HiZ \in Scalars
  BY DEF is_hiz, HiZ, Scalar, End, Scalars, Ends
<1>2. ASSUME NEW b \in BOOLEAN
      PROVE  LET h == Scalar(End(b, 5), End(b, 5)) IN ~is_hiz(h) /\ h \in Scalars /\ EvenForm(h)
  BY DEF is_hiz, Scalar, End, Scalars, Ends, EvenForm
<1> QED BY <1>1, <1>2 DEF PullOf

\* The pull keeps the type of a node, and pulling again changes nothing.
LEMMA PullType ==
  ASSUME ResolverAssumption, NEW v \in Vecs \cup {nil}
  PROVE  /\ PullN(v) \in Vecs \cup {nil}
         /\ PullN(v) = nil <=> v = nil
         /\ PullN(PullN(v)) = PullN(v)
<1>1. CASE v = nil
  BY <1>1 DEF PullN
<1>2. CASE v # nil /\ hiz_value_ = HiZ
  BY <1>2, PullFacts DEF PullN, Pull
<1>3. CASE v # nil /\ PullOf(hiz_value_) /\ ~Wired
  <2>0. hiz_value_ \in Scalars /\ ~is_hiz(hiz_value_)
    BY <1>3, PullFacts
  <2>1. v \in [Positions -> Scalars] /\ Vecs = [Positions -> Scalars]
    BY <1>3 DEF Vecs, NodeBits
  <2>2. \A x : Pull(x) = [i \in Positions |-> resolve(x[i], hiz_value_)]
    BY <2>0 DEF Pull
  <2> DEFINE w == [i \in Positions |-> resolve(v[i], hiz_value_)]
  <2>3. \A i \in Positions : w[i] = resolve(v[i], hiz_value_) /\ resolve(v[i], hiz_value_) \in Scalars
    BY <2>0, <2>1, ResolveIsScalar
  <2>4. w \in Vecs /\ Pull(v) = w
    BY <2>1, <2>2, <2>3
  <2>5. w # nil
    BY <2>4, VectorIsNotNil DEF Vecs
  <2>6. Pull(w) = w
    <3>1. \A i \in Positions : resolve(w[i], hiz_value_) = w[i]
      BY <1>3, <2>1, <2>3, PullTwice
    <3> HIDE DEF w
    <3>2. [i \in Positions |-> resolve(w[i], hiz_value_)] = w
      BY <3>1, <2>4 DEF Vecs
    <3> QED BY <2>2, <3>2
  <2> HIDE DEF w
  <2> QED BY <1>3, <2>4, <2>5, <2>6 DEF PullN
<1> QED BY <1>1, <1>2, <1>3, HizValue

-----------------------------------------------------------------------------
(* The shape of the tree. *)

\* Every level has a node, and levels get smaller until one has one node.
LEMMA SpanShrinks ==
  ASSUME ResolverAssumption
  PROVE  \A n \in 0..NPorts : Span[n] >= 1 /\ (Span[n] = 1 \/ Span[n] <= NPorts - n)
<1> DEFINE S == {n \in 0..NPorts : Span[n] >= 1 /\ (Span[n] = 1 \/ Span[n] <= NPorts - n)}
<1>0. NPorts \in Nat /\ NPorts >= 1
  BY DEF ResolverAssumption
<1>1. 0 \in S
  BY <1>0, SpanSteps
<1>2. ASSUME NEW n \in 0..(NPorts - 1), n \in S PROVE n + 1 \in S
  <2>1. Span[n + 1] = (Span[n] + 3) \div 4
    <3>1. n + 1 \in 1..NPorts /\ (n + 1) - 1 = n
      BY <1>0
    <3> QED BY <3>1, SpanSteps
  <2>2. Span[n] \in Nat
    <3>1. n \in 0..NPorts
      BY <1>0
    <3> QED BY <3>1, SpanSteps
  <2> QED BY <1>0, <1>2, <2>1, <2>2
<1>3. 0..NPorts \subseteq S
  <2> HIDE DEF S
  <2> QED BY <1>0, <1>1, <1>2, UpTo
<1> QED BY <1>3

\* There is a first level with a single node, and Depth is it.
LEMMA DepthIs ==
  ASSUME ResolverAssumption
  PROVE  Depth \in 0..NPorts /\ Span[Depth] = 1 /\ \A n \in 0..(Depth - 1) : Span[n] > 1
<1> DEFINE S == {n \in 0..NPorts : Span[n] = 1}
<1>0. NPorts \in Nat /\ NPorts >= 1
  BY DEF ResolverAssumption
<1>1. NPorts \in S
  <2>1. NPorts \in 0..NPorts
    BY <1>0
  <2>2. Span[NPorts] \in Nat /\ Span[NPorts] >= 1 /\ (Span[NPorts] = 1 \/ Span[NPorts] <= NPorts - NPorts)
    BY <2>1, SpanShrinks, SpanSteps
  <2> QED BY <1>0, <2>1, <2>2
<1>2. PICK d \in S : \A m \in S : d <= m
  <2>1. S \subseteq Nat
    BY <1>0
  <2> HIDE DEF S
  <2> QED BY <1>1, <2>1, LeastNatural
<1>3. \A n \in 0..(d - 1) : Span[n] > 1
  <2> SUFFICES ASSUME NEW n \in 0..(d - 1) PROVE Span[n] > 1
    OBVIOUS
  <2>1. n \in 0..NPorts /\ n \notin S
    BY <1>0, <1>2
  <2>2. Span[n] >= 1 /\ Span[n] # 1 /\ Span[n] \in Nat
    BY <2>1, SpanShrinks, SpanSteps
  <2> QED BY <2>2
<1>4. \E e \in 0..NPorts : Span[e] = 1 /\ \A n \in 0..(e - 1) : Span[n] > 1
  BY <1>2, <1>3
<1> QED BY <1>4 DEF Depth

\* The ranges of the levels that the tree has.
LEMMA TreeShape ==
  ASSUME ResolverAssumption
  PROVE  /\ NPorts \in Nat \ {0} /\ Depth \in 0..NPorts
         /\ Span[0] = NPorts /\ Base[0] = 0 /\ Span[Depth] = 1
         /\ \A n \in 0..Depth : Span[n] \in Nat /\ Span[n] >= 1 /\ Base[n] \in Nat
         /\ \A n \in 0..(Depth - 1) : /\ Span[n] > 1
                                      /\ Span[n + 1] = (Span[n] + 3) \div 4
                                      /\ Base[n + 1] = Base[n] + Span[n]
<1>0. NPorts \in Nat \ {0} /\ Depth \in 0..NPorts
  BY DepthIs DEF ResolverAssumption
<1>1. ASSUME NEW n \in 0..Depth PROVE Span[n] \in Nat /\ Span[n] >= 1 /\ Base[n] \in Nat
  <2>1. n \in 0..NPorts
    BY <1>0
  <2> QED BY <2>1, SpanSteps, BaseSteps, SpanShrinks
<1>2. ASSUME NEW n \in 0..(Depth - 1)
      PROVE  Span[n] > 1 /\ Span[n + 1] = (Span[n] + 3) \div 4 /\ Base[n + 1] = Base[n] + Span[n]
  <2>1. n + 1 \in 1..NPorts /\ (n + 1) - 1 = n
    BY <1>0
  <2> QED BY <2>1, SpanSteps, BaseSteps, DepthIs
<1> QED BY <1>0, <1>1, <1>2, SpanSteps, BaseSteps, DepthIs

\* Levels lie one after the other.
LEMMA LevelsApart ==
  ASSUME ResolverAssumption
  PROVE  \A m \in 0..Depth : \A n \in 0..(m - 1) : Base[n] + Span[n] <= Base[m]
<1> DEFINE S == {m \in 0..Depth : \A n \in 0..(m - 1) : Base[n] + Span[n] <= Base[m]}
<1>0. Depth \in Nat
  BY TreeShape
<1>1. 0 \in S
  BY <1>0
<1>2. ASSUME NEW m \in 0..(Depth - 1), m \in S PROVE m + 1 \in S
  <2>1. Base[m + 1] = Base[m] + Span[m] /\ Base[m] \in Nat /\ Span[m] \in Nat /\ m \in 0..Depth
    BY <1>0, TreeShape
  <2>2. ASSUME NEW n \in 0..m PROVE Base[n] + Span[n] <= Base[m + 1]
    <3>1. CASE n = m
      BY <2>1, <3>1
    <3>2. CASE n \in 0..(m - 1)
      <4>1. Base[n] + Span[n] <= Base[m] /\ n \in 0..Depth
        BY <1>0, <1>2, <3>2
      <4>2. Base[n] \in Nat /\ Span[n] \in Nat
        BY <4>1, TreeShape
      <4> QED BY <2>1, <4>1, <4>2
    <3> QED BY <3>1, <3>2
  <2> QED BY <1>0, <2>2
<1>3. 0..Depth \subseteq S
  <2> HIDE DEF S
  <2> QED BY <1>0, <1>1, <1>2, UpTo
<1> QED BY <1>3

\* A node belongs to one level.
LEMMA NodesApart ==
  ASSUME ResolverAssumption, NEW m \in 0..Depth, NEW n \in 0..Depth,
         NEW j \in 0..(Span[m] - 1), NEW k \in 0..(Span[n] - 1), Base[m] + j = Base[n] + k
  PROVE  m = n /\ j = k
<1>0. /\ Depth \in Nat /\ Base[m] \in Nat /\ Base[n] \in Nat /\ Span[m] \in Nat /\ Span[n] \in Nat
  BY TreeShape
<1>1. CASE m < n
  <2>1. Base[m] + Span[m] <= Base[n]
    <3>1. m \in 0..(n - 1)
      BY <1>0, <1>1
    <3> QED BY <3>1, LevelsApart
  <2> QED BY <1>0, <2>1
<1>2. CASE n < m
  <2>1. Base[n] + Span[n] <= Base[m]
    <3>1. n \in 0..(m - 1)
      BY <1>0, <1>2
    <3> QED BY <3>1, LevelsApart
  <2> QED BY <1>0, <2>1
<1>3. CASE m = n
  BY <1>0, <1>3
<1> QED BY <1>0, <1>1, <1>2, <1>3

\* Every node of every level is in the array.
LEMMA NodeInRange ==
  ASSUME ResolverAssumption, NEW m \in 0..Depth, NEW k \in 0..(Span[m] - 1)
  PROVE  Base[m] + k \in Nodes
<1>0. /\ Depth \in Nat /\ Base[m] \in Nat /\ Span[m] \in Nat
      /\ Base[Depth] \in Nat /\ Span[Depth] = 1
  BY TreeShape
<1>1. CASE m < Depth
  <2>1. Base[m] + Span[m] <= Base[Depth]
    <3>1. m \in 0..(Depth - 1) /\ Depth \in 0..Depth
      BY <1>0, <1>1
    <3> QED BY <3>1, LevelsApart
  <2> QED BY <1>0, <2>1 DEF Nodes, Root
<1>2. CASE m = Depth
  BY <1>0, <1>2 DEF Nodes, Root
<1> QED BY <1>0, <1>1, <1>2

\* A group of a level, and the node above it.
LEMMA GroupAbove ==
  ASSUME ResolverAssumption, NEW n \in 0..(Depth - 1)
  PROVE  /\ \A k \in 0..(Span[n + 1] - 1) : 4 * k \in 0..(Span[n] - 1) /\ (4 * k) \div 4 = k
         /\ \A j \in 0..(Span[n] - 1) : /\ j \div 4 \in 0..(Span[n + 1] - 1)
                                        /\ 4 * (j \div 4) <= j /\ j <= 4 * (j \div 4) + 3
<1>1. /\ Span[n] \in Nat /\ Span[n] > 1 /\ Span[n + 1] = (Span[n] + 3) \div 4
  BY TreeShape
<1> QED BY <1>1

-----------------------------------------------------------------------------
(* Groups. *)

Values == Vecs \cup {nil}

\* The j-th node of group q of level n.
Member(val, n, q, j) == IF 4 * q + j < Span[n] THEN val[Base[n] + (4 * q + j)] ELSE nil

\* The group of a node, member by member.
LEMMA GroupIs ==
  ASSUME ResolverAssumption, NEW n \in 0..(Depth - 1), NEW port \in 0..(Span[n] - 1), NEW val
  PROVE  LET q == port \div 4
         IN Group(val, n, port) = Joined(Joined(Joined(Member(val, n, q, 0), Member(val, n, q, 1)),
                                                Member(val, n, q, 2)), Member(val, n, q, 3))
<1> DEFINE q == port \div 4
           ip == Base[n] + 4 * (port \div 4)
<1>0. Base[n] \in Nat /\ Span[n] \in Nat /\ q \in Nat /\ 4 * q < Span[n]
  <2>1. n \in 0..Depth /\ Depth \in Nat
    BY TreeShape
  <2> QED BY <2>1, TreeShape, GroupAbove
<1>1. val[ip] = Member(val, n, q, 0)
  <2>1. 4 * q + 0 < Span[n] /\ Base[n] + (4 * q + 0) = ip
    BY <1>0
  <2> QED BY <2>1 DEF Member
<1>2. ASSUME NEW k \in 1..3
      PROVE  (IF ip + k < Base[n] + Span[n] THEN val[ip + k] ELSE nil) = Member(val, n, q, k)
  <2>1. ip + k = Base[n] + (4 * q + k) /\ (ip + k < Base[n] + Span[n] <=> 4 * q + k < Span[n])
    BY <1>0
  <2> HIDE DEF ip, q
  <2> QED BY <2>1 DEF Member
<1>3. 1 \in 1..3 /\ 2 \in 1..3 /\ 3 \in 1..3
  OBVIOUS
<1> DEFINE N(k) == IF ip + k < Base[n] + Span[n] THEN val[ip + k] ELSE nil
<1>4. Group(val, n, port) = Joined(Joined(Joined(val[ip], N(1)), N(2)), N(3))
  BY Zenon DEF Group
<1>5. N(1) = Member(val, n, q, 1) /\ N(2) = Member(val, n, q, 2) /\ N(3) = Member(val, n, q, 3)
  BY <1>2, <1>3
<1> HIDE DEF N, ip, q
<1>6. Group(val, n, port) = Joined(Joined(Joined(Member(val, n, q, 0), Member(val, n, q, 1)),
                                                Member(val, n, q, 2)), Member(val, n, q, 3))
  BY <1>1, <1>4, <1>5, Zenon
<1> QED BY <1>6 DEF q

\* A member of a group is a value of a node.
LEMMA MemberType ==
  ASSUME ResolverAssumption, NEW n \in 0..(Depth - 1), NEW q \in Nat, NEW j \in 0..3,
         NEW val \in [Nodes -> Values]
  PROVE  Member(val, n, q, j) \in Values
<1>1. CASE 4 * q + j < Span[n]
  <2>1. n \in 0..Depth /\ 4 * q + j \in 0..(Span[n] - 1)
    BY <1>1, TreeShape
  <2>2. Base[n] + (4 * q + j) \in Nodes
    BY <2>1, NodeInRange
  <2> QED BY <1>1, <2>2 DEF Member
<1>2. CASE ~(4 * q + j < Span[n])
  BY <1>2 DEF Member, Values
<1> QED BY <1>1, <1>2

\* A group is a value, and has one when a node of it has.
LEMMA GroupType ==
  ASSUME ResolverAssumption, NEW n \in 0..(Depth - 1), NEW port \in 0..(Span[n] - 1),
         NEW val \in [Nodes -> Values]
  PROVE  /\ Group(val, n, port) \in Values
         /\ val[Base[n] + port] # nil => Group(val, n, port) # nil
<1> DEFINE q == port \div 4
           m0 == Member(val, n, q, 0)
           m1 == Member(val, n, q, 1)
           m2 == Member(val, n, q, 2)
           m3 == Member(val, n, q, 3)
           j1 == Joined(m0, m1)
           j2 == Joined(j1, m2)
           j3 == Joined(j2, m3)
<1>0. /\ q \in Nat /\ n \in 0..Depth /\ Span[n] \in Nat /\ Base[n] \in Nat /\ port \in Nat /\ port < Span[n]
      /\ 4 * q <= port /\ port <= 4 * q + 3
  BY TreeShape, GroupAbove
<1>1. m0 \in Values /\ m1 \in Values /\ m2 \in Values /\ m3 \in Values
  <2>1. 0 \in 0..3 /\ 1 \in 0..3 /\ 2 \in 0..3 /\ 3 \in 0..3
    OBVIOUS
  <2> HIDE DEF q
  <2> QED BY <1>0, <2>1, MemberType
<1>2. Group(val, n, port) = j3
  BY GroupIs
<1>3. val[Base[n] + port] # nil => m0 # nil \/ m1 # nil \/ m2 # nil \/ m3 # nil
  <2> HIDE DEF q
  <2> DEFINE j == port - 4 * q
  <2>1. j \in 0..3 /\ 4 * q + j = port
    BY <1>0
  <2> HIDE DEF j
  <2>2. Member(val, n, q, j) = val[Base[n] + port]
    BY <1>0, <2>1 DEF Member
  <2>3. j = 0 \/ j = 1 \/ j = 2 \/ j = 3
    BY <2>1
  <2> QED BY <2>2, <2>3
<1> HIDE DEF m0, m1, m2, m3
<1>4. j1 \in Values /\ (j1 = nil <=> m0 = nil /\ m1 = nil)
  BY <1>1, JoinedType DEF Values
<1> HIDE DEF j1
<1>5. j2 \in Values /\ (j2 = nil <=> j1 = nil /\ m2 = nil)
  BY <1>1, <1>4, JoinedType DEF Values
<1> HIDE DEF j2
<1>6. j3 \in Values /\ (j3 = nil <=> j2 = nil /\ m3 = nil)
  BY <1>1, <1>5, JoinedType DEF Values
<1> HIDE DEF j3
<1> QED BY <1>2, <1>3, <1>4, <1>5, <1>6

\* A group depends on its nodes alone.
LEMMA GroupSame ==
  ASSUME ResolverAssumption, NEW n \in 0..(Depth - 1), NEW port \in 0..(Span[n] - 1), NEW val, NEW new,
         \A j \in 0..(Span[n] - 1) : j \div 4 = port \div 4 => new[Base[n] + j] = val[Base[n] + j]
  PROVE  Group(new, n, port) = Group(val, n, port)
<1> DEFINE q == port \div 4
<1>0. q \in Nat /\ Span[n] \in Nat
  <2>1. n \in 0..Depth /\ Span[n] \in Nat
    BY TreeShape
  <2> QED BY <2>1
<1>1. ASSUME NEW j \in 0..3 PROVE Member(new, n, q, j) = Member(val, n, q, j)
  <2>1. CASE 4 * q + j < Span[n]
    <3> HIDE DEF q
    <3>1. 4 * q + j \in 0..(Span[n] - 1) /\ (4 * q + j) \div 4 = q
      BY <1>0, <2>1
    <3>2. new[Base[n] + (4 * q + j)] = val[Base[n] + (4 * q + j)]
      BY <3>1 DEF q
    <3> QED BY <3>2 DEF Member
  <2>2. CASE ~(4 * q + j < Span[n])
    BY <2>2 DEF Member
  <2> QED BY <2>1, <2>2
<1>2. /\ Member(new, n, q, 0) = Member(val, n, q, 0) /\ Member(new, n, q, 1) = Member(val, n, q, 1)
      /\ Member(new, n, q, 2) = Member(val, n, q, 2) /\ Member(new, n, q, 3) = Member(val, n, q, 3)
  <2>1. 0 \in 0..3 /\ 1 \in 0..3 /\ 2 \in 0..3 /\ 3 \in 0..3
    OBVIOUS
  <2> HIDE DEF q
  <2> QED BY <1>1, <2>1
<1>3. Group(new, n, port) = Joined(Joined(Joined(Member(new, n, q, 0), Member(new, n, q, 1)),
                                                Member(new, n, q, 2)), Member(new, n, q, 3))
  BY GroupIs
<1>4. Group(val, n, port) = Joined(Joined(Joined(Member(val, n, q, 0), Member(val, n, q, 1)),
                                                Member(val, n, q, 2)), Member(val, n, q, 3))
  BY GroupIs
<1> HIDE DEF q
<1> QED BY <1>2, <1>3, <1>4, Zenon

\* And on the number of the group.
LEMMA GroupOfNode ==
  ASSUME ResolverAssumption, NEW n \in 0..(Depth - 1), NEW port \in 0..(Span[n] - 1), NEW val
  PROVE  Group(val, n, 4 * (port \div 4)) = Group(val, n, port)
<1>1. 4 * (port \div 4) \in 0..(Span[n] - 1) /\ (4 * (port \div 4)) \div 4 = port \div 4
  <2>1. port \div 4 \in 0..(Span[n + 1] - 1)
    BY GroupAbove
  <2> QED BY <2>1, GroupAbove
<1> QED BY <1>1, Zenon DEF Group

-----------------------------------------------------------------------------
(* The climb. *)

\* at[n] is the state of the climb from a port after level n, up to level m.
Climbs(at, val, port, m) ==
  /\ at = [n \in 0..m |-> at[n]]
  /\ at[0] = [val |-> val, go |-> TRUE, port |-> port]
  /\ \A n \in 1..m : at[n] = ClimbTo(n, at[n - 1])

\* The loop can be unrolled to any number of turns.
LEMMA ClimbsExist ==
  ASSUME NEW m \in Nat, NEW val, NEW port
  PROVE  \E at : Climbs(at, val, port, m)
<1> DEFINE S == {n \in 0..m : \E at : Climbs(at, val, port, n)}
           a0 == [val |-> val, go |-> TRUE, port |-> port]
<1>1. 0 \in S
  <2> HIDE DEF a0
  <2> DEFINE f == [n \in 0..0 |-> a0]
  <2>1. f = [n \in 0..0 |-> f[n]] /\ f[0] = a0 /\ \A n \in 1..0 : f[n] = ClimbTo(n, f[n - 1])
    OBVIOUS
  <2> HIDE DEF f
  <2>2. Climbs(f, val, port, 0)
    BY <2>1 DEF Climbs, a0
  <2> QED BY <2>2
<1>2. ASSUME NEW n \in 0..(m - 1), n \in S PROVE n + 1 \in S
  <2>1. PICK f : Climbs(f, val, port, n)
    BY <1>2
  <2> DEFINE c == ClimbTo(n + 1, f[n])
  <2> HIDE DEF c
  <2> DEFINE g == [k \in 0..(n + 1) |-> IF k = n + 1 THEN c ELSE f[k]]
  <2>2. g = [k \in 0..(n + 1) |-> g[k]]
    OBVIOUS
  <2>3. g[0] = f[0]
    OBVIOUS
  <2>4. ASSUME NEW k \in 1..(n + 1) PROVE g[k] = ClimbTo(k, g[k - 1])
    <3>1. CASE k = n + 1
      <4>1. g[k] = c /\ g[k - 1] = f[n]
        BY <3>1
      <4> HIDE DEF g
      <4> QED BY <3>1, <4>1 DEF c
    <3>2. CASE k \in 1..n
      <4>1. g[k] = f[k] /\ g[k - 1] = f[k - 1]
        BY <3>2
      <4>2. f[k] = ClimbTo(k, f[k - 1])
        BY <2>1, <3>2 DEF Climbs
      <4> HIDE DEF g
      <4> QED BY <4>1, <4>2
    <3> QED BY <3>1, <3>2
  <2> HIDE DEF g
  <2>5. Climbs(g, val, port, n + 1)
    BY <2>1, <2>2, <2>3, <2>4 DEF Climbs
  <2>6. n + 1 \in 0..m
    OBVIOUS
  <2> QED BY <2>5, <2>6
<1>3. 0..m \subseteq S
  <2> HIDE DEF S
  <2> QED BY <1>1, <1>2, UpTo
<1>4. m \in S
  <2> HIDE DEF S
  <2> QED BY <1>3
<1> QED BY <1>4

\* A climb is the last of Depth turns of the loop.
LEMMA ClimbSteps ==
  ASSUME ResolverAssumption, NEW val, NEW port
  PROVE  \E at : /\ at[0] = [val |-> val, go |-> TRUE, port |-> port]
                 /\ \A n \in 1..Depth : at[n] = ClimbTo(n, at[n - 1])
                 /\ Climb(val, port) = at[Depth]
<1> DEFINE body(f) == [level \in 0..Depth |->
                         IF level = 0 THEN [val |-> val, go |-> TRUE, port |-> port]
                         ELSE ClimbTo(level, f[level - 1])]
           at == CHOOSE f : f = body(f)
<1>0. Depth \in Nat
  BY TreeShape
<1>1. PICK f : Climbs(f, val, port, Depth)
  BY <1>0, ClimbsExist
<1>2. f = body(f)
  <2>1. f = [n \in 0..Depth |-> f[n]]
    BY <1>1 DEF Climbs
  <2>2. \A n \in 0..Depth : f[n] = IF n = 0 THEN [val |-> val, go |-> TRUE, port |-> port]
                                   ELSE ClimbTo(n, f[n - 1])
    <3>1. ASSUME NEW n \in 0..Depth, n # 0 PROVE n \in 1..Depth
      BY <1>0, <3>1
    <3> QED BY <1>1, <3>1, Zenon DEF Climbs
  <2>3. [n \in 0..Depth |-> f[n]] = [n \in 0..Depth |->
                                       IF n = 0 THEN [val |-> val, go |-> TRUE, port |-> port]
                                       ELSE ClimbTo(n, f[n - 1])]
    BY <2>2, Zenon
  <2> QED BY <2>1, <2>3, Zenon
<1>3. at = body(at)
  <2> HIDE DEF body
  <2> QED BY <1>2
<1>4. Climb(val, port) = at[Depth]
  BY Zenon DEF Climb
<1> HIDE DEF at
<1>5. at[0] = [val |-> val, go |-> TRUE, port |-> port]
  <2>1. 0 \in 0..Depth
    BY <1>0
  <2> DEFINE rec == [val |-> val, go |-> TRUE, port |-> port]
  <2>2. at[0] = IF 0 = 0 THEN rec ELSE ClimbTo(0, at[0 - 1])
    BY <1>3, <2>1, Zenon
  <2> QED BY <2>2, Zenon
<1>6. ASSUME NEW n \in 1..Depth PROVE at[n] = ClimbTo(n, at[n - 1])
  <2>1. n \in 0..Depth /\ n # 0
    BY <1>0
  <2> HIDE DEF body
  <2>2. body(at)[n] = ClimbTo(n, at[n - 1])
    BY <2>1, Zenon DEF body
  <2> QED BY <1>3, <2>2
<1> QED BY <1>4, <1>5, <1>6

-----------------------------------------------------------------------------
(* What is cached. *)

\* The node k of level m caches its group; the root also has the pull.
Fixed(m, x) == IF m = Depth THEN PullN(x) ELSE x
Cached(val, m, k) == val[Base[m] + k] = Fixed(m, Group(val, m - 1, 4 * k))
AllCached(val) == \A m \in 1..Depth : \A k \in 0..(Span[m] - 1) : Cached(val, m, k)

\* A change of one node changes one group.
LEMMA GroupsElsewhere ==
  ASSUME ResolverAssumption, NEW val \in [Nodes -> Values], NEW x,
         NEW m0 \in 0..Depth, NEW q \in 0..(Span[m0] - 1),
         NEW m \in 1..Depth, NEW k \in 0..(Span[m] - 1), ~(m = m0 + 1 /\ k = q \div 4)
  PROVE  Group([val EXCEPT ![Base[m0] + q] = x], m - 1, 4 * k) = Group(val, m - 1, 4 * k)
<1> DEFINE n == m - 1
           new == [val EXCEPT ![Base[m0] + q] = x]
<1>0. Depth \in Nat /\ n \in 0..(Depth - 1) /\ n \in 0..Depth /\ n + 1 = m
  BY TreeShape
<1>1. 4 * k \in 0..(Span[n] - 1) /\ (4 * k) \div 4 = k
  BY <1>0, GroupAbove
<1>2. ASSUME NEW j \in 0..(Span[n] - 1), j \div 4 = (4 * k) \div 4
      PROVE  new[Base[n] + j] = val[Base[n] + j]
  <2>1. ~(n = m0 /\ j = q)
    <3>1. SUFFICES ASSUME n = m0, j = q PROVE FALSE
      OBVIOUS
    <3>2. m = m0 + 1 /\ k = q \div 4
      BY <1>0, <1>1, <1>2, <3>1
    <3> QED BY <3>2
  <2> HIDE DEF n
  <2>2. Base[n] + j # Base[m0] + q
    BY <1>0, <2>1, NodesApart
  <2>3. Base[n] + j \in Nodes
    BY <1>0, NodeInRange
  <2> QED BY <2>2, <2>3
<1> HIDE DEF n, new
<1>3. Group(new, n, 4 * k) = Group(val, n, 4 * k)
  BY <1>0, <1>1, <1>2, GroupSame
<1> QED BY <1>3 DEF n, new

-----------------------------------------------------------------------------
(* The state of the climb after level n, from a tree val0 in which a port has changed. *)

ClimbOK(c, n, val0) ==
  /\ c \in [val : [Nodes -> Values], go : BOOLEAN, port : Nat]
  /\ \A p \in Ports : c.val[p] = val0[p]
  /\ ~c.go => AllCached(c.val) /\ c.val[Root] = val0[Root]
  /\ c.go => /\ c.port \in 0..(Span[n] - 1)
             /\ c.val[Base[n] + c.port] # nil
             /\ \A m \in 1..Depth : \A k \in 0..(Span[m] - 1) :
                  (m # n /\ ~(m = n + 1 /\ k = c.port \div 4)) \/ (m = n /\ n < Depth)
                    => Cached(c.val, m, k)
             /\ n < Depth => c.val[Root] = val0[Root]
             /\ n = Depth => c.val[Root] = Group(c.val, Depth - 1, 0)

\* The root is the only node of the last level.
LEMMA RootIs ==
  ASSUME ResolverAssumption
  PROVE  /\ Root = Base[Depth] + 0 /\ Root \in Nodes /\ 0 \in 0..(Span[Depth] - 1)
         /\ Depth \in 0..Depth /\ Span[Depth] = 1 /\ Depth \in Nat
<1>1. Depth \in Nat /\ Base[Depth] \in Nat /\ Span[Depth] = 1
  BY TreeShape
<1> QED BY <1>1 DEF Root, Nodes

\* The ports are the nodes of the first level.
LEMMA PortsAreNodes ==
  ASSUME ResolverAssumption, NEW p \in Ports
  PROVE  p \in 0..(Span[0] - 1) /\ Base[0] + p = p /\ 0 \in 0..Depth /\ p \in Nodes
<1>1. p \in 0..(Span[0] - 1) /\ Base[0] + p = p /\ 0 \in 0..Depth
  BY TreeShape DEF Ports
<1>2. p \in Nodes
  BY <1>1, NodeInRange
<1> QED BY <1>1, <1>2

\* One turn of the loop carries the invariant of the climb one level up.
LEMMA ClimbStep ==
  ASSUME ResolverAssumption, NEW n \in 0..(Depth - 1), NEW c, NEW val0,
         ClimbOK(c, n, val0), PullN(val0[Root]) = val0[Root]
  PROVE  ClimbOK(ClimbTo(n + 1, c), n + 1, val0)
<1> DEFINE q == c.port \div 4
           op == Base[n + 1] + q
           res == Group(c.val, n, c.port)
           d == ClimbTo(n + 1, c)
<1>0. /\ Depth \in Nat /\ n \in Nat /\ n < Depth /\ n + 1 \in 1..Depth /\ n + 1 \in 0..Depth /\ (n + 1) - 1 = n
  BY TreeShape
<1>1. d = IF ~c.go \/ c.val[op] = res
          THEN [c EXCEPT !.go = FALSE]
          ELSE [val |-> [c.val EXCEPT ![op] = res], go |-> TRUE, port |-> q]
  BY <1>0 DEF ClimbTo
<1>2. c \in [val : [Nodes -> Values], go : BOOLEAN, port : Nat] /\ \A p \in Ports : c.val[p] = val0[p]
  BY DEF ClimbOK
<1> HIDE DEF d
<1>3. CASE ~c.go
  <2>1. d = [c EXCEPT !.go = FALSE]
    BY <1>1, <1>3
  <2>2. d \in [val : [Nodes -> Values], go : BOOLEAN, port : Nat] /\ d.val = c.val /\ ~d.go
    BY <1>2, <2>1
  <2>3. AllCached(c.val) /\ c.val[Root] = val0[Root]
    BY <1>3 DEF ClimbOK
  <2>4. ClimbOK(d, n + 1, val0)
    BY <1>2, <2>2, <2>3 DEF ClimbOK
  <2> QED BY <2>4 DEF d
<1>4. ASSUME c.go
      PROVE  /\ c.port \in 0..(Span[n] - 1) /\ q \in 0..(Span[n + 1] - 1) /\ q \in Nat
             /\ op \in Nodes
             /\ res \in Values /\ res # nil
             /\ Group(c.val, n, 4 * q) = res
             /\ c.val[Root] = val0[Root]
             /\ \A m \in 1..Depth : \A k \in 0..(Span[m] - 1) :
                  ~(m = n + 1 /\ k = q) => Cached(c.val, m, k)
  <2>1. c.port \in 0..(Span[n] - 1) /\ c.val[Base[n] + c.port] # nil /\ c.val[Root] = val0[Root]
    BY <1>0, <1>4 DEF ClimbOK
  <2>2. q \in 0..(Span[n + 1] - 1)
    BY <2>1, GroupAbove
  <2>3. q \in Nat
    BY <2>2
  <2>4. op \in Nodes
    BY <1>0, <2>2, NodeInRange
  <2>5. c.val \in [Nodes -> Values]
    BY <1>2
  <2>6. res \in Values /\ res # nil
    BY <2>1, <2>5, GroupType
  <2>7. Group(c.val, n, 4 * q) = res
    BY <2>1, GroupOfNode
  <2>8. ASSUME NEW m \in 1..Depth, NEW k \in 0..(Span[m] - 1), ~(m = n + 1 /\ k = q)
        PROVE  Cached(c.val, m, k)
    <3>1. (m # n /\ ~(m = n + 1 /\ k = q)) \/ (m = n /\ n < Depth)
      BY <1>0, <2>8
    <3> QED BY <1>4, <3>1 DEF ClimbOK
  <2> QED BY <2>1, <2>2, <2>3, <2>4, <2>6, <2>7, <2>8
<1>5. CASE c.go /\ c.val[op] = res
  <2>1. d = [c EXCEPT !.go = FALSE]
    BY <1>1, <1>5
  <2>2. d \in [val : [Nodes -> Values], go : BOOLEAN, port : Nat] /\ d.val = c.val /\ ~d.go
    BY <1>2, <2>1
  <2>3. Cached(c.val, n + 1, q)
    <3>1. CASE n + 1 # Depth
      <4>1. c.val[op] = Group(c.val, (n + 1) - 1, 4 * q)
        BY <1>0, <1>4, <1>5
      <4> QED BY <3>1, <4>1 DEF Cached, Fixed
    <3>2. CASE n + 1 = Depth
      <4>1. q = 0 /\ op = Root
        <5>1. q \in 0..(Span[Depth] - 1)
          BY <1>4, <1>5, <3>2
        <5>2. q = 0
          BY <5>1, RootIs
        <5> QED BY <3>2, <5>2, RootIs
      <4>2. PullN(res) = res
        BY <1>4, <1>5, <4>1
      <4>3. c.val[op] = PullN(Group(c.val, (n + 1) - 1, 4 * q))
        BY <1>0, <1>4, <1>5, <4>2
      <4> QED BY <3>2, <4>3 DEF Cached, Fixed
    <3> QED BY <3>1, <3>2
  <2>4. AllCached(c.val)
    BY <1>4, <1>5, <2>3 DEF AllCached
  <2>5. ClimbOK(d, n + 1, val0)
    BY <1>2, <1>4, <1>5, <2>2, <2>4 DEF ClimbOK
  <2> QED BY <2>5 DEF d
<1>6. CASE c.go /\ c.val[op] # res
  <2> DEFINE new == [c.val EXCEPT ![op] = res]
  <2>0. /\ c.val \in [Nodes -> Values] /\ q \in 0..(Span[n + 1] - 1)
    BY <1>2, <1>4, <1>6
  <2>1. d = [val |-> new, go |-> TRUE, port |-> q]
    BY <1>1, <1>6
  <2>2. new \in [Nodes -> Values] /\ new[op] = res
    BY <1>4, <1>6, <2>0
  <2>3. d \in [val : [Nodes -> Values], go : BOOLEAN, port : Nat] /\ d.val = new /\ d.go /\ d.port = q
    BY <1>4, <1>6, <2>1, <2>2
  <2>4. ASSUME NEW m \in 0..Depth, NEW k \in 0..(Span[m] - 1), ~(m = n + 1 /\ k = q)
        PROVE  new[Base[m] + k] = c.val[Base[m] + k]
    <3> HIDE DEF q, res
    <3>1. Base[m] + k # op
      BY <1>0, <2>0, <2>4, NodesApart
    <3>2. Base[m] + k \in Nodes
      BY NodeInRange
    <3> QED BY <2>0, <3>1, <3>2
  <2>5. ASSUME NEW m \in 1..Depth, NEW k \in 0..(Span[m] - 1), ~(m = (n + 1) + 1 /\ k = q \div 4)
        PROVE  Group(new, m - 1, 4 * k) = Group(c.val, m - 1, 4 * k)
    <3> HIDE DEF q, res
    <3> QED BY <1>0, <2>0, <2>5, GroupsElsewhere
  <2> HIDE DEF new
  <2>6. ASSUME NEW p \in Ports PROVE new[p] = val0[p]
    <3>1. p \in 0..(Span[0] - 1) /\ Base[0] + p = p /\ 0 \in 0..Depth /\ 0 # n + 1
      BY <1>0, PortsAreNodes
    <3>2. new[Base[0] + p] = c.val[Base[0] + p]
      BY <2>4, <3>1
    <3> QED BY <1>2, <3>1, <3>2
  <2>7. Group(new, n, 4 * q) = res
    <3>1. ~(n + 1 = (n + 1) + 1 /\ q = q \div 4)
      BY <1>0
    <3>2. Group(new, (n + 1) - 1, 4 * q) = Group(c.val, (n + 1) - 1, 4 * q)
      BY <1>0, <2>0, <2>5, <3>1
    <3> QED BY <1>0, <1>4, <1>6, <3>2
  <2>8. ASSUME NEW m \in 1..Depth, NEW k \in 0..(Span[m] - 1), ~(m = (n + 1) + 1 /\ k = q \div 4),
               m # n + 1 \/ n + 1 < Depth
        PROVE  Cached(new, m, k)
    <3>1. Group(new, m - 1, 4 * k) = Group(c.val, m - 1, 4 * k)
      BY <2>5, <2>8
    <3>2. CASE m = n + 1 /\ k = q
      <4>1. m # Depth /\ m - 1 = n
        BY <1>0, <2>8, <3>2
      <4>2. new[Base[m] + k] = Group(new, m - 1, 4 * k)
        BY <2>2, <2>7, <3>2, <4>1
      <4> QED BY <4>1, <4>2 DEF Cached, Fixed
    <3>3. CASE ~(m = n + 1 /\ k = q)
      <4>1. Cached(c.val, m, k)
        BY <1>4, <1>6, <3>3
      <4>2. new[Base[m] + k] = c.val[Base[m] + k]
        <5>1. m \in 0..Depth
          BY <1>0
        <5> QED BY <2>4, <3>3, <5>1
      <4> QED BY <3>1, <4>1, <4>2 DEF Cached
    <3> QED BY <3>2, <3>3
  <2>9. n + 1 < Depth => new[Root] = val0[Root]
    <3>1. n + 1 < Depth => new[Base[Depth] + 0] = c.val[Base[Depth] + 0]
      <4>1. n + 1 < Depth => Depth # n + 1
        BY <1>0
      <4> QED BY <2>4, <4>1, RootIs
    <3> QED BY <1>4, <1>6, <3>1, RootIs
  <2>10. n + 1 = Depth => new[Root] = Group(new, Depth - 1, 0)
    <3>1. SUFFICES ASSUME n + 1 = Depth PROVE new[Root] = Group(new, Depth - 1, 0)
      OBVIOUS
    <3>2. q = 0
      <4>1. q \in 0..(Span[Depth] - 1)
        BY <2>0, <3>1
      <4> QED BY <4>1, RootIs
    <3>3. op = Root /\ 4 * q = 0 /\ Depth - 1 = n
      BY <1>0, <3>1, <3>2, RootIs
    <3> QED BY <2>2, <2>7, <3>3
  <2>11. new[Base[n + 1] + q] # nil
    BY <1>4, <1>6, <2>2
  <2>12. ClimbOK(d, n + 1, val0)
    <3> HIDE DEF q, op, res
    <3>1. \A m \in 1..Depth : \A k \in 0..(Span[m] - 1) :
             (m # n + 1 /\ ~(m = (n + 1) + 1 /\ k = q \div 4)) \/ (m = n + 1 /\ n + 1 < Depth)
               => Cached(new, m, k)
      <4>1. SUFFICES ASSUME NEW m \in 1..Depth, NEW k \in 0..(Span[m] - 1),
                            (m # n + 1 /\ ~(m = (n + 1) + 1 /\ k = q \div 4)) \/ (m = n + 1 /\ n + 1 < Depth)
                     PROVE  Cached(new, m, k)
        OBVIOUS
      <4>2. ~(m = (n + 1) + 1 /\ k = q \div 4) /\ (m # n + 1 \/ n + 1 < Depth)
        BY <1>0, <4>1
      <4> QED BY <2>8, <4>2
    <3> QED BY <2>0, <2>3, <2>6, <2>9, <2>10, <2>11, <3>1 DEF ClimbOK
  <2> QED BY <2>12 DEF d
<1> QED BY <1>2, <1>3, <1>5, <1>6

\* The invariant of the climb holds where a port has just been stored.
LEMMA ClimbStarts ==
  ASSUME ResolverAssumption, Depth > 0, NEW val \in [Nodes -> Values], AllCached(val),
         NEW port \in Ports, NEW bit \in Vecs
  PROVE  LET val0 == [val EXCEPT ![port] = bit]
         IN /\ ClimbOK([val |-> val0, go |-> TRUE, port |-> port], 0, val0)
            /\ PullN(val0[Root]) = val0[Root] /\ val0[Root] = val[Root]
<1> DEFINE val0 == [val EXCEPT ![port] = bit]
           c == [val |-> val0, go |-> TRUE, port |-> port]
<1>0. /\ port \in 0..(Span[0] - 1) /\ Base[0] + port = port /\ 0 \in 0..Depth /\ port \in Nodes
      /\ port \in Nat /\ Depth \in Nat
  BY PortsAreNodes, TreeShape DEF Ports
<1>1. bit # nil /\ bit \in Values
  BY VectorIsNotNil DEF Vecs, Values
<1>2. val0 \in [Nodes -> Values] /\ val0[port] = bit
  BY <1>0, <1>1
<1>3. ASSUME NEW m \in 1..Depth, NEW k \in 0..(Span[m] - 1)
      PROVE  val0[Base[m] + k] = val[Base[m] + k]
  <2>1. m \in 0..Depth /\ m # 0
    BY <1>0
  <2>2. Base[m] + k # Base[0] + port
    BY <1>0, <2>1, NodesApart
  <2>3. Base[m] + k \in Nodes
    BY <2>1, NodeInRange
  <2> QED BY <1>0, <2>2, <2>3
<1>4. ASSUME NEW m \in 1..Depth, NEW k \in 0..(Span[m] - 1), ~(m = 0 + 1 /\ k = port \div 4)
      PROVE  Cached(val0, m, k)
  <2>1. Group([val EXCEPT ![Base[0] + port] = bit], m - 1, 4 * k) = Group(val, m - 1, 4 * k)
    BY <1>0, <1>4, GroupsElsewhere
  <2>2. Group(val0, m - 1, 4 * k) = Group(val, m - 1, 4 * k)
    BY <1>0, <2>1
  <2>3. Cached(val, m, k)
    BY DEF AllCached
  <2> HIDE DEF val0
  <2> QED BY <1>3, <2>2, <2>3 DEF Cached
<1>5. val0[Root] = val[Root] /\ PullN(val[Root]) = val[Root]
  <2>1. Depth \in 1..Depth
    BY <1>0
  <2>2. val0[Root] = val[Root]
    BY <1>3, <2>1, RootIs
  <2>3. val[Base[Depth] + 0] = Fixed(Depth, Group(val, Depth - 1, 4 * 0))
    BY <2>1, RootIs DEF AllCached, Cached
  <2>4. 4 * 0 = 0 /\ Depth - 1 \in 0..(Depth - 1) /\ 0 \in 0..(Span[Depth - 1] - 1)
    <3>1. Depth - 1 \in 0..Depth
      BY <1>0
    <3>2. Span[Depth - 1] \in Nat /\ Span[Depth - 1] >= 1
      BY <3>1, TreeShape
    <3> QED BY <1>0, <3>2
  <2>5. Group(val, Depth - 1, 0) \in Values
    BY <2>4, GroupType
  <2>6. val[Root] = PullN(Group(val, Depth - 1, 0))
    BY <2>3, <2>4, RootIs DEF Fixed
  <2> QED BY <2>2, <2>5, <2>6, PullType DEF Values
<1> HIDE DEF val0
<1>6. c \in [val : [Nodes -> Values], go : BOOLEAN, port : Nat] /\ c.val = val0 /\ c.go /\ c.port = port
  BY <1>0, <1>2
<1> HIDE DEF c
<1>7. ClimbOK(c, 0, val0)
  <2>1. \A m \in 1..Depth : m # 0
    OBVIOUS
  <2>2. 0 < Depth /\ ~(0 = Depth)
    BY <1>0
  <2> QED BY <1>0, <1>1, <1>2, <1>4, <1>6, <2>1, <2>2 DEF ClimbOK
<1> QED BY <1>5, <1>7 DEF val0, c

\* And so it holds where the climb has ended.
LEMMA ClimbEnds ==
  ASSUME ResolverAssumption, Depth > 0, NEW val \in [Nodes -> Values], AllCached(val),
         NEW port \in Ports, NEW bit \in Vecs
  PROVE  LET val0 == [val EXCEPT ![port] = bit]
         IN ClimbOK(Climb(val0, port), Depth, val0) /\ val0[Root] = val[Root]
<1> DEFINE val0 == [val EXCEPT ![port] = bit]
<1>0. Depth \in Nat
  BY TreeShape
<1>1. /\ ClimbOK([val |-> val0, go |-> TRUE, port |-> port], 0, val0)
      /\ PullN(val0[Root]) = val0[Root] /\ val0[Root] = val[Root]
  BY ClimbStarts
<1> HIDE DEF val0
<1>2. PICK at : /\ at[0] = [val |-> val0, go |-> TRUE, port |-> port]
                /\ \A n \in 1..Depth : at[n] = ClimbTo(n, at[n - 1])
                /\ Climb(val0, port) = at[Depth]
  BY ClimbSteps
<1> DEFINE S == {n \in 0..Depth : ClimbOK(at[n], n, val0)}
<1>3. 0 \in S
  BY <1>0, <1>1, <1>2
<1>4. ASSUME NEW n \in 0..(Depth - 1), n \in S PROVE n + 1 \in S
  <2>1. n + 1 \in 1..Depth /\ (n + 1) - 1 = n /\ n + 1 \in 0..Depth
    BY <1>0
  <2>2. at[n + 1] = ClimbTo(n + 1, at[n])
    BY <1>2, <2>1
  <2>3. ClimbOK(ClimbTo(n + 1, at[n]), n + 1, val0)
    BY <1>1, <1>4, ClimbStep
  <2> QED BY <2>1, <2>2, <2>3
<1>5. 0..Depth \subseteq S
  <2> HIDE DEF S
  <2> QED BY <1>0, <1>3, <1>4, UpTo
<1>6. ClimbOK(at[Depth], Depth, val0)
  BY <1>0, <1>5
<1>7. ClimbOK(Climb(val0, port), Depth, val0)
  BY <1>2, <1>6
<1> QED BY <1>1, <1>7 DEF val0

-----------------------------------------------------------------------------
(* The invariant: every node above the ports caches its group, the root the pulled *)
(* one, and the ports hold what they received.                                     *)

LeafOf(v) == IF v = nil THEN nil ELSE IF Wired THEN reduce4(v) ELSE v

TreeOK(val, rec, out) ==
  /\ rec \in [Ports -> [Positions -> Declared] \cup {nil}]
  /\ val \in [Nodes -> Values]
  /\ out = val[Root]
  /\ Depth > 0 => AllCached(val) /\ \A p \in Ports : val[p] = LeafOf(rec[p])
  /\ Depth = 0 => val[0] = PullN(LeafOf(rec[0]))

\* What drivers are declared to send are scalars.
LEMMA DeclaredIsScalar == Declared \subseteq Scalars
BY ScalarsOf DEF Declared

\* What a port keeps of a vector is a vector.
LEMMA LeafType ==
  ASSUME ResolverAssumption, NEW v \in [Positions -> Declared]
  PROVE  LeafOf(v) \in Vecs /\ v # nil
<1>1. v # nil
  BY VectorIsNotNil
<1>2. \A i \in Positions : v[i] \in Scalars /\ scalar_value(v[i]) \in Bits
  BY DeclaredIsScalar, ValueIsBit
<1>3. CASE Wired
  <2>1. reduce4(v) \in [Positions -> Bits]
    BY <1>2 DEF reduce4
  <2> QED BY <1>1, <1>3, <2>1 DEF LeafOf, Vecs, NodeBits
<1>4. CASE ~Wired
  <2>1. v \in [Positions -> Scalars]
    BY <1>2
  <2> QED BY <1>1, <1>4, <2>1 DEF LeafOf, Vecs, NodeBits
<1> QED BY <1>3, <1>4

\* The value that is sent is the pulled root, for wired nets too.
LEMMA PullOfNode ==
  ASSUME NEW v, v # nil
  PROVE  (IF Wired THEN v ELSE Pull(v)) = PullN(v)
<1>1. CASE Wired
  <2>1. hiz_value_ = HiZ
    BY <1>1, HizValue
  <2> QED BY <1>1, <2>1, PullFacts DEF PullN, Pull
<1>2. CASE ~Wired
  BY <1>2 DEF PullN
<1> QED BY <1>1, <1>2

\* One port receives v.
LEMMA ReceivedOK ==
  ASSUME ResolverAssumption, NEW val, NEW rec, NEW out, TreeOK(val, rec, out),
         NEW port \in Ports, NEW v \in [Positions -> Declared]
  PROVE  LET bit     == LeafOf(v)
             climbed == Climb([val EXCEPT ![port] = bit], port)
             top     == IF Wired THEN climbed.val[Root] ELSE Pull(climbed.val[Root])
             now     == [rec EXCEPT ![port] = v]
         IN /\ val[port] = bit => TreeOK(val, now, out)
            /\ ~climbed.go => TreeOK(climbed.val, now, out)
            /\ climbed.go => TreeOK([climbed.val EXCEPT ![Root] = top], now, top)
<1> DEFINE bit     == LeafOf(v)
           val0    == [val EXCEPT ![port] = bit]
           climbed == Climb(val0, port)
           top     == IF Wired THEN climbed.val[Root] ELSE Pull(climbed.val[Root])
           now     == [rec EXCEPT ![port] = v]
<1>0. /\ val \in [Nodes -> Values] /\ out = val[Root]
      /\ rec \in [Ports -> [Positions -> Declared] \cup {nil}]
  BY DEF TreeOK
<1>1. bit \in Vecs /\ v # nil
  BY LeafType
<1>2. now \in [Ports -> [Positions -> Declared] \cup {nil}] /\ now[port] = v
      /\ \A p \in Ports : p # port => now[p] = rec[p]
  BY <1>0
<1>3. Depth \in Nat /\ port \in Nodes /\ Root \in Nodes
  BY TreeShape, PortsAreNodes, RootIs
<1> HIDE DEF now, bit
<1>4. CASE Depth > 0
  <2>0. AllCached(val) /\ \A p \in Ports : val[p] = LeafOf(rec[p])
    BY <1>4 DEF TreeOK
  <2>1. ClimbOK(climbed, Depth, val0) /\ val0[Root] = val[Root]
    BY <1>0, <1>1, <1>4, <2>0, ClimbEnds
  <2>2. \A p \in Ports : val0[p] = LeafOf(now[p])
    <3>1. \A p \in Ports : p \in Nodes
      BY PortsAreNodes
    <3>2. \A p \in Ports : val0[p] = IF p = port THEN bit ELSE val[p]
      BY <1>0, <3>1
    <3> HIDE DEF val0
    <3> QED BY <1>2, <2>0, <3>2 DEF bit
  <2>3. val[port] = bit => TreeOK(val, now, out)
    <3>1. val[port] = bit => \A p \in Ports : val[p] = LeafOf(now[p])
      BY <1>2, <2>0 DEF bit
    <3>2. ~(Depth = 0)
      BY <1>4
    <3> QED BY <1>0, <1>2, <2>0, <3>1, <3>2 DEF TreeOK
  <2> HIDE DEF val0
  <2> HIDE DEF climbed
  <2>4. /\ climbed.val \in [Nodes -> Values]
        /\ \A p \in Ports : climbed.val[p] = LeafOf(now[p])
    BY <2>1, <2>2 DEF ClimbOK
  <2>5. ~climbed.go => TreeOK(climbed.val, now, out)
    <3>1. ~climbed.go => AllCached(climbed.val) /\ climbed.val[Root] = val0[Root]
      BY <2>1 DEF ClimbOK
    <3>2. ~(Depth = 0)
      BY <1>4
    <3> QED BY <1>0, <1>2, <2>1, <2>4, <3>1, <3>2 DEF TreeOK
  <2>6. ASSUME climbed.go PROVE TreeOK([climbed.val EXCEPT ![Root] = top], now, top)
    <3> DEFINE new == [climbed.val EXCEPT ![Root] = top]
    <3>0. /\ Root = Base[Depth] + 0 /\ Root \in Nodes /\ 0 \in 0..(Span[Depth] - 1)
          /\ Depth \in 0..Depth /\ Span[Depth] = 1
      BY RootIs
    <3>1. /\ climbed.val[Root] = Group(climbed.val, Depth - 1, 0)
          /\ climbed.port \in 0..(Span[Depth] - 1) /\ climbed.val[Base[Depth] + climbed.port] # nil
          /\ \A m \in 1..Depth : \A k \in 0..(Span[m] - 1) : m # Depth => Cached(climbed.val, m, k)
      <4>1. ~(Depth < Depth) /\ \A m \in 1..Depth : m # Depth + 1
        BY <1>3
      <4> QED BY <2>1, <2>6, <4>1 DEF ClimbOK
    <3>2. climbed.val[Root] # nil /\ climbed.val[Root] \in Values
      <4>1. climbed.port = 0
        BY <3>0, <3>1
      <4> QED BY <2>4, <3>0, <3>1, <4>1
    <3>3. top = PullN(climbed.val[Root]) /\ top \in Values
      <4>1. top = PullN(climbed.val[Root])
        BY <3>2, PullOfNode
      <4>2. PullN(climbed.val[Root]) \in Values
        BY <3>2, PullType DEF Values
      <4> QED BY <4>1, <4>2
    <3> HIDE DEF top
    <3>4. new \in [Nodes -> Values] /\ new[Root] = top
      BY <2>4, <3>0, <3>3
    <3>5. ASSUME NEW m \in 0..Depth, NEW k \in 0..(Span[m] - 1), m # Depth
          PROVE  new[Base[m] + k] = climbed.val[Base[m] + k]
      <4>1. Base[m] + k # Base[Depth] + 0
        BY <3>0, <3>5, NodesApart
      <4>2. Base[m] + k \in Nodes
        BY NodeInRange
      <4> QED BY <2>4, <3>0, <4>1, <4>2
    <3>6. ASSUME NEW m \in 1..Depth, NEW k \in 0..(Span[m] - 1)
          PROVE  Group(new, m - 1, 4 * k) = Group(climbed.val, m - 1, 4 * k)
      <4>1. PICK q \in 0..(Span[Depth] - 1) : Base[Depth] + q = Root
        BY <3>0
      <4>2. ~(m = Depth + 1 /\ k = q \div 4)
        BY <1>3
      <4>3. Group([climbed.val EXCEPT ![Base[Depth] + q] = top], m - 1, 4 * k) = Group(climbed.val, m - 1, 4 * k)
        <5>1. climbed.val \in [Nodes -> Values] /\ Depth \in 0..Depth
          BY <2>4, <3>0
        <5> QED BY <4>2, <5>1, GroupsElsewhere
      <4> QED BY <4>1, <4>3
    <3> HIDE DEF new
    <3>7. ASSUME NEW m \in 1..Depth, NEW k \in 0..(Span[m] - 1) PROVE Cached(new, m, k)
      <4>1. CASE m = Depth
        <5>1. k = 0 /\ 4 * k = 0
          BY <3>0, <4>1
        <5>2. new[Base[m] + k] = PullN(Group(new, m - 1, 4 * k))
          BY <3>0, <3>1, <3>3, <3>4, <3>6, <4>1, <5>1
        <5> QED BY <4>1, <5>2 DEF Cached, Fixed
      <4>2. CASE m # Depth
        <5>1. Cached(climbed.val, m, k)
          BY <3>1, <4>2
        <5>2. new[Base[m] + k] = climbed.val[Base[m] + k]
          <6>1. m \in 0..Depth
            BY <1>3
          <6> QED BY <3>5, <4>2, <6>1
        <5> QED BY <3>6, <5>1, <5>2 DEF Cached
      <4> QED BY <4>1, <4>2
    <3>8. ASSUME NEW p \in Ports PROVE new[p] = LeafOf(now[p])
      <4>1. p \in 0..(Span[0] - 1) /\ Base[0] + p = p /\ 0 \in 0..Depth /\ 0 # Depth
        BY <1>4, PortsAreNodes
      <4>2. new[Base[0] + p] = climbed.val[Base[0] + p]
        BY <3>5, <4>1
      <4> QED BY <2>4, <4>1, <4>2
    <3>9. TreeOK(new, now, top)
      <4>1. ~(Depth = 0) /\ AllCached(new)
        BY <1>4, <3>7 DEF AllCached
      <4> QED BY <1>2, <3>4, <3>8, <4>1 DEF TreeOK
    <3> QED BY <3>9 DEF new
  <2> QED BY <2>3, <2>5, <2>6 DEF climbed, val0, bit, now
<1>5. CASE Depth = 0
  <2>0. Root = 0 /\ port = 0 /\ Nodes = {0}
    <3>1. Base[0] = 0 /\ Span[0] = 1 /\ Span[0] = NPorts
      BY <1>5, TreeShape
    <3> QED BY <1>5, <3>1 DEF Root, Nodes, Ports
  <2>1. val[0] = PullN(LeafOf(rec[0]))
    BY <1>5 DEF TreeOK
  <2>2. climbed = [val |-> val0, go |-> TRUE, port |-> port]
    <3> HIDE DEF val0
    <3>1. PICK at : at[0] = [val |-> val0, go |-> TRUE, port |-> port] /\ Climb(val0, port) = at[Depth]
      BY ClimbSteps
    <3> QED BY <1>5, <3>1
  <2>3. val0 \in [Nodes -> Values] /\ val0[0] = bit
    BY <1>0, <1>1, <1>3, <2>0 DEF Values
  <2> HIDE DEF val0, climbed
  <2>4. climbed.go /\ climbed.val = val0
    BY <2>2
  <2>5. top = PullN(bit) /\ top \in Values
    <3>1. climbed.val[Root] = bit /\ bit # nil
      BY <1>1, <2>0, <2>3, <2>4, VectorIsNotNil DEF Vecs
    <3>2. top = PullN(bit)
      BY <3>1, PullOfNode
    <3>3. PullN(bit) \in Values
      BY <1>1, PullType DEF Values
    <3> QED BY <3>2, <3>3
  <2> HIDE DEF top
  <2> DEFINE new == [climbed.val EXCEPT ![Root] = top]
  <2>6. new \in [Nodes -> Values] /\ new[Root] = top /\ new[0] = top
    BY <2>0, <2>3, <2>4, <2>5
  <2> HIDE DEF new
  <2>7. ~(Depth > 0)
    BY <1>5
  <2>8. TreeOK(new, now, top)
    BY <1>2, <2>0, <2>5, <2>6, <2>7 DEF TreeOK, bit
  <2>9. ASSUME val[port] = bit PROVE TreeOK(val, now, out)
    <3>1. LeafOf(rec[0]) \in Values
      <4>1. rec[0] \in [Positions -> Declared] \cup {nil}
        BY <1>0, <2>0
      <4>2. CASE rec[0] = nil
        BY <4>2 DEF LeafOf, Values
      <4>3. CASE rec[0] \in [Positions -> Declared]
        BY <4>3, LeafType DEF Values
      <4> QED BY <4>1, <4>2, <4>3
    <3>2. PullN(bit) = bit
      BY <2>0, <2>1, <2>9, <3>1, PullType DEF Values
    <3>3. val[0] = PullN(LeafOf(now[0]))
      BY <1>2, <2>0, <2>9, <3>2 DEF bit
    <3> QED BY <1>0, <1>2, <2>7, <3>3 DEF TreeOK
  <2> QED BY <2>4, <2>8, <2>9 DEF climbed, val0, bit, now, new, top
<1> QED BY <1>3, <1>4, <1>5

-----------------------------------------------------------------------------
(* What a node stands for. *)

RecType == [Ports -> [Positions -> Declared] \cup {nil}]

\* Bit i of the ports of Q that have received something, and what they resolve to.
BitsOf(rec, Q, i) == {rec[p][i] : p \in {p \in Q : rec[p] # nil}}
BitIs(ds, b) == IF Wired THEN b = NetBit(ds) ELSE NetOf(ds, b)

\* r is what the ports of Q resolve to.
IsRes(rec, Q, r) ==
  /\ r \in Values
  /\ r = nil <=> \A p \in Q : rec[p] = nil
  /\ r # nil => \A i \in Positions :
       (\A d \in BitsOf(rec, Q, i) : Even(d)) => BitIs(BitsOf(rec, Q, i), r[i])

\* Drivers of a bit are scalars.
LEMMA BitsAreScalars ==
  ASSUME NEW rec \in RecType, NEW Q, Q \subseteq Ports, NEW i \in Positions
  PROVE  BitsOf(rec, Q, i) \subseteq Scalars
<1>1. ASSUME NEW p \in Q, rec[p] # nil PROVE rec[p][i] \in Scalars
  <2>1. rec[p] \in [Positions -> Declared]
    BY <1>1 DEF RecType
  <2> QED BY <2>1, DeclaredIsScalar
<1> QED BY <1>1 DEF BitsOf

\* Combining two resolved bits resolves all of their drivers.
LEMMA BitIsUnion ==
  ASSUME NEW A, NEW B, A \subseteq Scalars, B \subseteq Scalars, NEW a, NEW b, BitIs(A, a), BitIs(B, b)
  PROVE  BitIs(A \cup B, CombineBit(a, b))
<1>1. CASE kind = "triand"
  <2>1. Wired /\ \A ds : NetBit(ds) = WiredBit(ds, BIT4_0, BIT4_1)
    BY <1>1 DEF Wired, NetBit
  <2>2. CombineBit(a, b) = triand_bit(a, b)
    BY <1>1 DEF CombineBit
  <2>3. a = WiredBit(A, BIT4_0, BIT4_1) /\ b = WiredBit(B, BIT4_0, BIT4_1)
    BY <2>1 DEF BitIs
  <2>4. triand_bit(a, b) = WiredBit(A \cup B, BIT4_0, BIT4_1)
    BY <2>3, WiredUnion
  <2> QED BY <2>1, <2>2, <2>4 DEF BitIs
<1>2. CASE kind = "trior"
  <2>1. Wired /\ \A ds : NetBit(ds) = WiredBit(ds, BIT4_1, BIT4_0)
    BY <1>2 DEF Wired, NetBit
  <2>2. CombineBit(a, b) = trior_bit(a, b)
    BY <1>2 DEF CombineBit
  <2>3. a = WiredBit(A, BIT4_1, BIT4_0) /\ b = WiredBit(B, BIT4_1, BIT4_0)
    BY <2>1 DEF BitIs
  <2>4. trior_bit(a, b) = WiredBit(A \cup B, BIT4_1, BIT4_0)
    BY <2>3, WiredUnion
  <2> QED BY <2>1, <2>2, <2>4 DEF BitIs
<1>3. CASE kind # "triand" /\ kind # "trior"
  <2>1. ~Wired /\ CombineBit(a, b) = resolve(a, b)
    BY <1>3 DEF Wired, CombineBit
  <2> QED BY <2>1, NetOfUnion DEF BitIs
<1> QED BY <1>1, <1>2, <1>3

\* No ports resolve to no value.
LEMMA NoneRes ==
  ASSUME NEW rec
  PROVE  IsRes(rec, {}, nil)
BY DEF IsRes, Values

\* A port resolves itself.
LEMMA LeafRes ==
  ASSUME ResolverAssumption, NEW rec \in RecType, NEW p \in Ports
  PROVE  IsRes(rec, {p}, LeafOf(rec[p]))
<1>1. CASE rec[p] = nil
  BY <1>1 DEF LeafOf, IsRes, Values
<1>2. CASE rec[p] # nil
  <2>1. rec[p] \in [Positions -> Declared]
    BY <1>2 DEF RecType
  <2>2. LeafOf(rec[p]) \in Vecs /\ LeafOf(rec[p]) # nil
    BY <2>1, LeafType, VectorIsNotNil DEF Vecs
  <2>3. ASSUME NEW i \in Positions, \A d \in BitsOf(rec, {p}, i) : Even(d)
        PROVE  BitIs(BitsOf(rec, {p}, i), LeafOf(rec[p])[i])
    <3> DEFINE d == rec[p][i]
    <3>1. BitsOf(rec, {p}, i) = {d} /\ d \in Scalars
      BY <1>2, <2>1, DeclaredIsScalar DEF BitsOf
    <3>2. CASE Wired
      <4>1. LeafOf(rec[p])[i] = scalar_value(d)
        BY <1>2, <3>2 DEF LeafOf, reduce4
      <4> HIDE DEF d
      <4>2. /\ WiredBit({d}, BIT4_0, BIT4_1) = scalar_value(d)
            /\ WiredBit({d}, BIT4_1, BIT4_0) = scalar_value(d)
        <5>1. {BIT4_1, BIT4_0} = {BIT4_0, BIT4_1}
          OBVIOUS
        <5> QED BY <3>1, <5>1, WiredOne, Zenon
      <4>3. NetBit({d}) = scalar_value(d)
        BY <3>2, <4>2 DEF NetBit, Wired
      <4> QED BY <3>1, <3>2, <4>1, <4>3 DEF BitIs
    <3>3. CASE ~Wired
      <4>1. LeafOf(rec[p])[i] = d
        BY <1>2, <3>3 DEF LeafOf
      <4> HIDE DEF d
      <4>2. EvenForm(d)
        BY <2>3, <3>1, EvenIsForm
      <4>3. NetOf({d}, d)
        BY <4>2, NetOfOne
      <4> QED BY <3>1, <3>3, <4>1, <4>3 DEF BitIs
    <3> QED BY <3>2, <3>3
  <2> QED BY <1>2, <2>2, <2>3 DEF IsRes, Values
<1> QED BY <1>1, <1>2

\* Joining resolves the ports of both.
LEMMA JoinRes ==
  ASSUME ResolverAssumption, NEW rec \in RecType, NEW P, NEW Q, P \subseteq Ports, Q \subseteq Ports,
         NEW a, NEW b, IsRes(rec, P, a), IsRes(rec, Q, b)
  PROVE  IsRes(rec, P \cup Q, Joined(a, b))
<1>0. /\ a \in Values /\ b \in Values
      /\ a = nil <=> \A p \in P : rec[p] = nil
      /\ b = nil <=> \A p \in Q : rec[p] = nil
  BY DEF IsRes
<1>1. Joined(a, b) \in Values /\ (Joined(a, b) = nil <=> (a = nil /\ b = nil))
  BY <1>0, JoinedType DEF Values
<1>2. Joined(a, b) = nil <=> \A p \in P \cup Q : rec[p] = nil
  BY <1>0, <1>1
<1>3. \A i : BitsOf(rec, P \cup Q, i) = BitsOf(rec, P, i) \cup BitsOf(rec, Q, i)
  BY DEF BitsOf
<1>4. CASE b = nil
  <2>1. \A i : BitsOf(rec, Q, i) = {}
    BY <1>0, <1>4 DEF BitsOf
  <2>2. \A i : BitsOf(rec, P \cup Q, i) = BitsOf(rec, P, i)
    BY <1>3, <2>1
  <2>3. Joined(a, b) = a
    BY <1>4 DEF Joined
  <2> QED BY <1>1, <1>2, <2>2, <2>3 DEF IsRes
<1>5. CASE b # nil /\ a = nil
  <2>1. \A i : BitsOf(rec, P, i) = {}
    BY <1>0, <1>5 DEF BitsOf
  <2>2. \A i : BitsOf(rec, P \cup Q, i) = BitsOf(rec, Q, i)
    BY <1>3, <2>1
  <2>3. Joined(a, b) = b
    BY <1>5 DEF Joined
  <2> QED BY <1>1, <1>2, <2>2, <2>3 DEF IsRes
<1>6. CASE b # nil /\ a # nil
  <2>1. Joined(a, b) = Combine(a, b)
    BY <1>6 DEF Joined
  <2>2. ASSUME NEW i \in Positions, \A d \in BitsOf(rec, P \cup Q, i) : Even(d)
        PROVE  BitIs(BitsOf(rec, P \cup Q, i), Joined(a, b)[i])
    <3>1. Joined(a, b)[i] = CombineBit(a[i], b[i])
      BY <2>1 DEF Combine
    <3>2. BitIs(BitsOf(rec, P, i), a[i])
      BY <1>3, <1>6, <2>2 DEF IsRes
    <3>3. BitIs(BitsOf(rec, Q, i), b[i])
      BY <1>3, <1>6, <2>2 DEF IsRes
    <3>4. BitsOf(rec, P, i) \subseteq Scalars /\ BitsOf(rec, Q, i) \subseteq Scalars
      BY BitsAreScalars
    <3>5. BitIs(BitsOf(rec, P, i) \cup BitsOf(rec, Q, i), CombineBit(a[i], b[i]))
      BY <3>2, <3>3, <3>4, BitIsUnion
    <3> QED BY <1>3, <3>1, <3>5
  <2> QED BY <1>1, <1>2, <2>2 DEF IsRes
<1> QED BY <1>4, <1>5, <1>6

\* A group stands for what its nodes stand for.
LEMMA GroupRes ==
  ASSUME ResolverAssumption, NEW rec \in RecType, NEW val, NEW n \in 0..(Depth - 1),
         NEW U \in [0..(Span[n] - 1) -> SUBSET Ports],
         \A k \in 0..(Span[n] - 1) : IsRes(rec, U[k], val[Base[n] + k]),
         NEW q \in 0..(Span[n + 1] - 1)
  PROVE  IsRes(rec, {p \in Ports : \E j \in 0..(Span[n] - 1) : j \div 4 = q /\ p \in U[j]}, Group(val, n, 4 * q))
<1> DEFINE u(j) == IF 4 * q + j < Span[n] THEN U[4 * q + j] ELSE {}
           M(j) == Member(val, n, q, j)
<1>0. /\ Span[n] \in Nat /\ Base[n] \in Nat /\ 4 * q \in 0..(Span[n] - 1) /\ (4 * q) \div 4 = q
      /\ q \in Nat
  <2>1. n \in 0..Depth /\ Depth \in Nat
    BY TreeShape
  <2>2. Span[n] \in Nat /\ Base[n] \in Nat
    BY <2>1, TreeShape
  <2> QED BY <2>2, GroupAbove
<1>1. ASSUME NEW j \in 0..3 PROVE IsRes(rec, u(j), M(j)) /\ u(j) \subseteq Ports
  <2>1. CASE 4 * q + j < Span[n]
    <3>1. 4 * q + j \in 0..(Span[n] - 1)
      BY <1>0, <2>1
    <3> QED BY <2>1, <3>1 DEF Member
  <2>2. CASE ~(4 * q + j < Span[n])
    BY <2>2, NoneRes DEF Member
  <2> QED BY <2>1, <2>2
<1>2. Group(val, n, 4 * q) = Joined(Joined(Joined(M(0), M(1)), M(2)), M(3))
  BY <1>0, GroupIs
<1>3. {p \in Ports : \E j \in 0..(Span[n] - 1) : j \div 4 = q /\ p \in U[j]} = ((u(0) \cup u(1)) \cup u(2)) \cup u(3)
  <2>1. ASSUME NEW p \in Ports, NEW j \in 0..(Span[n] - 1), j \div 4 = q, p \in U[j]
        PROVE  p \in ((u(0) \cup u(1)) \cup u(2)) \cup u(3)
    <3>1. j = 4 * q + 0 \/ j = 4 * q + 1 \/ j = 4 * q + 2 \/ j = 4 * q + 3
      BY <1>0, <2>1
    <3>2. j < Span[n]
      BY <1>0
    <3> QED BY <2>1, <3>1, <3>2, Zenon
  <2>2. ASSUME NEW k \in 0..3, NEW p \in u(k)
        PROVE  p \in Ports /\ \E j \in 0..(Span[n] - 1) : j \div 4 = q /\ p \in U[j]
    <3>1. 4 * q + k < Span[n] /\ p \in U[4 * q + k]
      BY <2>2
    <3>2. 4 * q + k \in 0..(Span[n] - 1) /\ (4 * q + k) \div 4 = q
      <4>1. q \in Nat /\ k \in 0..3 /\ Span[n] \in Nat /\ 4 * q + k < Span[n]
        BY <1>0, <3>1
      <4> QED BY <4>1
    <3> QED BY <3>1, <3>2
  <2>3. 0 \in 0..3 /\ 1 \in 0..3 /\ 2 \in 0..3 /\ 3 \in 0..3
    OBVIOUS
  <2> HIDE DEF u
  <2> QED BY <2>1, <2>2, <2>3
<1> HIDE DEF u, M
<1>4. /\ IsRes(rec, u(0), M(0)) /\ u(0) \subseteq Ports
      /\ IsRes(rec, u(1), M(1)) /\ u(1) \subseteq Ports
      /\ IsRes(rec, u(2), M(2)) /\ u(2) \subseteq Ports
      /\ IsRes(rec, u(3), M(3)) /\ u(3) \subseteq Ports
  <2>1. 0 \in 0..3 /\ 1 \in 0..3 /\ 2 \in 0..3 /\ 3 \in 0..3
    OBVIOUS
  <2> QED BY <1>1, <2>1
<1>5. IsRes(rec, u(0) \cup u(1), Joined(M(0), M(1))) /\ u(0) \cup u(1) \subseteq Ports
  BY <1>4, JoinRes
<1>6. IsRes(rec, (u(0) \cup u(1)) \cup u(2), Joined(Joined(M(0), M(1)), M(2))) /\ (u(0) \cup u(1)) \cup u(2) \subseteq Ports
  BY <1>4, <1>5, JoinRes
<1>7. IsRes(rec, ((u(0) \cup u(1)) \cup u(2)) \cup u(3), Joined(Joined(Joined(M(0), M(1)), M(2)), M(3)))
  BY <1>4, <1>6, JoinRes
<1> QED BY <1>2, <1>3, <1>7

\* The ports of which the nodes of a level stand.
LevelRes(val, rec, m) ==
  \E U \in [0..(Span[m] - 1) -> SUBSET Ports] :
    /\ \A p \in Ports : \E k \in 0..(Span[m] - 1) : p \in U[k]
    /\ \A k \in 0..(Span[m] - 1) : IsRes(rec, U[k], val[Base[m] + k])

\* Level by level, the nodes below the root resolve sets of ports that cover all.
LEMMA LevelsRes ==
  ASSUME ResolverAssumption, NEW val, NEW rec, NEW out, TreeOK(val, rec, out), Depth > 0
  PROVE  \A m \in 0..(Depth - 1) : LevelRes(val, rec, m)
<1> DEFINE S == {m \in 0..(Depth - 1) : LevelRes(val, rec, m)}
<1>0. /\ rec \in RecType /\ AllCached(val) /\ \A p \in Ports : val[p] = LeafOf(rec[p])
      /\ Depth \in Nat
  BY TreeShape DEF TreeOK, RecType
<1>1. 0 \in S
  <2> DEFINE U == [p \in 0..(Span[0] - 1) |-> {p}]
  <2>1. 0..(Span[0] - 1) = Ports /\ Base[0] = 0
    BY TreeShape DEF Ports
  <2>2. U \in [0..(Span[0] - 1) -> SUBSET Ports] /\ \A p \in Ports : U[p] = {p}
    BY <2>1
  <2> HIDE DEF U
  <2>3. ASSUME NEW k \in 0..(Span[0] - 1) PROVE IsRes(rec, U[k], val[Base[0] + k])
    <3>1. k \in Ports /\ Base[0] + k = k
      BY <2>1, PortsAreNodes
    <3>2. U[k] = {k} /\ val[k] = LeafOf(rec[k])
      BY <1>0, <2>2, <3>1
    <3> QED BY <1>0, <3>1, <3>2, LeafRes
  <2>4. \A p \in Ports : \E k \in 0..(Span[0] - 1) : p \in U[k]
    BY <2>1, <2>2
  <2>5. LevelRes(val, rec, 0)
    BY <2>2, <2>3, <2>4 DEF LevelRes
  <2> QED BY <1>0, <2>5
<1>2. ASSUME NEW n \in 0..((Depth - 1) - 1), n \in S PROVE n + 1 \in S
  <2>0. n \in 0..(Depth - 1) /\ n + 1 \in 1..Depth /\ n + 1 # Depth /\ (n + 1) - 1 = n /\ n + 1 \in 0..(Depth - 1)
    BY <1>0
  <2>1. PICK U \in [0..(Span[n] - 1) -> SUBSET Ports] :
          /\ \A p \in Ports : \E k \in 0..(Span[n] - 1) : p \in U[k]
          /\ \A k \in 0..(Span[n] - 1) : IsRes(rec, U[k], val[Base[n] + k])
    BY <1>2 DEF LevelRes
  <2> DEFINE V == [q \in 0..(Span[n + 1] - 1) |-> {p \in Ports : \E j \in 0..(Span[n] - 1) : j \div 4 = q /\ p \in U[j]}]
  <2>2. V \in [0..(Span[n + 1] - 1) -> SUBSET Ports]
    OBVIOUS
  <2>3. ASSUME NEW q \in 0..(Span[n + 1] - 1) PROVE IsRes(rec, V[q], val[Base[n + 1] + q])
    <3>1. IsRes(rec, {p \in Ports : \E j \in 0..(Span[n] - 1) : j \div 4 = q /\ p \in U[j]}, Group(val, n, 4 * q))
      BY <1>0, <2>0, <2>1, GroupRes
    <3>2. val[Base[n + 1] + q] = Group(val, n, 4 * q)
      <4>1. Cached(val, n + 1, q)
        BY <1>0, <2>0 DEF AllCached
      <4> QED BY <2>0, <4>1 DEF Cached, Fixed
    <3> QED BY <3>1, <3>2
  <2>4. ASSUME NEW p \in Ports PROVE \E q \in 0..(Span[n + 1] - 1) : p \in V[q]
    <3>1. PICK j \in 0..(Span[n] - 1) : p \in U[j]
      BY <2>1
    <3>2. j \div 4 \in 0..(Span[n + 1] - 1)
      BY <2>0, GroupAbove
    <3>3. p \in V[j \div 4]
      BY <3>1, <3>2
    <3> HIDE DEF V
    <3> QED BY <3>2, <3>3
  <2> HIDE DEF V
  <2>5. LevelRes(val, rec, n + 1)
    BY <2>2, <2>3, <2>4 DEF LevelRes
  <2> QED BY <2>0, <2>5
<1>3. 0..(Depth - 1) \subseteq S
  <2>1. Depth - 1 \in Nat
    BY <1>0
  <2> HIDE DEF S
  <2> QED BY <1>1, <1>2, <2>1, UpTo
<1> QED BY <1>3

\* The net is the pulled resolution of all ports.
LEMMA TopRes ==
  ASSUME ResolverAssumption, NEW val, NEW rec, NEW out, TreeOK(val, rec, out)
  PROVE  \E r : IsRes(rec, Ports, r) /\ out = PullN(r)
<1>0. rec \in RecType /\ out = val[Root] /\ Depth \in Nat
  BY TreeShape DEF TreeOK, RecType
<1>1. CASE Depth = 0
  <2>1. Ports = {0} /\ Root = 0
    <3>1. Base[0] = 0 /\ Span[0] = 1 /\ Span[0] = NPorts
      BY <1>1, TreeShape
    <3> QED BY <1>1, <3>1 DEF Root, Ports
  <2>2. IsRes(rec, {0}, LeafOf(rec[0]))
    BY <1>0, <2>1, LeafRes
  <2>3. out = PullN(LeafOf(rec[0]))
    BY <1>0, <1>1, <2>1 DEF TreeOK
  <2> QED BY <2>1, <2>2, <2>3
<1>2. CASE Depth > 0
  <2> DEFINE n == Depth - 1
  <2>0. n \in 0..(Depth - 1) /\ n + 1 = Depth /\ Depth \in 1..Depth
    BY <1>0, <1>2
  <2> HIDE DEF n
  <2>1. PICK U \in [0..(Span[n] - 1) -> SUBSET Ports] :
          /\ \A p \in Ports : \E k \in 0..(Span[n] - 1) : p \in U[k]
          /\ \A k \in 0..(Span[n] - 1) : IsRes(rec, U[k], val[Base[n] + k])
    BY <1>2, <2>0, LevelsRes DEF LevelRes
  <2>2. 0 \in 0..(Span[n + 1] - 1)
    BY <2>0, RootIs
  <2> DEFINE Q == {p \in Ports : \E j \in 0..(Span[n] - 1) : j \div 4 = 0 /\ p \in U[j]}
  <2>3. IsRes(rec, Q, Group(val, n, 4 * 0))
    BY <1>0, <2>0, <2>1, <2>2, GroupRes
  <2>4. Q = Ports
    <3>1. \A j \in 0..(Span[n] - 1) : j \div 4 = 0
      <4>1. \A j \in 0..(Span[n] - 1) : j \div 4 \in 0..(Span[n + 1] - 1)
        BY <2>0, GroupAbove
      <4>2. Span[n + 1] = 1
        BY <2>0, RootIs
      <4> QED BY <4>1, <4>2
    <3> QED BY <2>1, <3>1
  <2>5. out = PullN(Group(val, n, 4 * 0))
    <3>1. Cached(val, Depth, 0)
      BY <1>2, <2>0, RootIs DEF TreeOK, AllCached
    <3>2. Depth - 1 = n
      BY <2>0 DEF n
    <3> QED BY <1>0, <3>1, <3>2, RootIs DEF Cached, Fixed
  <2> HIDE DEF Q
  <2> QED BY <2>3, <2>4, <2>5
<1> QED BY <1>0, <1>1, <1>2

-----------------------------------------------------------------------------
(* What the invariant implies. *)

\* The net of the ports rec, as NetIsExact has it for the net of a state.
LEMMA TreeIsExact ==
  ASSUME ResolverAssumption, NEW val, NEW rec, NEW out, TreeOK(val, rec, out)
  PROVE  /\ out = nil <=> \A p \in Ports : rec[p] = nil
         /\ out # nil => /\ DOMAIN out = Positions
                         /\ \A i \in Positions :
                              LET ds == BitsOf(rec, Ports, i) \cup {hiz_value_}
                              IN (\A d \in ds : Even(d)) => out[i] = NetBit(ds)
<1>0. rec \in RecType
  BY DEF TreeOK, RecType
<1>1. PICK r : IsRes(rec, Ports, r) /\ out = PullN(r)
  BY TopRes
<1>2. r \in Values /\ (r = nil <=> \A p \in Ports : rec[p] = nil)
  BY <1>1 DEF IsRes
<1>3. out \in Values /\ (out = nil <=> r = nil)
  BY <1>1, <1>2, PullType DEF Values
<1>4. ASSUME NEW i \in Positions, out # nil, \A d \in BitsOf(rec, Ports, i) \cup {hiz_value_} : Even(d)
      PROVE  out[i] = NetBit(BitsOf(rec, Ports, i) \cup {hiz_value_})
  <2> DEFINE ds == BitsOf(rec, Ports, i)
  <2>0. ds \subseteq Scalars
    BY <1>0, BitsAreScalars
  <2>1. BitIs(ds, r[i])
    BY <1>1, <1>3, <1>4 DEF IsRes
  <2> HIDE DEF ds
  <2>2. CASE Wired
    <3>1. hiz_value_ = HiZ
      BY <2>2, HizValue
    <3>2. out = r
      BY <1>1, <1>3, <1>4, <3>1, PullFacts DEF PullN, Pull
    <3>3. /\ WiredBit(ds \cup {HiZ}, BIT4_0, BIT4_1) = WiredBit(ds, BIT4_0, BIT4_1)
          /\ WiredBit(ds \cup {HiZ}, BIT4_1, BIT4_0) = WiredBit(ds, BIT4_1, BIT4_0)
      <4>1. {BIT4_1, BIT4_0} = {BIT4_0, BIT4_1}
        OBVIOUS
      <4> QED BY <2>0, <4>1, WiredHiZ, Zenon
    <3>4. NetBit(ds \cup {HiZ}) = NetBit(ds)
      BY <2>2, <3>3 DEF NetBit, Wired
    <3>5. r[i] = NetBit(ds)
      BY <2>1, <2>2 DEF BitIs
    <3> QED BY <3>1, <3>2, <3>4, <3>5 DEF ds
  <2>3. CASE ~Wired /\ hiz_value_ = HiZ
    <3>1. out = r
      BY <1>1, <1>3, <1>4, <2>3, PullFacts DEF PullN, Pull
    <3>2. NetOf(ds \cup {HiZ}, r[i])
      BY <2>1, <2>3, NetOfHiZ DEF BitIs
    <3>3. r[i] = NetScalar(ds \cup {HiZ})
      BY <3>2, NetOfIsNetScalar
    <3>4. NetBit(ds \cup {HiZ}) = NetScalar(ds \cup {HiZ})
      BY <2>3 DEF NetBit, Wired
    <3> QED BY <2>3, <3>1, <3>3, <3>4 DEF ds
  <2>4. CASE ~Wired /\ PullOf(hiz_value_)
    <3> DEFINE h == hiz_value_
    <3>1. ~is_hiz(h) /\ EvenForm(h)
      BY <2>4, PullFacts
    <3>2. out[i] = resolve(r[i], h)
      BY <1>1, <1>3, <1>4, <3>1 DEF PullN, Pull
    <3> HIDE DEF h
    <3>3. NetOf(ds, r[i]) /\ NetOf({h}, h)
      BY <2>1, <2>4, <3>1, NetOfOne DEF BitIs
    <3>4. NetOf(ds \cup {h}, resolve(r[i], h))
      BY <3>3, NetOfUnion
    <3>5. resolve(r[i], h) = NetScalar(ds \cup {h})
      BY <3>4, NetOfIsNetScalar
    <3>6. NetBit(ds \cup {h}) = NetScalar(ds \cup {h})
      BY <2>4 DEF NetBit, Wired
    <3> QED BY <3>2, <3>5, <3>6 DEF ds, h
  <2> QED BY <2>2, <2>3, <2>4, HizValue
<1>5. out # nil => DOMAIN out = Positions
  BY <1>3 DEF Values, Vecs
<1> QED BY <1>2, <1>3, <1>4, <1>5

\* One or two ports, of a net without a pull.
LEMMA TreeCovers ==
  ASSUME ResolverAssumption, NEW val, NEW rec, NEW out, TreeOK(val, rec, out),
         Ports \subseteq {0, 1}, kind = "tri", out # nil, NEW i \in Positions,
         NEW d \in BitsOf(rec, Ports, i) \cup {HiZ}, NEW x \in LevelsOf(d),
         \A e \in (BitsOf(rec, Ports, i) \cup {HiZ}) \ {d} : \E y \in LevelsOf(e) : Abs(y) <= Abs(x)
  PROVE  x \in LevelsOf(out[i])
<1> DEFINE ds == BitsOf(rec, Ports, i)
<1>0. /\ rec \in RecType /\ out = val[Root] /\ Depth \in Nat /\ ~Wired /\ hiz_value_ = HiZ
      /\ 0 \in Ports
  <2>1. 0 \in Ports
    BY TreeShape DEF Ports
  <2> QED BY <2>1, TreeShape DEF TreeOK, RecType, Wired, hiz_value_
<1>1. \A v : PullN(v) = v
  BY <1>0, PullFacts DEF PullN, Pull
<1>2. \A v : LeafOf(v) = v
  BY <1>0 DEF LeafOf
<1>3. ASSUME NEW p \in Ports, rec[p] # nil PROVE Spread(rec[p][i]) /\ rec[p][i] \in ds
  <2>1. rec[p] \in [Positions -> Declared]
    BY <1>0, <1>3 DEF RecType
  <2> QED BY <1>3, <2>1, DeclaredIsSpread DEF BitsOf
\* A bit that is the only driver's.
<1>4. ASSUME NEW w, Spread(w), ds = {w}, out[i] = w PROVE x \in LevelsOf(out[i])
  <2>1. CASE d = w
    BY <1>4, <2>1
  <2>2. CASE d # w
    <3>1. d = HiZ
      BY <1>4, <2>2
    <3>2. x = 0
      <4>1. Level(HiZ.hi) = 0 /\ Level(HiZ.lo) = 0
        BY DEF HiZ, Scalar, End, Level
      <4> QED BY <3>1, <4>1 DEF LevelsOf
    <3>3. PICK y \in LevelsOf(w) : Abs(y) <= Abs(x)
      BY <1>4, <2>2
    <3>4. Level(w.lo) \in Int /\ Level(w.hi) \in Int
      BY <1>4 DEF Spread, Level, Scalars, Ends
    <3>5. y = 0
      BY <3>2, <3>3, <3>4 DEF Abs, LevelsOf
    <3> QED BY <1>4, <3>2, <3>3, <3>5
  <2> QED BY <2>1, <2>2
<1>5. CASE Depth = 0
  <2>1. Ports = {0} /\ Root = 0
    <3>1. Base[0] = 0 /\ Span[0] = 1 /\ Span[0] = NPorts
      BY <1>5, TreeShape
    <3> QED BY <1>5, <3>1 DEF Root, Ports
  <2>2. out = rec[0]
    BY <1>0, <1>1, <1>2, <1>5, <2>1 DEF TreeOK
  <2>3. ds = {rec[0][i]}
    BY <2>1, <2>2 DEF BitsOf
  <2> QED BY <1>3, <1>4, <2>1, <2>2, <2>3
<1>6. CASE Depth > 0
  <2>0. Depth = 1 /\ Span[0] = 2 /\ Ports = {0, 1} /\ Base[0] = 0 /\ NPorts = 2
    <3>1. Span[0] > 1 /\ Span[1] = (Span[0] + 3) \div 4 /\ Span[0] = NPorts /\ NPorts \in Nat /\ Base[0] = 0
      <4>1. 0 \in 0..(Depth - 1) /\ 0 + 1 = 1
        BY <1>0, <1>6
      <4> QED BY <4>1, TreeShape
    <3>2. NPorts = 2
      <4>1. NPorts - 1 \in Ports
        BY <3>1 DEF Ports
      <4>2. NPorts - 1 \in {0, 1}
        BY <4>1
      <4> QED BY <3>1, <4>2
    <3>3. Span[1] = 1
      BY <3>1, <3>2
    <3>4. ~(1 \in 0..(Depth - 1))
      <4>1. 1 \in 0..(Depth - 1) => Span[1] > 1
        BY TreeShape
      <4> QED BY <3>3, <4>1
    <3> QED BY <1>0, <1>6, <3>1, <3>2, <3>4 DEF Ports
  <2>1. val[0] = rec[0] /\ val[1] = rec[1] /\ AllCached(val)
    <3>1. \A p \in Ports : val[p] = LeafOf(rec[p])
      BY <1>6 DEF TreeOK
    <3> QED BY <1>2, <1>6, <2>0, <3>1 DEF TreeOK
  <2>2. out = Group(val, 0, 0)
    <3>1. Cached(val, 1, 0)
      BY <2>0, <2>1, RootIs DEF AllCached
    <3>2. val[Base[1] + 0] = Fixed(1, Group(val, 1 - 1, 4 * 0))
      BY <3>1 DEF Cached
    <3>3. 1 - 1 = 0 /\ 4 * 0 = 0 /\ Root = Base[1] + 0
      BY <2>0, RootIs
    <3> QED BY <1>0, <1>1, <3>2, <3>3 DEF Fixed
  <2>3. Group(val, 0, 0) = Joined(val[0], val[1])
    <3>1. 0 \in 0..(Depth - 1) /\ 0 \in 0..(Span[0] - 1) /\ 0 \div 4 = 0
      BY <2>0
    <3>2. Group(val, 0, 0) = Joined(Joined(Joined(Member(val, 0, 0, 0), Member(val, 0, 0, 1)),
                                                Member(val, 0, 0, 2)), Member(val, 0, 0, 3))
      BY <3>1, GroupIs
    <3>3. /\ Member(val, 0, 0, 0) = val[0] /\ Member(val, 0, 0, 1) = val[1]
          /\ Member(val, 0, 0, 2) = nil /\ Member(val, 0, 0, 3) = nil
      BY <2>0 DEF Member
    <3> QED BY <3>2, <3>3 DEF Joined
  <2>4. out = Joined(rec[0], rec[1])
    BY <2>1, <2>2, <2>3
  <2>5. CASE rec[1] = nil
    <3>1. out = rec[0] /\ rec[0] # nil
      BY <2>4, <2>5 DEF Joined
    <3>2. ds = {rec[0][i]}
      BY <2>0, <2>5, <3>1 DEF BitsOf
    <3> QED BY <1>0, <1>3, <1>4, <3>1, <3>2
  <2>6. CASE rec[1] # nil /\ rec[0] = nil
    <3>1. out = rec[1] /\ 1 \in Ports
      BY <2>0, <2>4, <2>6 DEF Joined
    <3>2. ds = {rec[1][i]}
      BY <2>0, <2>6, <3>1 DEF BitsOf
    <3> QED BY <1>3, <1>4, <2>6, <3>1, <3>2
  <2>7. CASE rec[1] # nil /\ rec[0] # nil
    <3> DEFINE a == rec[0][i]
               b == rec[1][i]
               c == resolve(a, b)
    <3>1. Spread(a) /\ Spread(b) /\ 1 \in Ports
      BY <1>0, <1>3, <2>0, <2>7
    <3>2. out[i] = c
      <4>1. out = Combine(rec[0], rec[1])
        BY <2>4, <2>7 DEF Joined
      <4>2. CombineBit(a, b) = c
        BY <1>0 DEF CombineBit, Wired
      <4> QED BY <4>1, <4>2 DEF Combine
    <3>3. ds = {a, b}
      BY <2>0, <2>7 DEF BitsOf
    <3>4. CASE a = b
      <4>1. c = a
        BY <3>4 DEF resolve
      <4> QED BY <1>4, <3>1, <3>2, <3>3, <3>4, <4>1
    <3>5. CASE a # b
      <4>1. Allows(c, a, b) /\ Allows(c, b, a)
        BY <3>1, ResolveCovers
      <4>2. Level(a.lo) \in Int /\ Level(a.hi) \in Int /\ Level(b.lo) \in Int /\ Level(b.hi) \in Int
        BY <3>1 DEF Spread, Level, Scalars, Ends
      <4> HIDE DEF a, b, c, ds
      <4>3. CASE d = a
        BY <3>2, <3>3, <3>5, <4>1, <4>3 DEF Allows, ds
      <4>4. CASE d = b
        BY <3>2, <3>3, <3>5, <4>1, <4>4 DEF Allows, ds
      <4>5. CASE d # a /\ d # b
        <5>1. d = HiZ
          BY <3>3, <4>5 DEF ds
        <5>2. x = 0
          <6>1. Level(HiZ.hi) = 0 /\ Level(HiZ.lo) = 0
            BY DEF HiZ, Scalar, End, Level
          <6> QED BY <5>1, <6>1 DEF LevelsOf
        <5>3. PICK y \in LevelsOf(a) : Abs(y) <= Abs(x)
          BY <3>3, <4>5 DEF ds
        <5>4. PICK z \in LevelsOf(b) : Abs(z) <= Abs(x)
          BY <3>3, <4>5 DEF ds
        <5>5. y = 0 /\ z = 0
          BY <4>2, <5>2, <5>3, <5>4 DEF Abs, LevelsOf
        <5>6. x \in LevelsOf(a) /\ \E t \in LevelsOf(b) : Abs(t) <= Abs(x)
          BY <5>2, <5>3, <5>4, <5>5
        <5> QED BY <3>2, <4>1, <5>6 DEF Allows
      <4> QED BY <4>3, <4>4, <4>5
    <3> QED BY <3>4, <3>5
  <2> QED BY <2>5, <2>6, <2>7
<1> QED BY <1>0, <1>5, <1>6

-----------------------------------------------------------------------------
(* The invariant of the specification. *)

RInv ==
  /\ kind \in Kinds
  /\ \A val, rec, out : val = val_ /\ rec = received /\ out = resolved => TreeOK(val, rec, out)

\* The type of a resolver never changes, and so the invariant means the same.
LEMMA KindStays ==
  ASSUME kind' = kind
  PROVE  \A val, rec, out : TreeOK(val, rec, out)' <=> TreeOK(val, rec, out)
<1>0. Wired' <=> Wired
  BY DEF Wired
<1>1. \A a, b : CombineBit(a, b)' = CombineBit(a, b)
  BY Zenon DEF CombineBit
<1>2. \A a, b : Combine(a, b)' = Combine(a, b)
  BY <1>1, Zenon DEF Combine
<1>3. \A a, b : Joined(a, b)' = Joined(a, b)
  BY <1>2, Zenon DEF Joined
<1>4. \A val, n, port : Group(val, n, port)' = Group(val, n, port)
  <2>1. \A a, b, c, d : Joined(Joined(Joined(a, b), c), d)' = Joined(Joined(Joined(a, b), c), d)
    BY <1>3, Zenon
  <2> QED BY <2>1, SMT DEF Group
<1>5. hiz_value_' = hiz_value_
  BY Zenon DEF hiz_value_
<1>6. \A v : Pull(v)' = Pull(v)
  BY <1>5, Zenon DEF Pull
<1>7. \A v : PullN(v)' = PullN(v)
  BY <1>6, Zenon DEF PullN
<1>8. \A m, x : Fixed(m, x)' = Fixed(m, x)
  BY <1>7, Zenon DEF Fixed
<1>9. \A val, m, k : Cached(val, m, k)' <=> Cached(val, m, k)
  BY <1>4, <1>8, Zenon DEF Cached
<1>10. \A val : AllCached(val)' <=> AllCached(val)
  BY <1>9, Zenon DEF AllCached
<1>11. Values' = Values
  BY <1>0, Zenon DEF Values, Vecs, NodeBits
<1>12. \A v : LeafOf(v)' = LeafOf(v)
  BY <1>0, Zenon DEF LeafOf
<1> QED BY <1>7, <1>10, <1>11, <1>12, Zenon DEF TreeOK

\* The invariant holds of a resolver that has received nothing.
LEMMA RInit ==
  ASSUME ResolverAssumption, ResolverInit
  PROVE  RInv
<1>0. /\ kind \in Kinds /\ val_ = [n \in Nodes |-> nil]
      /\ received = [p \in Ports |-> nil] /\ resolved = nil
  BY DEF ResolverInit
<1>1. val_ \in [Nodes -> Values] /\ \A n \in Nodes : val_[n] = nil
  BY <1>0 DEF Values
<1>2. received \in [Ports -> [Positions -> Declared] \cup {nil}] /\ \A p \in Ports : received[p] = nil
  BY <1>0
<1>3. Root \in Nodes /\ Depth \in Nat /\ 0 \in Ports /\ 0 \in Nodes
  <2>1. 0 \in Ports
    BY TreeShape DEF Ports
  <2> QED BY <2>1, RootIs, PortsAreNodes
<1>4. \A p \in Ports : val_[p] = LeafOf(received[p])
  <2>1. \A p \in Ports : p \in Nodes
    BY PortsAreNodes
  <2> QED BY <1>1, <1>2, <2>1 DEF LeafOf
<1>5. AllCached(val_)
  <2> SUFFICES ASSUME NEW m \in 1..Depth, NEW k \in 0..(Span[m] - 1) PROVE Cached(val_, m, k)
    BY DEF AllCached
  <2> DEFINE n == m - 1
  <2>0. n \in 0..(Depth - 1) /\ n + 1 = m /\ m \in 0..Depth
    BY <1>3
  <2> HIDE DEF n
  <2>1. 4 * k \in 0..(Span[n] - 1) /\ (4 * k) \div 4 = k /\ k \in Nat
    BY <2>0, GroupAbove
  <2>2. ASSUME NEW j \in 0..3 PROVE Member(val_, n, k, j) = nil
    <3>1. CASE 4 * k + j < Span[n]
      <4>1. n \in 0..Depth /\ 4 * k + j \in 0..(Span[n] - 1)
        BY <1>3, <2>0, <2>1, <3>1, TreeShape
      <4>2. Base[n] + (4 * k + j) \in Nodes
        BY <4>1, NodeInRange
      <4> QED BY <1>1, <3>1, <4>2 DEF Member
    <3>2. CASE ~(4 * k + j < Span[n])
      BY <3>2 DEF Member
    <3> QED BY <3>1, <3>2
  <2>3. Group(val_, n, 4 * k) = nil
    <3>1. Group(val_, n, 4 * k) = Joined(Joined(Joined(Member(val_, n, k, 0), Member(val_, n, k, 1)),
                                                Member(val_, n, k, 2)), Member(val_, n, k, 3))
      BY <2>0, <2>1, GroupIs
    <3>2. /\ Member(val_, n, k, 0) = nil /\ Member(val_, n, k, 1) = nil
          /\ Member(val_, n, k, 2) = nil /\ Member(val_, n, k, 3) = nil
      BY <2>2
    <3> QED BY <3>1, <3>2 DEF Joined
  <2>4. val_[Base[m] + k] = nil
    BY <1>1, <2>0, NodeInRange
  <2> QED BY <2>3, <2>4 DEF Cached, Fixed, PullN, n
<1>6. val_[0] = PullN(LeafOf(received[0]))
  BY <1>1, <1>2, <1>3 DEF PullN, LeafOf
<1>7. TreeOK(val_, received, resolved)
  BY <1>0, <1>1, <1>2, <1>3, <1>4, <1>5, <1>6 DEF TreeOK
<1> QED BY <1>0, <1>7 DEF RInv

\* A port receives v, which the resolver stores as a bit vector or a vector of scalars.
LEMMA RReceive ==
  ASSUME ResolverAssumption, RInv, NEW port \in Ports, NEW v \in [Positions -> Declared],
         Receive(port, LeafOf(v)), received' = [received EXCEPT ![port] = v], kind' = kind
  PROVE  RInv'
<1> DEFINE bit     == LeafOf(v)
           climbed == Climb([val_ EXCEPT ![port] = bit], port)
           top     == IF Wired THEN climbed.val[Root] ELSE Pull(climbed.val[Root])
           now     == [received EXCEPT ![port] = v]
<1>0. TreeOK(val_, received, resolved) /\ kind \in Kinds
  BY DEF RInv
<1>1. /\ val_[port] = bit => TreeOK(val_, now, resolved)
      /\ ~climbed.go => TreeOK(climbed.val, now, resolved)
      /\ climbed.go => TreeOK([climbed.val EXCEPT ![Root] = top], now, top)
  BY <1>0, ReceivedOK
<1>2. \/ val_[port] = bit /\ val_' = val_ /\ resolved' = resolved
      \/ ~climbed.go /\ val_' = climbed.val /\ resolved' = resolved
      \/ climbed.go /\ resolved' = top /\ val_' = [climbed.val EXCEPT ![Root] = top]
  BY DEF Receive
<1> HIDE DEF bit, climbed, top, now
<1>3. TreeOK(val_', now, resolved')
  BY <1>1, <1>2
<1>4. TreeOK(val_', received', resolved')
  BY <1>3 DEF now
<1>5. \A val, rec, out : val = val_' /\ rec = received' /\ out = resolved' => TreeOK(val, rec, out)
  BY <1>4
<1>6. \A val, rec, out : val = val_' /\ rec = received' /\ out = resolved' => TreeOK(val, rec, out)'
  BY <1>5, KindStays, Zenon
<1> QED BY <1>0, <1>6, Zenon DEF RInv

\* What the constructor makes can be declared.
LEMMA ScalarIsDeclared ==
  ASSUME NEW val \in Bits, NEW s \in 0..7, NEW t \in 0..7
  PROVE  scalar(val, s, t) \in Declared
BY DEF Declared

\* A vector without strengths stands for strong drivers of the same value.
LEMMA StrongIsDeclared ==
  ASSUME NEW v \in [Positions -> Bits]
  PROVE  /\ Strong(v) \in [Positions -> Declared]
         /\ reduce4(Strong(v)) = v
<1>1. \A b \in Bits : scalar(b, 6, 6) \in Declared
  <2>1. 6 \in 0..7
    OBVIOUS
  <2> QED BY <2>1, ScalarIsDeclared
<1>2. Strong(v) \in [Positions -> Declared]
  BY <1>1 DEF Strong
<1>3. \A i \in Positions : scalar_value(Strong(v)[i]) = v[i]
  BY ValueOfStrong DEF Strong
<1> HIDE DEF Strong
<1>4. reduce4(Strong(v)) = [i \in Positions |-> v[i]]
  BY <1>3, Zenon DEF reduce4
<1> QED BY <1>2, <1>4

\* recv_vec8 keeps the invariant.
LEMMA RVec8 ==
  ASSUME ResolverAssumption, RInv, NEW port \in Ports, NEW v \in [Positions -> Declared],
         resolv_core_recv_vec8(port, v)
  PROVE  RInv'
<1>1. v # nil
  BY VectorIsNotNil
<1>2. LeafOf(v) = IF Wired THEN reduce4(v) ELSE v
  BY <1>1 DEF LeafOf
<1>3. Receive(port, LeafOf(v)) /\ received' = [received EXCEPT ![port] = v] /\ kind' = kind
  BY <1>2, Zenon DEF resolv_core_recv_vec8
<1> QED BY <1>3, RReceive

\* recv_vec4 keeps the invariant.
LEMMA RVec4 ==
  ASSUME ResolverAssumption, RInv, NEW port \in Ports, NEW v \in [Positions -> Bits],
         resolv_core_recv_vec4(port, v)
  PROVE  RInv'
<1>1. Strong(v) \in [Positions -> Declared] /\ reduce4(Strong(v)) = v
  BY StrongIsDeclared
<1>2. Strong(v) # nil
  BY <1>1, VectorIsNotNil
<1>3. LeafOf(Strong(v)) = IF Wired THEN v ELSE Strong(v)
  BY <1>1, <1>2 DEF LeafOf
<1>4. Receive(port, LeafOf(Strong(v))) /\ received' = [received EXCEPT ![port] = Strong(v)] /\ kind' = kind
  BY <1>3, Zenon DEF resolv_core_recv_vec4
<1> QED BY <1>1, <1>4, RReceive

\* Every step keeps the invariant.
LEMMA RNext ==
  ASSUME ResolverAssumption, RInv, [ResolverNext]_resolverVars
  PROVE  RInv'
<1>1. ASSUME UNCHANGED resolverVars PROVE RInv'
  <2>1. kind' = kind /\ val_' = val_ /\ received' = received /\ resolved' = resolved
    BY <1>1 DEF resolverVars
  <2>2. kind \in Kinds /\ \A val, rec, out : val = val_ /\ rec = received /\ out = resolved => TreeOK(val, rec, out)
    BY DEF RInv
  <2>3. \A val, rec, out : val = val_' /\ rec = received' /\ out = resolved' => TreeOK(val, rec, out)'
    BY <2>1, <2>2, KindStays, Zenon
  <2> QED BY <2>1, <2>2, <2>3, Zenon DEF RInv
<1>2. ASSUME ResolverNext PROVE RInv'
  <2>1. PICK port \in ActivePorts :
          \/ \E v \in [Positions -> Drivers] : resolv_core_recv_vec8(port, v)
          \/ \E v \in [Positions -> Drivers4] : resolv_core_recv_vec4(port, v)
          \/ Partial /\ \E part \in PartSelects, v \in [Positions -> Drivers] : resolv_core_recv_vec8_pv(port, part, v)
          \/ Partial /\ \E part \in PartSelects, v \in [Positions -> Drivers4] : resolv_core_recv_vec4_pv(port, part, v)
    BY <1>2, Zenon DEF ResolverNext
  <2>2. port \in Ports /\ Drivers \subseteq Declared /\ Drivers4 \subseteq Bits
    BY DEF ResolverAssumption, Ports
  <2>3. CASE \E v \in [Positions -> Drivers] : resolv_core_recv_vec8(port, v)
    <3>1. PICK v \in [Positions -> Drivers] : resolv_core_recv_vec8(port, v)
      BY <2>3
    <3>2. v \in [Positions -> Declared]
      BY <2>2
    <3> QED BY <2>2, <3>1, <3>2, RVec8
  <2>4. CASE \E v \in [Positions -> Drivers4] : resolv_core_recv_vec4(port, v)
    <3>1. PICK v \in [Positions -> Drivers4] : resolv_core_recv_vec4(port, v)
      BY <2>4
    <3>2. v \in [Positions -> Bits]
      BY <2>2
    <3> QED BY <2>2, <3>1, <3>2, RVec4
  <2>5. CASE \E part \in PartSelects, v \in [Positions -> Drivers] : resolv_core_recv_vec8_pv(port, part, v)
    <3>1. PICK part \in PartSelects, v \in [Positions -> Drivers] : resolv_core_recv_vec8_pv(port, part, v)
      BY <2>5, Zenon
    <3> DEFINE w == [i \in Positions |-> IF i \in part THEN v[i] ELSE HiZ]
    <3>2. HiZ \in Declared
      <4>1. HiZ = scalar(BIT4_Z, 0, 0)
        BY DEF scalar, BIT4_0, BIT4_1, BIT4_X, BIT4_Z
      <4>2. 0 \in 0..7 /\ BIT4_Z \in Bits
        BY DEF Bits
      <4> QED BY <4>1, <4>2, ScalarIsDeclared
    <3>3. w \in [Positions -> Declared]
      BY <2>2, <3>2
    <3>4. resolv_core_recv_vec8(port, w)
      BY <3>1, Zenon DEF resolv_core_recv_vec8_pv
    <3> HIDE DEF w
    <3> QED BY <2>2, <3>3, <3>4, RVec8
  <2>6. CASE \E part \in PartSelects, v \in [Positions -> Drivers4] : resolv_core_recv_vec4_pv(port, part, v)
    <3>1. PICK part \in PartSelects, v \in [Positions -> Drivers4] : resolv_core_recv_vec4_pv(port, part, v)
      BY <2>6, Zenon
    <3> DEFINE w == [i \in Positions |-> IF i \in part THEN v[i] ELSE BIT4_Z]
    <3>2. w \in [Positions -> Bits]
      BY <2>2 DEF Bits
    <3>3. resolv_core_recv_vec4(port, w)
      BY <3>1, Zenon DEF resolv_core_recv_vec4_pv
    <3> HIDE DEF w
    <3> QED BY <2>2, <3>2, <3>3, RVec4
  <2> QED BY <2>1, <2>3, <2>4, <2>5, <2>6, Zenon
<1> QED BY <1>1, <1>2, Zenon

\* The invariant gives the net the value of its drivers.
LEMMA RImplies ==
  ASSUME ResolverAssumption, RInv
  PROVE  NetIsResolved
<1>0. TreeOK(val_, received, resolved) /\ kind \in Kinds
  BY DEF RInv
<1>1. received \in RecType /\ DOMAIN received = Ports
  BY <1>0 DEF TreeOK, RecType
<1>2. \A i : DriversOf(i) = BitsOf(received, Ports, i) \cup {hiz_value_}
  BY <1>1 DEF DriversOf, Driven, BitsOf
<1>3. NetIsExact
  <2>1. /\ resolved = nil <=> \A p \in Ports : received[p] = nil
        /\ resolved # nil => /\ DOMAIN resolved = Positions
                             /\ \A i \in Positions :
                                  LET ds == BitsOf(received, Ports, i) \cup {hiz_value_}
                                  IN (\A d \in ds : Even(d)) => resolved[i] = NetBit(ds)
    BY <1>0, TreeIsExact
  <2>2. resolved = nil <=> Driven = {}
    BY <1>1, <2>1 DEF Driven
  <2>3. ASSUME resolved # nil, NEW i \in DOMAIN resolved, \A d \in DriversOf(i) : Even(d)
        PROVE  resolved[i] = NetBit(DriversOf(i))
    <3>1. i \in Positions
      BY <2>1, <2>3
    <3> QED BY <1>2, <2>1, <2>3, <3>1
  <2> QED BY <2>2, <2>3 DEF NetIsExact
<1>4. ASSUME DOMAIN received \subseteq {0, 1}, kind = "tri" PROVE NetCoversDrivers
  <2> SUFFICES ASSUME resolved # nil, NEW i \in DOMAIN resolved, NEW d \in DriversOf(i), NEW x \in LevelsOf(d),
                      \A e \in DriversOf(i) \ {d} : \E y \in LevelsOf(e) : Abs(y) <= Abs(x)
               PROVE  x \in LevelsOf(resolved[i])
    BY DEF NetCoversDrivers
  <2>1. i \in Positions
    BY <1>0, TreeIsExact
  <2>2. hiz_value_ = HiZ
    BY <1>4 DEF hiz_value_
  <2>3. DriversOf(i) = BitsOf(received, Ports, i) \cup {HiZ}
    BY <1>2, <2>2
  <2>4. Ports \subseteq {0, 1}
    BY <1>1, <1>4
  <2> QED BY <1>0, <1>4, <2>1, <2>3, <2>4, TreeCovers
<1>5. ASSUME DOMAIN received # {0} \/ is_hiz(hiz_value_) PROVE DriversCounted
  <2>1. \A p \in Ports : val_[p] = LeafOf(received[p])
    <3>1. CASE Depth > 0
      BY <1>0, <3>1 DEF TreeOK
    <3>2. CASE Depth = 0
      <4>1. Ports = {0}
        <5>1. Span[0] = 1 /\ Span[0] = NPorts
          BY <3>2, TreeShape
        <5> QED BY <5>1 DEF Ports
      <4>2. \A v : PullN(v) = v
        BY <1>1, <1>5, <4>1 DEF PullN, Pull
      <4> QED BY <1>0, <3>2, <4>1, <4>2 DEF TreeOK
    <3>3. Depth \in Nat
      BY TreeShape
    <3> QED BY <3>1, <3>2, <3>3
  <2>2. ASSUME NEW p \in Driven, NEW i \in DOMAIN received[p]
        PROVE  (IF Wired THEN val_[p][i] ELSE scalar_value(val_[p][i])) = scalar_value(received[p][i])
    <3>1. p \in Ports /\ received[p] # nil /\ received[p] \in [Positions -> Declared]
      BY <1>1 DEF Driven, RecType
    <3>2. i \in Positions
      BY <3>1
    <3>3. val_[p] = IF Wired THEN reduce4(received[p]) ELSE received[p]
      BY <2>1, <3>1 DEF LeafOf
    <3>4. reduce4(received[p])[i] = scalar_value(received[p][i])
      BY <3>2 DEF reduce4
    <3> QED BY <3>3, <3>4, Zenon
  <2>3. ASSUME NEW p \in Driven PROVE val_[p] # nil
    <3>1. p \in Ports /\ received[p] # nil /\ received[p] \in [Positions -> Declared]
      BY <1>1 DEF Driven, RecType
    <3>2. LeafOf(received[p]) # nil
      BY <3>1, LeafType, VectorIsNotNil DEF Vecs
    <3> QED BY <2>1, <3>1, <3>2
  <2> QED BY <2>2, <2>3 DEF DriversCounted
<1> QED BY <1>3, <1>4, <1>5, Zenon DEF NetIsResolved

\* resolv_core, resolv_tri, resolv_wired (vvp/resolv.cc): for any number of drivers and
\* any width, whichever drivers send what and in which order, the net has the value
\* that its drivers give it, although a change climbs the tree of cached values only
\* as long as a node changes and the pull is stored in the root.
THEOREM NetsAreResolved ==
  ASSUME ResolverAssumption
  PROVE  ResolverSpec => []NetIsResolved
<1>1. ResolverInit => RInv
  BY RInit
<1>2. RInv /\ [ResolverNext]_resolverVars => RInv'
  BY RNext
<1>3. RInv => NetIsResolved
  BY RImplies
<1> QED BY <1>1, <1>2, <1>3, PTL DEF ResolverSpec
=============================================================================
