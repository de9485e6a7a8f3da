------------------------------ MODULE Resolver ------------------------------
(***************************************************************************)
(* The resolver of a net with several drivers (vvp/resolv.cc).  It keeps   *)
(* the value of each of its ports and, above them, a tree in which every   *)
(* node caches the resolution of four nodes of the level below; a new      *)
(* value on a port climbs the tree only as long as something changes.  At  *)
(* the root a tri0 or tri1 net blends in its pull.  The nodes of all       *)
(* levels are one array, ports first.                                      *)
(*                                                                         *)
(* received and resolved are histories: what each port last received, and  *)
(* what the net was last sent.                                             *)
(***************************************************************************)
EXTENDS Strength

CONSTANTS
  NPorts,         \* number of drivers the resolver was declared with
  ActivePorts,    \* the ports that ever receive a value
  VectorWidth,    \* bits of the net
  Drivers,        \* the scalars that strength-aware drivers send
  Drivers4,       \* the bits that other drivers send
  Partial,        \* are there part-select drivers?
  Kinds           \* resolver types, of tri, tri0, tri1, triand and trior

ResolverAssumption ==
  /\ NPorts \in Nat \ {0} /\ ActivePorts \subseteq 0 .. NPorts - 1
  /\ VectorWidth \in Nat \ {0} /\ Partial \in BOOLEAN
  /\ Drivers \subseteq Declared /\ Drivers4 \subseteq Bits
  /\ Kinds \subseteq {"tri", "tri0", "tri1", "triand", "trior"}

VARIABLES kind, val_, received, resolved

resolverVars == <<kind, val_, received, resolved>>

Positions == 0 .. VectorWidth - 1
Ports == 0 .. NPorts - 1
nil == <<>>

Wired == kind \in {"triand", "trior"}

\* compile_resolver: the value a net has where nothing drives it.
hiz_value_ == CASE kind = "tri0" -> scalar(BIT4_0, 5, 5)
                [] kind = "tri1" -> scalar(BIT4_1, 5, 5)
                [] OTHER         -> HiZ

-----------------------------------------------------------------------------
(* The tree. *)

\* The number of nodes at each level (ports are level 0), and the first of them.
Span[n \in 0 .. NPorts] == IF n = 0 THEN NPorts ELSE (Span[n - 1] + 3) \div 4

Depth == CHOOSE d \in 0 .. NPorts : Span[d] = 1 /\ \A n \in 0 .. d - 1 : Span[n] > 1

Base[n \in 0 .. NPorts] == IF n = 0 THEN 0 ELSE Base[n - 1] + Span[n - 1]

Root == Base[Depth]
Nodes == 0 .. Root

-----------------------------------------------------------------------------

triand_bit(a, b) ==
  CASE a = BIT4_Z -> b
    [] b = BIT4_Z /\ a # BIT4_Z -> a
    [] a # BIT4_Z /\ b # BIT4_Z -> AndBit(a, b)

trior_bit(a, b) ==
  CASE a = BIT4_Z -> b
    [] b = BIT4_Z /\ a # BIT4_Z -> a
    [] a # BIT4_Z /\ b # BIT4_Z -> OrBit(a, b)

\* resolve on bits, or the wired_logic_math_ of the kind, and on vectors.
CombineBit(a, b) == CASE kind = "triand" -> triand_bit(a, b)
                      [] kind = "trior"  -> trior_bit(a, b)
                      [] OTHER           -> resolve(a, b)
Combine(a, b) == [i \in Positions |-> CombineBit(a[i], b[i])]

\* Fault: a group whose first node has no value yet stays without one.
Joined_FromFirst(res, v) == IF v = nil \/ res = nil THEN res ELSE Combine(res, v)

\* One more node of a group: those without a value do not count.
Joined(res, v) ==
  IF v = nil THEN res ELSE IF res = nil THEN v ELSE Combine(res, v)

\* The resolution of the four nodes around a node, as far as the level goes.
Group(val, level, port) ==
  LET ip      == Base[level] + 4 * (port \div 4)
      node(k) == IF ip + k < Base[level] + Span[level] THEN val[ip + k] ELSE nil
  IN Joined(Joined(Joined(val[ip], node(1)), node(2)), node(3))

\* One turn of the loop: the node above the group of the one that has changed.
ClimbTo(level, below) ==
  LET op  == Base[level] + below.port \div 4
      res == Group(below.val, level - 1, below.port)
  IN IF ~below.go \/ below.val[op] = res
     THEN [below EXCEPT !.go = FALSE]
     ELSE [val |-> [below.val EXCEPT ![op] = res], go |-> TRUE, port |-> below.port \div 4]

\* The climb from a port whose value is already stored; go says whether the node of
\* the level has changed, and so whether the root has in the end.
Climb(val, port) ==
  LET at[level \in 0 .. Depth] == IF level = 0 THEN [val |-> val, go |-> TRUE, port |-> port]
                                  ELSE ClimbTo(level, at[level - 1])
  IN at[Depth]

\* The pull, stored in the root node itself.
Pull(v) == IF is_hiz(hiz_value_) THEN v ELSE [i \in Positions |-> resolve(v[i], hiz_value_)]

\* recv_vec8_ of resolv_tri, recv_vec4_ of resolv_wired_logic.
Receive(port, bit) ==
  \/ val_[port] = bit /\ UNCHANGED <<val_, resolved>>
  \/ /\ val_[port] # bit
     /\ \E climbed \in {Climb([val_ EXCEPT ![port] = bit], port)} :
          \/ ~climbed.go /\ val_' = climbed.val /\ UNCHANGED resolved
          \/ /\ climbed.go
             /\ resolved' = IF Wired THEN climbed.val[Root] ELSE Pull(climbed.val[Root])
             /\ val_' = [climbed.val EXCEPT ![Root] = resolved']

-----------------------------------------------------------------------------
(* What the ports accept. *)

reduce4(v) == [i \in Positions |-> scalar_value(v[i])]

Strong(v) == [i \in Positions |-> scalar(v[i], 6, 6)]

resolv_core_recv_vec8(port, v) ==
  /\ Receive(port, IF Wired THEN reduce4(v) ELSE v)
  /\ received' = [received EXCEPT ![port] = v]
  /\ UNCHANGED kind

resolv_core_recv_vec4(port, v) ==
  /\ Receive(port, IF Wired THEN v ELSE Strong(v))
  /\ received' = [received EXCEPT ![port] = Strong(v)]
  /\ UNCHANGED kind

\* recv_vec8_pv_, recv_vec4_pv_: a part is widened with undriven bits.
resolv_core_recv_vec8_pv(port, part, v) ==
  resolv_core_recv_vec8(port, [i \in Positions |-> IF i \in part THEN v[i] ELSE HiZ])

resolv_core_recv_vec4_pv(port, part, v) ==
  resolv_core_recv_vec4(port, [i \in Positions |-> IF i \in part THEN v[i] ELSE BIT4_Z])

PartSelects == {from .. to : from \in Positions, to \in Positions} \ {{}, Positions}

ResolverInit ==
  /\ kind \in Kinds
  /\ val_ = [n \in Nodes |-> nil]
  /\ received = [p \in Ports |-> nil]
  /\ resolved = nil

ResolverNext ==
  \E port \in ActivePorts :
    \/ \E v \in [Positions -> Drivers] : resolv_core_recv_vec8(port, v)
    \/ \E v \in [Positions -> Drivers4] : resolv_core_recv_vec4(port, v)
    \/ /\ Partial
       /\ \E part \in PartSelects, v \in [Positions -> Drivers] :
            resolv_core_recv_vec8_pv(port, part, v)
    \/ /\ Partial
       /\ \E part \in PartSelects, v \in [Positions -> Drivers4] :
            resolv_core_recv_vec4_pv(port, part, v)

ResolverSpec == ResolverInit /\ [][ResolverNext]_resolverVars

-----------------------------------------------------------------------------
(* What a net with several drivers should be. *)

\* The drivers of a bit, the pull of the net among them.
Driven == {p \in DOMAIN received : received[p] # nil}
DriversOf(i) == {received[p][i] : p \in Driven} \cup {hiz_value_}

\* The strength with which drivers pull a bit to 0, and to 1.
Strength0(ds) == Max({IF d.lo.v THEN 0 ELSE d.lo.s : d \in ds})
Strength1(ds) == Max({IF d.hi.v THEN d.hi.s ELSE 0 : d \in ds})

\* Drivers whose unknown is equally strong both ways: the stronger side wins.
NetScalar(ds) ==
  LET s0 == Strength0(ds)
      s1 == Strength1(ds)
  IN CASE s0 > s1 -> scalar(BIT4_0, s0, s0)
       [] s0 < s1 -> scalar(BIT4_1, s1, s1)
       [] s0 = s1 -> scalar(BIT4_X, s0, s1)

\* A wired net looks at the values alone: the dominant one wins, undriven
\* bits do not count.
WiredBit(ds, dominant, other) ==
  LET vs == {scalar_value(d) : d \in ds} \ {BIT4_Z}
  IN CASE vs = {}         -> BIT4_Z
       [] dominant \in vs -> dominant
       [] vs = {other}    -> other
       [] OTHER           -> BIT4_X

NetBit(ds) == CASE kind = "triand" -> WiredBit(ds, BIT4_0, BIT4_1)
                [] kind = "trior"  -> WiredBit(ds, BIT4_1, BIT4_0)
                [] OTHER           -> NetScalar(ds)

\* A driver whose value is as strong towards 0 as towards 1.
Even(d) == d = HiZ \/ \E val \in {BIT4_0, BIT4_1, BIT4_X}, s \in 1 .. 7 : d = scalar(val, s, s)

\* Every scalar between two ends as signed levels.
LevelsOf(d) == Level(d.lo) .. Level(d.hi)
Abs(x) == IF x < 0 THEN -x ELSE x

-----------------------------------------------------------------------------

\* The net has the value its drivers give it, whatever the order in which they
\* changed and whichever nodes of the tree were found unchanged: nothing cached
\* is stale, and the pull, once stored in the root, hides no later change.
NetIsExact ==
  /\ resolved = nil <=> Driven = {}
  /\ resolved # nil => \A i \in DOMAIN resolved :
       (\A d \in DriversOf(i) : Even(d)) => resolved[i] = NetBit(DriversOf(i))

\* No certainty is invented: a driver with an unknown value may turn out to be
\* at any level it spans, and whatever level then is the strongest on the net is
\* one that the net's value allows.
NetCoversDrivers ==
  resolved # nil => \A i \in DOMAIN resolved : \A d \in DriversOf(i) : \A x \in LevelsOf(d) :
    (\A e \in DriversOf(i) \ {d} : \E y \in LevelsOf(e) : Abs(y) <= Abs(x))
      => x \in LevelsOf(resolved[i])

\* The ports hold what their drivers sent: the counts of drivers at 0, 1 and X
\* that $countdrivers takes from them are right.
DriversCounted ==
  \A p \in Driven :
    /\ val_[p] # nil
    /\ \A i \in DOMAIN received[p] :
         (IF Wired THEN val_[p][i] ELSE scalar_value(val_[p][i])) = scalar_value(received[p][i])

\* resolv_core, resolv_tri, resolv_wired, count_drivers: all of these.  With three
\* drivers of uneven strengths the net may claim too much, and the pull of a net
\* with one port is stored over what that port received.
NetIsResolved ==
  /\ NetIsExact
  /\ DOMAIN received \subseteq {0, 1} /\ kind = "tri" => NetCoversDrivers
  /\ DOMAIN received # {0} \/ is_hiz(hiz_value_) => DriversCounted
=============================================================================
