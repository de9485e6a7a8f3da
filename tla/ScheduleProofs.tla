--------------------------- MODULE ScheduleProofs ---------------------------
(***************************************************************************)
(* The simulator's list of time differences is an agenda of absolute       *)
(* times, and its queues keep the regions of the event queue in order.     *)
(***************************************************************************)
EXTENDS Schedule, TLAPS, WellFoundedInduction, SequenceTheorems

QueueMap == [Queues -> Seq(Event)]
Cell     == [delay : Nat, queue : QueueMap]

\* What an event that waits in queue q of a cell is: it is on the queue it was
\* scheduled for, or was promoted to the active one, or is a NextSimTime
\* callback in front of the start callbacks.
Fits(e, q, offset, now, nid) ==
  /\ e.id < nid
  /\ e.q = "nbassign" => e.kind = "update"
  /\ e.q = "del_thr" => e.kind = "reap"
  /\ \/ e.q = q /\ e.due = now + offset
     \/ /\ q = "active" /\ e.q \in {"inactive", "nbassign", "rwsync"}
        /\ offset = 0 /\ e.due = now
     \/ q = "start" /\ e.q = "next" /\ offset = 0 /\ e.due <= now

\* No event waits twice.
Distinct(queue) ==
  \A q, r \in Queues : \A i \in DOMAIN queue[q], j \in DOMAIN queue[r] :
    queue[q][i] = queue[r][j] /\ queue[q][i].q # "next" => q = r /\ i = j

NoUpdates(events) == \A i \in DOMAIN events : events[i].q # "nbassign"

\* The batch of non-blocking assignments is in front of what it wakes.
UpdatesFirst(events) ==
  \A i, j \in DOMAIN events : i < j /\ events[j].q = "nbassign" => events[i].q = "nbassign"

\* What may wait at the current time, in each phase of schedule_simulate.
Staged(queue, phase, event) ==
  /\ phase # "start" => queue["start"] = <<>>
  /\ phase \in {"rosync", "del_thr"} =>
       /\ queue["active"] = <<>> /\ queue["inactive"] = <<>>
       /\ queue["nbassign"] = <<>> /\ queue["rwsync"] = <<>>
  /\ phase = "del_thr" => queue["rosync"] = <<>>
  /\ phase \in {"compile", "init", "start"} => NoUpdates(queue["active"])
  /\ phase \in {"loop", "stop"} => UpdatesFirst(queue["active"])
  /\ phase = "loop" /\ event # None /\ event.q # "nbassign" => NoUpdates(queue["active"])

\* A cell that is `offset` from now.
CellCore(queue, offset, now, nid, phase, event) ==
  /\ queue \in QueueMap
  /\ \A q \in Queues : \A i \in DOMAIN queue[q] : Fits(queue[q][i], q, offset, now, nid)
  /\ Distinct(queue)
  /\ offset = 0 => Staged(queue, phase, event)

CellInv(queue, offset, now, nid, phase, event) ==
  /\ CellCore(queue, offset, now, nid, phase, event)
  /\ offset > 0 => \E q \in Queues : queue[q] # <<>>

\* The differences are natural numbers, positive but for the first.
Increasing(list) ==
  /\ list \in Seq(Cell)
  /\ \A k \in DOMAIN list : k > 1 => list[k].delay > 0

Cells(list, now, nid, phase, event) ==
  /\ Increasing(list)
  /\ \A k \in 1..Len(list) :
       CellInv(list[k].queue, Elapsed(list, k), now, nid, phase, event)

\* Events that wait outside the list of cells.
Apart(list, q, now, nid) ==
  \A i \in DOMAIN list : list[i].q = q /\ list[i].due <= now /\ list[i].id < nid

\* schedule_simulate's position, the event that executes and those that have.
PhaseInv ==
  /\ pc \in {"start", "rosync", "del_thr"} \/ (pc = "loop" /\ cur # None) =>
       sched_list # <<>> /\ sched_list[1].delay = 0
  /\ pc \in {"compile", "stop"} => cur = None
  /\ pc = "del_thr" => cur = None \/ cur.kind = "reap"
  /\ cur.q = "nbassign" => cur.kind = "update"
  /\ cur.q = "start" => pc = "start"
  /\ cur.q = "rosync" => pc = "rosync"
  /\ \A e \in ran : e.due <= schedule_time
  /\ pc = "start" => \A e \in ran : e.due = schedule_time => e.q \in {"start", "next", "init"}
  /\ Apart(init_list, "init", schedule_time, next_id)
  /\ Apart(final_list, "final", schedule_time, next_id)
  /\ Apart(next_sim_time, "next", schedule_time, next_id)

SchedInv == TypeOK /\ Cells(sched_list, schedule_time, next_id, pc, cur) /\ PhaseInv

-----------------------------------------------------------------------------
(* The time of a cell. *)

\* Every set of naturals has a least element.
LEMMA LeastNatural ==
  ASSUME NEW T, T \subseteq Nat, T # {}
  PROVE  \E x \in T : \A y \in T : x <= y
<1>1. IsWellFoundedOn({ss \in Nat \X Nat : ss[1] < ss[2]}, Nat)
  BY NatLessThanWellFounded, Zenon DEF OpToRel
<1>2. PICK x \in T : \A y \in T : ~(<<y, x>> \in {ss \in Nat \X Nat : ss[1] < ss[2]})
  BY <1>1, WFMin
<1>3. ASSUME NEW y \in T PROVE x <= y
  <2>1. ~(<<y, x>> \in {ss \in Nat \X Nat : ss[1] < ss[2]})
    BY <1>2
  <2>2. <<y, x>> \in Nat \X Nat /\ <<y, x>>[1] = y /\ <<y, x>>[2] = x
    OBVIOUS
  <2>3. ~(y < x)
    BY <2>1, <2>2
  <2> QED
    BY <2>3
<1> QED
  BY <1>3

\* A set that holds 0 and with n also n + 1, up to a bound, holds everything
\* up to the bound.
LEMMA UpTo ==
  ASSUME NEW m \in Nat, NEW S, 0 \in S, \A n \in 0..(m - 1) : n \in S => n + 1 \in S
  PROVE  0..m \subseteq S
<1> DEFINE T == (0..m) \ S
<1> SUFFICES ASSUME T # {} PROVE FALSE
  OBVIOUS
<1>1. PICK x \in T : \A y \in T : x <= y
  <2>1. T \subseteq Nat
    OBVIOUS
  <2> HIDE DEF T
  <2> QED
    BY <2>1, LeastNatural
<1>2. x - 1 \in 0..(m - 1) /\ x - 1 \in S
  BY <1>1
<1> QED
  BY <1>1, <1>2

\* The sums of the first differences of a list, up to the n-th.
Sums(list, sum, n) == sum = [i \in 0..n |-> IF i = 0 THEN 0 ELSE sum[i - 1] + list[i].delay]

\* The recursion of Elapsed has a solution.
LEMMA SumsExist ==
  ASSUME NEW list, NEW m \in Nat
  PROVE  \E sum : Sums(list, sum, m)
<1> DEFINE S == {n \in 0..m : \E sum : Sums(list, sum, n)}
           g(n) == list[n].delay
<1>1. 0 \in S
  <2>1. Sums(list, [n \in 0..0 |-> 0], 0)
    BY DEF Sums
  <2> QED
    BY <2>1
<1>2. ASSUME NEW n \in 0..(m - 1), n \in S PROVE n + 1 \in S
  <2>1. PICK sum : Sums(list, sum, n)
    BY <1>2
  <2> DEFINE more == [k \in 0..(n + 1) |-> IF k = n + 1 THEN sum[n] + g(n + 1) ELSE sum[k]]
  <2>2. sum = [k \in 0..n |-> IF k = 0 THEN 0 ELSE sum[k - 1] + g(k)]
    BY <2>1 DEF Sums
  <2> HIDE DEF g
  <2>3. more = [k \in 0..(n + 1) |-> IF k = 0 THEN 0 ELSE more[k - 1] + g(k)]
    <3>1. ASSUME NEW k \in 0..(n + 1), k = 0 PROVE more[k] = 0
      BY <2>2, <3>1
    <3>2. ASSUME NEW k \in 1..n PROVE more[k] = more[k - 1] + g(k)
      BY <2>2, <3>2
    <3>3. more[n + 1] = more[(n + 1) - 1] + g(n + 1)
      OBVIOUS
    <3>4. ASSUME NEW k \in 0..(n + 1)
          PROVE  more[k] = IF k = 0 THEN 0 ELSE more[k - 1] + g(k)
      <4>1. k = 0 \/ k \in 1..n \/ k = n + 1
        OBVIOUS
      <4> HIDE DEF more
      <4> QED BY <3>1, <3>2, <3>3, <4>1
    <3> QED BY <3>4
  <2>4. Sums(list, more, n + 1)
    <3> HIDE DEF more
    <3> QED BY <2>3 DEF Sums, g
  <2> HIDE DEF more
  <2> QED
    BY <2>4
<1>3. 0..m \subseteq S
  <2> HIDE DEF S
  <2> QED BY <1>1, <1>2, UpTo
<1>4. m \in S
  <2> HIDE DEF S
  <2> QED BY <1>3
<1> QED
  BY <1>4

\* Elapsed adds up the differences.
LEMMA ElapsedSum ==
  ASSUME NEW list, Len(list) \in Nat
  PROVE  /\ Elapsed(list, 0) = 0
         /\ \A k \in 1..Len(list) : Elapsed(list, k) = Elapsed(list, k - 1) + list[k].delay
<1> DEFINE body(sum) == [i \in 0..Len(list) |-> IF i = 0 THEN 0 ELSE sum[i - 1] + list[i].delay]
           w == CHOOSE sum : sum = body(sum)
<1>1. \E sum : sum = body(sum)
  <2>1. \E sum : Sums(list, sum, Len(list))
    BY SumsExist
  <2> QED
    BY <2>1 DEF Sums
<1>2. w = body(w)
  <2> HIDE DEF body
  <2> QED BY <1>1
<1>3. \A k : Elapsed(list, k) = w[k]
  BY DEF Elapsed
<1>4. w[0] = 0
  <2> HIDE DEF w
  <2> QED BY <1>2
<1>5. \A k \in 1..Len(list) : w[k] = w[k - 1] + list[k].delay
  <2> HIDE DEF w
  <2> QED BY <1>2
<1> HIDE DEF w
<1> QED
  BY <1>3, <1>4, <1>5

\* Whatever adds up the differences is Elapsed.
LEMMA SumIsElapsed ==
  ASSUME NEW list, Len(list) \in Nat, NEW f, f[0] = 0,
         \A k \in 1..Len(list) : f[k] = f[k - 1] + list[k].delay
  PROVE  \A k \in 0..Len(list) : Elapsed(list, k) = f[k]
<1> DEFINE S == {k \in 0..Len(list) : Elapsed(list, k) = f[k]}
<1>1. 0 \in S
  BY ElapsedSum
<1>2. ASSUME NEW n \in 0..(Len(list) - 1), n \in S PROVE n + 1 \in S
  <2>1. n + 1 \in 1..Len(list) /\ (n + 1) - 1 = n
    OBVIOUS
  <2>2. Elapsed(list, n + 1) = Elapsed(list, n) + list[n + 1].delay
    BY <2>1, ElapsedSum
  <2>3. f[n + 1] = f[n] + list[n + 1].delay
    BY <2>1
  <2> QED BY <1>2, <2>1, <2>2, <2>3
<1>3. 0..Len(list) \subseteq S
  <2> HIDE DEF S
  <2> QED BY <1>1, <1>2, UpTo
<1> QED
  BY <1>3

\* The cells of a list.
LEMMA CellsOf ==
  ASSUME NEW list, list \in Seq(Cell)
  PROVE  /\ Len(list) \in Nat /\ DOMAIN list = 1..Len(list)
         /\ \A k \in 1..Len(list) : /\ list[k] \in Cell
                                    /\ list[k].delay \in Nat /\ list[k].queue \in QueueMap
<1>1. Len(list) \in Nat /\ DOMAIN list = 1..Len(list) /\ \A k \in 1..Len(list) : list[k] \in Cell
  OBVIOUS
<1>2. \A c \in Cell : c.delay \in Nat /\ c.queue \in QueueMap
  BY DEF Cell
<1> QED
  BY <1>1, <1>2

\* Times are naturals.
LEMMA ElapsedType ==
  ASSUME NEW list, list \in Seq(Cell)
  PROVE  \A k \in 0..Len(list) : Elapsed(list, k) \in Nat
<1> DEFINE S == {k \in 0..Len(list) : Elapsed(list, k) \in Nat}
<1>0. Len(list) \in Nat /\ \A k \in 1..Len(list) : list[k].delay \in Nat
  BY CellsOf
<1>1. 0 \in S
  BY <1>0, ElapsedSum
<1>2. ASSUME NEW n \in 0..(Len(list) - 1), n \in S PROVE n + 1 \in S
  <2>1. n + 1 \in 1..Len(list) /\ (n + 1) - 1 = n
    BY <1>0
  <2>2. Elapsed(list, n + 1) = Elapsed(list, n) + list[n + 1].delay
    BY <1>0, <2>1, ElapsedSum
  <2> QED BY <1>0, <1>2, <2>1, <2>2
<1>3. 0..Len(list) \subseteq S
  <2> HIDE DEF S
  <2> QED BY <1>0, <1>1, <1>2, UpTo
<1> QED
  BY <1>3

\* Later cells are later.
LEMMA ElapsedIncreases ==
  ASSUME NEW list, Increasing(list)
  PROVE  \A i, k \in 1..Len(list) : i < k => Elapsed(list, i) < Elapsed(list, k)
<1>0. /\ Len(list) \in Nat /\ list \in Seq(Cell)
      /\ \A k \in 1..Len(list) : list[k].delay \in Nat /\ (k > 1 => list[k].delay > 0)
  BY CellsOf DEF Increasing
<1>1. \A k \in 0..Len(list) : Elapsed(list, k) \in Nat
  BY <1>0, ElapsedType
<1> SUFFICES ASSUME NEW i \in 1..Len(list)
             PROVE  \A k \in 1..Len(list) : i < k => Elapsed(list, i) < Elapsed(list, k)
  OBVIOUS
<1> DEFINE S == {k \in 0..Len(list) : i < k => Elapsed(list, i) < Elapsed(list, k)}
<1>2. 0 \in S
  BY <1>0
<1>3. ASSUME NEW n \in 0..(Len(list) - 1), n \in S PROVE n + 1 \in S
  <2>1. n + 1 \in 1..Len(list) /\ (n + 1) - 1 = n /\ n \in 0..Len(list) /\ n + 1 \in 0..Len(list)
    BY <1>0
  <2>2. Elapsed(list, n + 1) = Elapsed(list, n) + list[n + 1].delay
    BY <1>0, <2>1, ElapsedSum
  <2>3. list[n + 1].delay \in Nat /\ (n + 1 > 1 => list[n + 1].delay > 0)
    BY <1>0, <2>1
  <2>4. Elapsed(list, n) \in Nat /\ Elapsed(list, i) \in Nat
    BY <1>0, <1>1, <2>1
  <2>5. ASSUME i < n + 1 PROVE Elapsed(list, i) < Elapsed(list, n + 1)
    <3>1. CASE i = n
      BY <2>2, <2>3, <2>4, <3>1
    <3>2. CASE i < n
      BY <1>3, <2>2, <2>3, <2>4, <3>2
    <3> QED BY <2>5, <3>1, <3>2
  <2> QED BY <2>1, <2>5
<1>4. 0..Len(list) \subseteq S
  <2> HIDE DEF S
  <2> QED BY <1>0, <1>2, <1>3, UpTo
<1> QED
  BY <1>4

-----------------------------------------------------------------------------
(* Finding the cell of a time. *)

NoQueue == [q \in Queues |-> <<>>]

\* new is list with a cell for the time d from now, at position at, which was
\* there or is new and empty.
Found(list, d, new, at) ==
  /\ Increasing(new) /\ at \in 1..Len(new) /\ Elapsed(new, at) = d
  /\ \/ new = list
     \/ /\ Len(new) = Len(list) + 1
        /\ new[at].queue = NoQueue
        /\ \A j \in 1..Len(list) : j < at =>
             new[j].queue = list[j].queue /\ Elapsed(new, j) = Elapsed(list, j)
        /\ \A j \in 1..Len(list) : j >= at =>
             new[j + 1].queue = list[j].queue /\ Elapsed(new, j + 1) = Elapsed(list, j)

\* A new cell is an empty cell.
LEMMA NewCellType ==
  ASSUME NEW d \in Nat
  PROVE  NewCell(d) \in Cell /\ NewCell(d).delay = d /\ NewCell(d).queue = NoQueue
<1>1. NoQueue \in QueueMap
  BY DEF NoQueue, QueueMap
<1> QED
  BY <1>1 DEF NewCell, Cell, NoQueue

\* A cell inserted before another, which keeps its time.
LEMMA InsertedCell ==
  ASSUME NEW list, Increasing(list), NEW d \in Nat, NEW k \in 1..Len(list),
         NEW rest \in Nat, d = Elapsed(list, k - 1) + rest, rest < list[k].delay,
         k > 1 => rest > 0,
         NEW new, new \in Seq(Cell), Len(new) = Len(list) + 1,
         \A j \in 1..(k - 1) : new[j] = list[j],
         new[k].delay = rest, new[k].queue = NoQueue,
         new[k + 1].delay = list[k].delay - rest, new[k + 1].queue = list[k].queue,
         \A j \in (k + 1)..Len(list) : new[j + 1] = list[j]
  PROVE  Found(list, d, new, k)
<1>0. /\ Len(list) \in Nat /\ DOMAIN list = 1..Len(list) /\ DOMAIN new = 1..(Len(list) + 1)
      /\ list \in Seq(Cell)
      /\ \A j \in 1..Len(list) : list[j].delay \in Nat /\ (j > 1 => list[j].delay > 0)
  BY CellsOf DEF Increasing
<1> DEFINE f == [j \in 0..Len(new) |-> IF j < k THEN Elapsed(list, j)
                                       ELSE IF j = k THEN d ELSE Elapsed(list, j - 1)]
<1>1. /\ Elapsed(list, 0) = 0
      /\ \A j \in 1..Len(list) : Elapsed(list, j) = Elapsed(list, j - 1) + list[j].delay
      /\ \A j \in 0..Len(list) : Elapsed(list, j) \in Nat
  BY <1>0, ElapsedSum, ElapsedType
<1>2. \A j \in 1..Len(new) : f[j] = f[j - 1] + new[j].delay
  <2> SUFFICES ASSUME NEW j \in 1..Len(new) PROVE f[j] = f[j - 1] + new[j].delay
    OBVIOUS
  <2>1. CASE j < k
    <3>1. f[j] = Elapsed(list, j) /\ f[j - 1] = Elapsed(list, j - 1) /\ new[j] = list[j]
      BY <1>0, <2>1
    <3> QED BY <1>0, <1>1, <2>1, <3>1
  <2>2. CASE j = k
    <3>1. f[j] = d /\ f[j - 1] = Elapsed(list, j - 1)
      BY <1>0, <2>2
    <3> QED BY <1>0, <1>1, <2>2, <3>1
  <2>3. CASE j = k + 1
    <3>0. /\ k + 1 \in 0..Len(new) /\ ~(k + 1 < k) /\ k + 1 # k /\ (k + 1) - 1 = k
          /\ k \in 0..Len(new) /\ ~(k < k)
      BY <1>0
    <3>1. f[j] = Elapsed(list, k) /\ f[j - 1] = d
      BY <2>3, <3>0
    <3>2. Elapsed(list, k) = Elapsed(list, k - 1) + list[k].delay /\ Elapsed(list, k - 1) \in Nat
      BY <1>0, <1>1
    <3> HIDE DEF f
    <3> QED BY <1>0, <2>3, <3>1, <3>2
  <2>4. CASE j > k + 1
    <3>0. /\ j \in 0..Len(new) /\ ~(j < k) /\ j # k
          /\ j - 1 \in 0..Len(new) /\ ~(j - 1 < k) /\ j - 1 # k
      BY <1>0, <2>4
    <3>1. f[j] = Elapsed(list, j - 1) /\ f[j - 1] = Elapsed(list, (j - 1) - 1)
      BY <3>0
    <3>2. j - 1 \in (k + 1)..Len(list) /\ (j - 1) + 1 = j
      BY <1>0, <2>4
    <3>3. new[j] = list[j - 1]
      BY <3>2
    <3> QED BY <1>0, <1>1, <3>1, <3>2, <3>3
  <2> QED BY <2>1, <2>2, <2>3, <2>4
<1>3. f[0] = 0
  BY <1>0, <1>1
<1>4. \A j \in 0..Len(new) : Elapsed(new, j) = f[j]
  <2> HIDE DEF f
  <2>1. Len(new) \in Nat
    BY <1>0
  <2> QED BY <1>2, <1>3, <2>1, SumIsElapsed, ZenonT(60)
<1>5. Increasing(new)
  <2> SUFFICES ASSUME NEW j \in 1..Len(new), j > 1 PROVE new[j].delay > 0
    BY <1>0 DEF Increasing
  <2>1. CASE j < k
    BY <1>0, <2>1
  <2>2. CASE j = k
    BY <2>2
  <2>3. CASE j = k + 1
    BY <1>0, <2>3
  <2>4. CASE j > k + 1
    <3>1. j - 1 \in (k + 1)..Len(list) /\ (j - 1) + 1 = j
      BY <1>0, <2>4
    <3>2. new[j] = list[j - 1]
      BY <3>1
    <3>3. j - 1 \in 1..Len(list) /\ j - 1 > 1
      BY <1>0, <3>1
    <3>4. list[j - 1].delay > 0
      BY <1>0, <3>3
    <3> QED BY <3>2, <3>4
  <2> QED BY <2>1, <2>2, <2>3, <2>4
<1>6. k \in 1..Len(new) /\ Elapsed(new, k) = d
  BY <1>0, <1>4
<1>7. ASSUME NEW j \in 1..Len(list), j < k
      PROVE  new[j].queue = list[j].queue /\ Elapsed(new, j) = Elapsed(list, j)
  BY <1>0, <1>4, <1>7
<1>8. ASSUME NEW j \in 1..Len(list), j >= k
      PROVE  new[j + 1].queue = list[j].queue /\ Elapsed(new, j + 1) = Elapsed(list, j)
  <2>1. j + 1 \in 0..Len(new) /\ ~(j + 1 < k) /\ j + 1 # k /\ (j + 1) - 1 = j
    BY <1>0, <1>8
  <2>2. Elapsed(new, j + 1) = Elapsed(list, j)
    BY <1>4, <2>1
  <2>3. new[j + 1].queue = list[j].queue
    BY <1>0, <1>8
  <2> QED BY <2>2, <2>3
<1> QED
  BY <1>5, <1>6, <1>7, <1>8 DEF Found

\* A cell behind the last one.
LEMMA AppendedCell ==
  ASSUME NEW list, Increasing(list), NEW d \in Nat, NEW more \in Nat,
         d = Elapsed(list, Len(list)) + more, Len(list) > 0 => more > 0
  PROVE  Found(list, d, Append(list, NewCell(more)), Len(list) + 1)
<1> SUFFICES ASSUME NEW new, new = Append(list, NewCell(more))
             PROVE  Found(list, d, new, Len(list) + 1)
  OBVIOUS
<1>0. /\ Len(list) \in Nat /\ DOMAIN list = 1..Len(list)
      /\ list \in Seq(Cell)
      /\ \A j \in 1..Len(list) : list[j].delay \in Nat /\ (j > 1 => list[j].delay > 0)
  BY CellsOf DEF Increasing
<1>1. NewCell(more) \in Cell /\ NewCell(more).delay = more /\ NewCell(more).queue = NoQueue
  BY NewCellType
<1>2. /\ new \in Seq(Cell) /\ Len(new) = Len(list) + 1 /\ DOMAIN new = 1..(Len(list) + 1)
      /\ \A j \in 1..Len(list) : new[j] = list[j]
      /\ new[Len(list) + 1] = NewCell(more)
  BY <1>0, <1>1
<1> DEFINE f == [j \in 0..Len(new) |-> IF j <= Len(list) THEN Elapsed(list, j) ELSE d]
<1>3. /\ Elapsed(list, 0) = 0
      /\ \A j \in 1..Len(list) : Elapsed(list, j) = Elapsed(list, j - 1) + list[j].delay
  BY <1>0, ElapsedSum
<1>4. \A j \in 1..Len(new) : f[j] = f[j - 1] + new[j].delay
  <2> SUFFICES ASSUME NEW j \in 1..Len(new) PROVE f[j] = f[j - 1] + new[j].delay
    OBVIOUS
  <2>1. CASE j <= Len(list)
    <3>1. f[j] = Elapsed(list, j) /\ f[j - 1] = Elapsed(list, j - 1) /\ new[j] = list[j]
      BY <1>0, <1>2, <2>1
    <3> QED BY <1>0, <1>3, <2>1, <3>1
  <2>2. CASE j = Len(list) + 1
    <3>1. f[j] = d /\ f[j - 1] = Elapsed(list, Len(list))
      BY <1>0, <1>2, <2>2
    <3> QED BY <1>1, <1>2, <2>2, <3>1
  <2> QED BY <1>0, <1>2, <2>1, <2>2
<1>5. f[0] = 0
  BY <1>0, <1>2, <1>3
<1>6. \A j \in 0..Len(new) : Elapsed(new, j) = f[j]
  <2> HIDE DEF f
  <2>1. Len(new) \in Nat
    BY <1>0, <1>2
  <2> QED BY <1>4, <1>5, <2>1, SumIsElapsed, Zenon
<1>7. Increasing(new)
  BY <1>0, <1>1, <1>2 DEF Increasing
<1>8. Len(list) + 1 \in 1..Len(new) /\ Elapsed(new, Len(list) + 1) = d
  BY <1>0, <1>2, <1>6
<1>9. ASSUME NEW j \in 1..Len(list)
      PROVE  j < Len(list) + 1 /\ new[j] = list[j] /\ Elapsed(new, j) = Elapsed(list, j)
  <2>1. j < Len(list) + 1 /\ j <= Len(list) /\ j \in 0..Len(new)
    BY <1>0, <1>2
  <2> QED BY <1>2, <1>6, <2>1
<1> HIDE DEF f
<1> QED
  BY <1>1, <1>2, <1>7, <1>8, <1>9 DEF Found

\* t is s with c inserted at position k.
IsInserted(S, s, k, c, t) ==
  /\ t \in Seq(S) /\ Len(t) = Len(s) + 1
  /\ \A j \in 1..(k - 1) : t[j] = s[j]
  /\ t[k] = c
  /\ \A j \in k..Len(s) : t[j + 1] = s[j]

\* InsertAt puts one cell in and keeps the others in order.
LEMMA Inserted ==
  ASSUME NEW S, NEW s \in Seq(S), NEW k \in 1..Len(s), NEW c \in S
  PROVE  IsInserted(S, s, k, c, InsertAt(s, k, c))
<1> DEFINE a == SubSeq(s, 1, k - 1)  b == SubSeq(s, k, Len(s))
<1>1. /\ a \in Seq(S) /\ Len(a) = k - 1 /\ \A j \in 1..(k - 1) : a[j] = s[j]
      /\ b \in Seq(S) /\ Len(b) = Len(s) - k + 1
      /\ \A j \in 1..(Len(s) - k + 1) : b[j] = s[k + j - 1]
  OBVIOUS
<1>2. InsertAt(s, k, c) = (a \o <<c>>) \o b
  BY DEF InsertAt
<1> HIDE DEF a, b
<1>3. /\ a \o <<c>> \in Seq(S) /\ Len(a \o <<c>>) = k
      /\ \A j \in 1..(k - 1) : (a \o <<c>>)[j] = s[j]
      /\ (a \o <<c>>)[k] = c
  <2>1. /\ a \o <<c>> \in Seq(S) /\ Len(a \o <<c>>) = Len(a) + Len(<<c>>)
        /\ \A j \in 1..(Len(a) + Len(<<c>>)) :
             (a \o <<c>>)[j] = IF j <= Len(a) THEN a[j] ELSE <<c>>[j - Len(a)]
    BY <1>1, ConcatProperties
  <2>2. Len(<<c>>) = 1 /\ <<c>>[1] = c /\ k - (k - 1) = 1 /\ (k - 1) + 1 = k /\ ~(k <= k - 1)
    OBVIOUS
  <2>3. \A j \in 1..(k - 1) : j \in 1..k /\ j <= k - 1
    OBVIOUS
  <2>4. Len(a \o <<c>>) = k /\ \A j \in 1..k :
          (a \o <<c>>)[j] = IF j <= k - 1 THEN a[j] ELSE <<c>>[j - (k - 1)]
    BY <1>1, <2>1, <2>2
  <2>5. (a \o <<c>>)[k] = c
    <3>1. k \in 1..k
      OBVIOUS
    <3>2. (a \o <<c>>)[k] = <<c>>[k - (k - 1)]
      BY <2>2, <2>4, <3>1
    <3> QED BY <2>2, <3>2
  <2>6. \A j \in 1..(k - 1) : (a \o <<c>>)[j] = s[j]
    BY <1>1, <2>3, <2>4
  <2> QED BY <2>1, <2>4, <2>5, <2>6
<1> DEFINE ac == a \o <<c>>
<1>4. /\ InsertAt(s, k, c) = ac \o b
      /\ ac \in Seq(S) /\ Len(ac) = k /\ (\A j \in 1..(k - 1) : ac[j] = s[j]) /\ ac[k] = c
  BY <1>2, <1>3
<1> HIDE DEF ac
<1>5. /\ ac \o b \in Seq(S) /\ Len(ac \o b) = Len(s) + 1
      /\ \A j \in 1..k : (ac \o b)[j] = ac[j]
      /\ \A j \in (k + 1)..(Len(s) + 1) : (ac \o b)[j] = b[j - k]
  <2>1. /\ ac \o b \in Seq(S) /\ Len(ac \o b) = Len(ac) + Len(b)
        /\ \A j \in 1..(Len(ac) + Len(b)) :
             (ac \o b)[j] = IF j <= Len(ac) THEN ac[j] ELSE b[j - Len(ac)]
    BY <1>1, <1>4, ConcatProperties
  <2>2. Len(ac) + Len(b) = Len(s) + 1
    BY <1>1, <1>4
  <2>3. \A j \in (k + 1)..(Len(s) + 1) : j \in 1..(Len(s) + 1) /\ ~(j <= k)
    OBVIOUS
  <2>4. \A j \in 1..k : j \in 1..(Len(s) + 1) /\ j <= k
    OBVIOUS
  <2> QED BY <1>4, <2>1, <2>2, <2>3, <2>4
<1>6. ASSUME NEW j \in k..Len(s) PROVE (ac \o b)[j + 1] = s[j]
  <2>1. j + 1 \in (k + 1)..(Len(s) + 1) /\ (j + 1) - k \in 1..(Len(s) - k + 1)
    OBVIOUS
  <2>2. (ac \o b)[j + 1] = b[(j + 1) - k] /\ k + ((j + 1) - k) - 1 = j
    BY <1>5, <2>1
  <2> QED BY <1>1, <2>1, <2>2
<1> QED
  BY <1>4, <1>5, <1>6 DEF IsInserted

\* The walk of schedule_event_ stops somewhere.
LEMMA WalkStops ==
  ASSUME NEW list, Increasing(list), list # <<>>, NEW d \in Nat
  PROVE  \E k \in DOMAIN list : /\ k = Len(list) \/ Elapsed(list, k) >= d
                                /\ \A j \in 1..(k - 1) : Elapsed(list, j) < d
<1>0. /\ Len(list) \in Nat \ {0} /\ DOMAIN list = 1..Len(list)
      /\ \A j \in 1..Len(list) : Elapsed(list, j) \in Nat
  BY CellsOf, ElapsedType DEF Increasing
<1> DEFINE T == {k \in DOMAIN list : k = Len(list) \/ Elapsed(list, k) >= d}
<1>1. T \subseteq Nat /\ T # {}
  BY <1>0
<1>2. PICK k \in T : \A j \in T : k <= j
  <2> HIDE DEF T
  <2> QED BY <1>1, LeastNatural
<1>3. ASSUME NEW j \in 1..(k - 1) PROVE Elapsed(list, j) < d
  <2>1. k \in 1..Len(list) /\ j \in 1..Len(list) /\ ~(k <= j)
    BY <1>0, <1>2
  <2>2. j \notin T
    <3> HIDE DEF T
    <3> QED BY <1>2, <2>1
  <2>3. j # Len(list)
    <3>1. k <= Len(list) /\ j < k
      BY <2>1
    <3> QED BY <2>1, <3>1
  <2>4. ~(Elapsed(list, j) >= d)
    BY <1>0, <2>1, <2>2
  <2>5. Elapsed(list, j) \in Nat
    BY <1>0, <2>1
  <2> QED BY <2>4, <2>5
<1> QED
  BY <1>2, <1>3

\* schedule_event_ finds or makes the cell of the time it is asked for.
LEMMA FindCellFinds ==
  ASSUME NEW list, Increasing(list), NEW d \in Nat
  PROVE  Found(list, d, FindCell(list, d).list, FindCell(list, d).at)
<1>0. /\ Len(list) \in Nat /\ DOMAIN list = 1..Len(list) /\ list \in Seq(Cell)
      /\ \A j \in 1..Len(list) : list[j] \in Cell /\ list[j].delay \in Nat
      /\ \A j \in 0..Len(list) : Elapsed(list, j) \in Nat
  BY CellsOf, ElapsedType DEF Increasing
<1>1. /\ Elapsed(list, 0) = 0
      /\ \A j \in 1..Len(list) : Elapsed(list, j) = Elapsed(list, j - 1) + list[j].delay
  BY <1>0, ElapsedSum
<1>2. CASE list = <<>>
  <2>1. FindCell(list, d) = [list |-> <<NewCell(d)>>, at |-> 1]
    BY <1>2 DEF FindCell
  <2>2. Found(list, d, Append(list, NewCell(d)), Len(list) + 1)
    <3>1. d = Elapsed(list, Len(list)) + d /\ ~(Len(list) > 0)
      BY <1>1, <1>2
    <3> QED BY <3>1, AppendedCell
  <2>3. Append(list, NewCell(d)) = <<NewCell(d)>> /\ Len(list) + 1 = 1
    BY <1>2
  <2> QED BY <2>1, <2>2, <2>3
<1>3. CASE list # <<>>
  <2> DEFINE P(i) == /\ i = Len(list) \/ Elapsed(list, i) >= d
                     /\ \A j \in 1..(i - 1) : Elapsed(list, j) < d
             k    == CHOOSE i \in DOMAIN list : P(i)
             rest == d - Elapsed(list, k - 1)
             short == [list EXCEPT ![k].delay = list[k].delay - rest]
  <2>1. k \in DOMAIN list /\ P(k)
    <3>1. \E i \in DOMAIN list : P(i)
      BY <1>3, WalkStops
    <3> HIDE DEF P
    <3> QED BY <3>1
  <2>2. FindCell(list, d) =
          IF list[k].delay > rest
          THEN [list |-> InsertAt(short, k, NewCell(rest)), at |-> k]
          ELSE IF list[k].delay = rest THEN [list |-> list, at |-> k]
          ELSE [list |-> Append(list, NewCell(rest - list[k].delay)), at |-> k + 1]
    BY <1>3, Zenon DEF FindCell
  <2> HIDE DEF k
  <2>3. k \in 1..Len(list) /\ k - 1 \in 0..Len(list)
    BY <1>0, <2>1
  <2>4. rest \in Nat /\ d = Elapsed(list, k - 1) + rest /\ (k > 1 => rest > 0)
    <3>1. Elapsed(list, k - 1) \in Nat /\ (k = 1 => Elapsed(list, k - 1) = 0)
      BY <1>0, <1>1, <2>3
    <3>2. k > 1 => Elapsed(list, k - 1) < d
      <4>1. k > 1 => k - 1 \in 1..(k - 1)
        BY <2>3
      <4> QED BY <2>1, <4>1
    <3>3. k = 1 \/ k > 1
      BY <2>3
    <3> QED BY <3>1, <3>2, <3>3
  <2>5. Elapsed(list, k) = Elapsed(list, k - 1) + list[k].delay /\ list[k].delay \in Nat
        /\ Elapsed(list, k - 1) \in Nat
    BY <1>0, <1>1, <2>3
  <2>6. CASE list[k].delay > rest
    <3> HIDE DEF rest
    <3>1. NewCell(rest) \in Cell /\ NewCell(rest).delay = rest /\ NewCell(rest).queue = NoQueue
      BY <2>4, NewCellType
    <3>2. [list[k] EXCEPT !.delay = list[k].delay - rest] \in Cell
      <4>1. list[k].delay - rest \in Nat
        BY <2>4, <2>5, <2>6
      <4> QED BY <1>0, <2>3, <4>1 DEF Cell
    <3>3. /\ short \in Seq(Cell) /\ Len(short) = Len(list)
          /\ \A j \in 1..Len(list) : j # k => short[j] = list[j]
          /\ short[k] = [list[k] EXCEPT !.delay = list[k].delay - rest]
      BY <1>0, <2>3, <3>2
    <3>4. short[k].delay = list[k].delay - rest /\ short[k].queue = list[k].queue
      BY <1>0, <2>3, <3>3 DEF Cell
    <3> HIDE DEF short
    <3> DEFINE new == InsertAt(short, k, NewCell(rest))
    <3>5. /\ new \in Seq(Cell) /\ Len(new) = Len(list) + 1
          /\ \A j \in 1..(k - 1) : new[j] = short[j]
          /\ new[k] = NewCell(rest)
          /\ \A j \in k..Len(list) : new[j + 1] = short[j]
      <4> HIDE DEF new
      <4>1. k \in 1..Len(short)
        BY <2>3, <3>3
      <4>2. IsInserted(Cell, short, k, NewCell(rest), InsertAt(short, k, NewCell(rest)))
        BY <3>1, <3>3, <4>1, Inserted
      <4>3. new = InsertAt(short, k, NewCell(rest))
        BY DEF new
      <4> QED BY <3>3, <4>2, <4>3 DEF IsInserted
    <3> HIDE DEF new
    <3>6. /\ \A j \in 1..(k - 1) : new[j] = list[j]
          /\ new[k + 1] = short[k]
          /\ \A j \in (k + 1)..Len(list) : new[j + 1] = list[j]
      <4>1. \A j \in 1..(k - 1) : j \in 1..Len(list) /\ j # k
        BY <1>0, <2>3
      <4>2. \A j \in (k + 1)..Len(list) : j \in 1..Len(list) /\ j \in k..Len(list) /\ j # k
        BY <1>0, <2>3
      <4>3. k \in k..Len(list)
        BY <1>0, <2>3
      <4> QED BY <3>3, <3>5, <4>1, <4>2, <4>3
    <3>7. Found(list, d, new, k)
      BY <2>3, <2>4, <2>6, <3>1, <3>4, <3>5, <3>6, InsertedCell
    <3>8. FindCell(list, d).list = new /\ FindCell(list, d).at = k
      BY <2>2, <2>6 DEF new
    <3> QED BY <3>7, <3>8
  <2>7. CASE list[k].delay = rest
    <3>1. FindCell(list, d).list = list /\ FindCell(list, d).at = k
      BY <2>2, <2>7, <2>4
    <3>2. Found(list, d, list, k)
      BY <2>3, <2>4, <2>5, <2>7 DEF Found
    <3> QED BY <3>1, <3>2
  <2>8. CASE list[k].delay < rest
    <3>1. Elapsed(list, k) < d
      BY <2>4, <2>5, <2>8
    <3>2. k = Len(list)
      BY <1>0, <2>1, <2>3, <3>1
    <3> DEFINE more == rest - list[k].delay
    <3>3. more \in Nat /\ more > 0 /\ d = Elapsed(list, Len(list)) + more
      BY <2>4, <2>5, <2>8, <3>2
    <3>4. FindCell(list, d).list = Append(list, NewCell(more)) /\ FindCell(list, d).at = Len(list) + 1
      BY <2>2, <2>4, <2>5, <2>8, <3>2
    <3> HIDE DEF more
    <3>5. Found(list, d, Append(list, NewCell(more)), Len(list) + 1)
      BY <3>3, AppendedCell
    <3> QED BY <3>4, <3>5
  <2> QED BY <2>4, <2>5, <2>6, <2>7, <2>8
<1> QED
  BY <1>2, <1>3

-----------------------------------------------------------------------------
(* Changing the queues of a cell. *)

\* new is list with the queues nq in its k-th cell.
Requeued(list, k, nq, new) ==
  /\ Increasing(new) /\ Len(new) = Len(list)
  /\ new[k].queue = nq
  /\ \A j \in 1..Len(list) : j # k => new[j].queue = list[j].queue
  /\ \A j \in 1..Len(list) : new[j].delay = list[j].delay
  /\ \A j \in 0..Len(list) : Elapsed(new, j) = Elapsed(list, j)

\* Replacing the queues of one cell changes no time.
LEMMA QueueSet ==
  ASSUME NEW list, Increasing(list), NEW k \in 1..Len(list), NEW nq \in QueueMap
  PROVE  Requeued(list, k, nq, [list EXCEPT ![k].queue = nq])
<1> DEFINE new == [list EXCEPT ![k].queue = nq]
<1>0. /\ Len(list) \in Nat /\ DOMAIN list = 1..Len(list) /\ list \in Seq(Cell)
      /\ \A j \in 1..Len(list) : list[j] \in Cell /\ list[j].delay \in Nat
  BY CellsOf DEF Increasing
<1>1. [list[k] EXCEPT !.queue = nq] \in Cell
  BY <1>0 DEF Cell
<1>2. /\ new \in Seq(Cell) /\ Len(new) = Len(list)
      /\ \A j \in 1..Len(list) : j # k => new[j] = list[j]
      /\ new[k] = [list[k] EXCEPT !.queue = nq]
  BY <1>0, <1>1
<1>3. new[k].delay = list[k].delay /\ new[k].queue = nq
  BY <1>0, <1>2 DEF Cell
<1> HIDE DEF new
<1>4. \A j \in 1..Len(list) : new[j].delay = list[j].delay
  BY <1>2, <1>3
<1>5. \A j \in 0..Len(list) : Elapsed(new, j) = Elapsed(list, j)
  <2> DEFINE f == [j \in 0..Len(list) |-> Elapsed(list, j)]
  <2>1. f[0] = 0 /\ \A j \in 1..Len(new) : f[j] = f[j - 1] + new[j].delay
    <3>1. /\ Elapsed(list, 0) = 0
          /\ \A j \in 1..Len(list) : Elapsed(list, j) = Elapsed(list, j - 1) + list[j].delay
      BY <1>0, ElapsedSum
    <3>2. \A j \in 1..Len(list) : j \in 0..Len(list) /\ j - 1 \in 0..Len(list)
      BY <1>0
    <3> QED BY <1>0, <1>2, <1>4, <3>1, <3>2
  <2>2. Len(new) \in Nat
    BY <1>0, <1>2
  <2>3. \A j \in 0..Len(new) : Elapsed(new, j) = f[j]
    <3> HIDE DEF f
    <3> QED BY <2>1, <2>2, SumIsElapsed, Zenon
  <2> QED BY <1>2, <2>3
<1>6. Increasing(new)
  <2>1. DOMAIN new = DOMAIN list
    BY <1>0, <1>2
  <2> QED BY <1>0, <1>2, <1>4, <2>1 DEF Increasing
<1>7. Requeued(list, k, nq, new)
  BY <1>2, <1>3, <1>4, <1>5, <1>6 DEF Requeued
<1> QED
  BY <1>7 DEF new

\* The same with the update written for one queue.
LEMMA OneQueueSet ==
  ASSUME NEW list, Increasing(list), NEW k \in 1..Len(list), NEW q \in Queues,
         NEW events \in Seq(Event)
  PROVE  /\ [list[k].queue EXCEPT ![q] = events] \in QueueMap
         /\ Requeued(list, k, [list[k].queue EXCEPT ![q] = events],
                     [list EXCEPT ![k].queue[q] = events])
<1>1. list[k].queue \in QueueMap /\ DOMAIN list = 1..Len(list) /\ list[k] \in Cell
  BY CellsOf DEF Increasing
<1>2. [list[k].queue EXCEPT ![q] = events] \in QueueMap
  BY <1>1 DEF QueueMap
<1>3. [list EXCEPT ![k].queue[q] = events]
        = [list EXCEPT ![k].queue = [list[k].queue EXCEPT ![q] = events]]
  BY <1>1 DEF Cell
<1> QED
  BY <1>2, <1>3, QueueSet

\* new is list with e behind queue q of its cell at, which is d from now and
\* held old before.
PlacedAt(list, d, q, e, new, at, old) ==
  /\ Elapsed(new, at) = d
  /\ new[at].queue = [old EXCEPT ![q] = Append(old[q], e)]
  /\ old = NoQueue \/ \E i \in 1..Len(list) : Elapsed(list, i) = d /\ old = list[i].queue
  /\ \A i \in 1..Len(list) : Elapsed(list, i) = d => old = list[i].queue
  /\ \A j \in 1..Len(new) : j # at =>
       \E i \in 1..Len(list) : Elapsed(list, i) = Elapsed(new, j) /\ new[j].queue = list[i].queue
  /\ \A i \in 1..Len(list) : Elapsed(list, i) # d =>
       \E j \in 1..Len(new) : /\ j # at /\ Elapsed(new, j) = Elapsed(list, i)
                              /\ new[j].queue = list[i].queue

Placed(list, d, q, e, new) ==
  /\ Increasing(new) /\ Len(new) >= Len(list)
  /\ \E at \in 1..Len(new) : \E old \in QueueMap : PlacedAt(list, d, q, e, new, at, old)

\* schedule_event_ puts the event behind its queue at its time and changes
\* nothing else.
LEMMA EventIsPlaced ==
  ASSUME NEW list, Increasing(list), NEW d \in Nat, NEW q \in Queues, NEW e \in Event
  PROVE  Placed(list, d, q, e, schedule_event_(list, e, d, q))
<1> DEFINE mid == FindCell(list, d).list  at == FindCell(list, d).at
           new == [mid EXCEPT ![at].queue[q] = Append(mid[at].queue[q], e)]
<1>1. Found(list, d, mid, at)
  BY FindCellFinds
<1>2. schedule_event_(list, e, d, q) = new
  BY DEF schedule_event_, AppendTo
<1> HIDE DEF mid, at
<1>3. /\ Increasing(mid) /\ at \in 1..Len(mid) /\ Elapsed(mid, at) = d
  BY <1>1 DEF Found
<1>4. /\ Len(mid) \in Nat /\ Len(list) \in Nat
      /\ \A j \in 1..Len(mid) : mid[j].queue \in QueueMap
  BY <1>3, CellsOf DEF Increasing
<1> DEFINE old == mid[at].queue
<1>5. old \in QueueMap /\ Append(old[q], e) \in Seq(Event)
  BY <1>3, <1>4 DEF QueueMap
<1>6. Requeued(mid, at, [old EXCEPT ![q] = Append(old[q], e)], new)
  BY <1>3, <1>5, OneQueueSet
<1> HIDE DEF new
<1>7. /\ Increasing(new) /\ Len(new) = Len(mid)
      /\ new[at].queue = [old EXCEPT ![q] = Append(old[q], e)]
      /\ \A j \in 1..Len(mid) : j # at => new[j].queue = mid[j].queue
      /\ \A j \in 1..Len(mid) : Elapsed(new, j) = Elapsed(mid, j)
  BY <1>4, <1>6 DEF Requeued
<1>8. \A i \in 1..Len(mid) : i # at => Elapsed(mid, i) # d
  <2>1. \A i, k \in 1..Len(mid) : i < k => Elapsed(mid, i) < Elapsed(mid, k)
    BY <1>3, ElapsedIncreases
  <2>2. \A i \in 1..Len(mid) : Elapsed(mid, i) \in Nat
    BY <1>3, <1>4, ElapsedType DEF Increasing
  <2>3. \A i \in 1..Len(mid) : i # at => i < at \/ at < i
    BY <1>3
  <2> QED BY <1>3, <2>1, <2>2, <2>3
<1> HIDE DEF old
<1>9. CASE mid = list
  <2>1. \A i \in 1..Len(list) : Elapsed(list, i) = d => old = list[i].queue
    BY <1>8, <1>9 DEF old
  <2>2. Elapsed(list, at) = d /\ old = list[at].queue /\ at \in 1..Len(list)
    BY <1>3, <1>9 DEF old
  <2>3. \A j \in 1..Len(new) : j # at =>
          j \in 1..Len(list) /\ Elapsed(list, j) = Elapsed(new, j) /\ new[j].queue = list[j].queue
    BY <1>7, <1>9
  <2>4. \A i \in 1..Len(list) : Elapsed(list, i) # d =>
          /\ i \in 1..Len(new) /\ i # at /\ Elapsed(new, i) = Elapsed(list, i)
          /\ new[i].queue = list[i].queue
    BY <1>3, <1>7, <1>9
  <2>5. at \in 1..Len(new) /\ Elapsed(new, at) = d
    BY <1>3, <1>7
  <2>6. PlacedAt(list, d, q, e, new, at, old)
    BY <1>7, <2>1, <2>2, <2>3, <2>4, <2>5 DEF PlacedAt
  <2>7. Len(new) >= Len(list)
    BY <1>4, <1>7, <1>9
  <2> QED BY <1>2, <1>5, <1>7, <2>5, <2>6, <2>7 DEF Placed
<1>10. CASE mid # list
  <2>1. /\ Len(mid) = Len(list) + 1 /\ mid[at].queue = NoQueue
        /\ \A j \in 1..Len(list) : j < at =>
             mid[j].queue = list[j].queue /\ Elapsed(mid, j) = Elapsed(list, j)
        /\ \A j \in 1..Len(list) : j >= at =>
             mid[j + 1].queue = list[j].queue /\ Elapsed(mid, j + 1) = Elapsed(list, j)
    BY <1>1, <1>10 DEF Found
  <2>2. at \in 1..Len(new) /\ Elapsed(new, at) = d /\ old = NoQueue
    BY <1>3, <1>7, <2>1 DEF old
  <2>3. ASSUME NEW i \in 1..Len(list)
        PROVE  \E j \in 1..Len(new) : /\ j # at /\ Elapsed(new, j) = Elapsed(list, i)
                                      /\ new[j].queue = list[i].queue
    <3>1. CASE i < at
      <4>1. i \in 1..Len(mid) /\ i # at
        BY <1>3, <1>4, <2>1, <3>1
      <4> QED BY <1>7, <2>1, <3>1, <4>1
    <3>2. CASE i >= at
      <4>1. i + 1 \in 1..Len(mid) /\ i + 1 # at
        BY <1>3, <1>4, <2>1, <3>2
      <4> QED BY <1>7, <2>1, <3>2, <4>1
    <3> QED BY <1>3, <1>4, <3>1, <3>2
  <2>4. ASSUME NEW i \in 1..Len(list) PROVE Elapsed(list, i) # d
    BY <1>7, <1>8, <2>3
  <2>5. ASSUME NEW j \in 1..Len(new), j # at
        PROVE  \E i \in 1..Len(list) : Elapsed(list, i) = Elapsed(new, j)
                                        /\ new[j].queue = list[i].queue
    <3>1. CASE j < at
      <4>1. j \in 1..Len(list) /\ j \in 1..Len(mid)
        BY <1>3, <1>4, <1>7, <2>1, <3>1
      <4> QED BY <1>7, <2>1, <2>5, <3>1, <4>1
    <3>2. CASE j > at
      <4>1. j - 1 \in 1..Len(list) /\ j \in 1..Len(mid) /\ j - 1 >= at /\ (j - 1) + 1 = j
        BY <1>3, <1>4, <1>7, <2>1, <3>2
      <4>2. mid[j].queue = list[j - 1].queue /\ Elapsed(mid, j) = Elapsed(list, j - 1)
        BY <2>1, <4>1
      <4> QED BY <1>7, <2>5, <4>1, <4>2
    <3> QED BY <1>3, <1>4, <1>7, <2>1, <2>5, <3>1, <3>2
  <2>6. PlacedAt(list, d, q, e, new, at, old)
    BY <1>7, <2>2, <2>3, <2>4, <2>5 DEF PlacedAt
  <2>7. Len(new) >= Len(list)
    BY <1>4, <1>7, <2>1
  <2> QED BY <1>2, <1>5, <1>7, <2>2, <2>6, <2>7 DEF Placed
<1> QED
  BY <1>9, <1>10

-----------------------------------------------------------------------------
(* What each operation does to a cell. *)

\* The names of the queues.
LEMMA QueueNames ==
  /\ "start" \in Queues /\ "active" \in Queues /\ "inactive" \in Queues /\ "nbassign" \in Queues
  /\ "rwsync" \in Queues /\ "rosync" \in Queues /\ "del_thr" \in Queues
  BY DEF Queues

\* The queues of a cell.
LEMMA QueueTypes ==
  ASSUME NEW queue \in QueueMap
  PROVE  /\ DOMAIN queue = Queues
         /\ \A q \in Queues : queue[q] \in Seq(Event) /\ DOMAIN queue[q] = 1..Len(queue[q])
                              /\ Len(queue[q]) \in Nat
<1>1. DOMAIN queue = Queues /\ \A q \in Queues : queue[q] \in Seq(Event)
  BY DEF QueueMap
<1> QED
  BY <1>1

\* An empty cell is in order.
LEMMA EmptyCell ==
  ASSUME NEW offset, NEW now, NEW nid, NEW ph, NEW ev
  PROVE  CellCore(NoQueue, offset, now, nid, ph, ev)
<1>1. \A q \in Queues : NoQueue[q] = <<>> /\ DOMAIN NoQueue[q] = {}
  BY DEF NoQueue
<1>2. NoQueue \in QueueMap
  BY DEF NoQueue, QueueMap
<1>3. Distinct(NoQueue)
  BY <1>1 DEF Distinct
<1>4. Staged(NoQueue, ph, ev)
  BY <1>1, QueueNames DEF Staged, NoUpdates, UpdatesFirst
<1> QED
  BY <1>1, <1>2, <1>3, <1>4 DEF CellCore

\* Numbering another event changes nothing for the others.
LEMMA CellGrows ==
  ASSUME NEW queue, NEW offset, NEW now, NEW nid \in Nat, NEW ph, NEW ev,
         CellInv(queue, offset, now, nid, ph, ev)
  PROVE  CellInv(queue, offset, now, nid + 1, ph, ev)
<1>1. \A q \in Queues : \A i \in DOMAIN queue[q] : queue[q][i] \in Event
  <2>1. queue \in QueueMap
    BY DEF CellInv, CellCore
  <2> QED BY <2>1, QueueTypes
<1>2. \A e \in Event : e.id \in Nat
  BY DEF Event
<1>3. \A e \in Event, q \in Queues : Fits(e, q, offset, now, nid) => Fits(e, q, offset, now, nid + 1)
  BY <1>2 DEF Fits
<1> QED
  BY <1>1, <1>3 DEF CellInv, CellCore

\* A sequence of events with one more behind it.
LEMMA Behind ==
  ASSUME NEW s \in Seq(Event), NEW e \in Event
  PROVE  /\ Append(s, e) \in Seq(Event) /\ Len(Append(s, e)) = Len(s) + 1
         /\ DOMAIN Append(s, e) = 1..(Len(s) + 1) /\ DOMAIN s = 1..Len(s) /\ Len(s) \in Nat
         /\ \A i \in 1..Len(s) : Append(s, e)[i] = s[i]
         /\ Append(s, e)[Len(s) + 1] = e
         /\ Append(s, e) # <<>>
<1>1. /\ Append(s, e) \in Seq(Event) /\ Len(Append(s, e)) = Len(s) + 1
      /\ DOMAIN s = 1..Len(s) /\ Len(s) \in Nat
      /\ \A i \in 1..Len(s) : Append(s, e)[i] = s[i]
      /\ Append(s, e)[Len(s) + 1] = e
  OBVIOUS
<1>2. DOMAIN Append(s, e) = 1..(Len(s) + 1)
  BY <1>1
<1>3. Append(s, e) # <<>>
  BY <1>1
<1> QED
  BY <1>1, <1>2, <1>3

\* An event waits in one place.
LEMMA OnePlace ==
  ASSUME NEW queue, Distinct(queue), NEW q \in Queues, NEW r \in Queues,
         NEW i \in DOMAIN queue[q], NEW j \in DOMAIN queue[r],
         queue[q][i] = queue[r][j], queue[q][i].q # "next"
  PROVE  q = r /\ i = j
  BY DEF Distinct

\* A new event behind its queue.
LEMMA CellAppend ==
  ASSUME NEW old, NEW d \in Nat, NEW now \in Nat, NEW nid \in Nat, NEW ph, NEW ev,
         CellCore(old, d, now, nid, ph, ev),
         NEW q \in Queues, NEW e \in Event, e.id = nid, e.q = q, e.due = now + d,
         q = "nbassign" => e.kind = "update", q = "del_thr" => e.kind = "reap",
         d = 0 => /\ q # "start" /\ ph # "del_thr"
                  /\ ph = "rosync" => q \in {"rosync", "del_thr"}
  PROVE  CellInv([old EXCEPT ![q] = Append(old[q], e)], d, now, nid + 1, ph, ev)
<1> DEFINE new == [old EXCEPT ![q] = Append(old[q], e)]
<1>0. old \in QueueMap
  BY DEF CellCore
<1>1. /\ DOMAIN old = Queues
      /\ \A r \in Queues : old[r] \in Seq(Event) /\ DOMAIN old[r] = 1..Len(old[r])
                           /\ Len(old[r]) \in Nat
  BY <1>0, QueueTypes
<1>2. /\ Append(old[q], e) \in Seq(Event)
      /\ DOMAIN Append(old[q], e) = 1..(Len(old[q]) + 1)
      /\ \A i \in 1..Len(old[q]) : Append(old[q], e)[i] = old[q][i]
      /\ Append(old[q], e)[Len(old[q]) + 1] = e
      /\ Append(old[q], e) # <<>>
  BY <1>1, Behind
<1>3. new[q] = Append(old[q], e) /\ \A r \in Queues : r # q => new[r] = old[r]
  BY <1>1
<1>4. new \in QueueMap
  BY <1>0, <1>2 DEF QueueMap
<1> HIDE DEF new
<1>5. \* what the events of the new queues are
      \A r \in Queues : \A i \in DOMAIN new[r] :
         \/ i \in DOMAIN old[r] /\ new[r][i] = old[r][i]
         \/ r = q /\ i = Len(old[q]) + 1 /\ new[r][i] = e
  <2> SUFFICES ASSUME NEW r \in Queues, NEW i \in DOMAIN new[r]
               PROVE  \/ i \in DOMAIN old[r] /\ new[r][i] = old[r][i]
                      \/ r = q /\ i = Len(old[q]) + 1 /\ new[r][i] = e
    OBVIOUS
  <2>1. CASE r # q
    BY <1>3, <2>1
  <2>2. CASE r = q
    <3>1. i \in 1..(Len(old[q]) + 1)
      BY <1>2, <1>3, <2>2
    <3>2. i \in 1..Len(old[q]) \/ i = Len(old[q]) + 1
      BY <1>1, <3>1
    <3> QED BY <1>1, <1>2, <1>3, <2>2, <3>2
  <2> QED BY <2>1, <2>2
<1>6. /\ \A r \in Queues : \A i \in DOMAIN old[r] : Fits(old[r][i], r, d, now, nid)
                                                     /\ old[r][i] \in Event
      /\ Distinct(old)
  BY <1>1 DEF CellCore
<1>7. \A x \in Event : x.id \in Nat
  BY DEF Event
<1>8. \A r \in Queues : \A i \in DOMAIN new[r] : Fits(new[r][i], r, d, now, nid + 1)
  <2>1. Fits(e, q, d, now, nid + 1)
    BY DEF Fits
  <2>2. \A x \in Event, r \in Queues : Fits(x, r, d, now, nid) => Fits(x, r, d, now, nid + 1)
    BY <1>7 DEF Fits
  <2> QED BY <1>5, <1>6, <2>1, <2>2
<1>9. Distinct(new)
  <2> SUFFICES ASSUME NEW r \in Queues, NEW t \in Queues, NEW i \in DOMAIN new[r],
                      NEW j \in DOMAIN new[t], new[r][i] = new[t][j], new[r][i].q # "next"
               PROVE  r = t /\ i = j
    BY DEF Distinct
  <2>1. \A x \in Queues : \A k \in DOMAIN old[x] : old[x][k] # e
    BY <1>6, <1>7 DEF Fits
  <2>2. CASE i \in DOMAIN old[r] /\ new[r][i] = old[r][i] /\ j \in DOMAIN old[t] /\ new[t][j] = old[t][j]
    <3>1. old[r][i] = old[t][j] /\ old[r][i].q # "next"
      BY <2>2
    <3> QED BY <1>6, <2>2, <3>1, OnePlace
  <2> QED BY <1>5, <2>1, <2>2
<1>10. ASSUME d = 0 PROVE Staged(new, ph, ev)
  <2>1. Staged(old, ph, ev)
    BY <1>10 DEF CellCore
  <2>2. ASSUME q = "active", NoUpdates(old["active"]) PROVE NoUpdates(new["active"])
    BY <1>5, <2>2, QueueNames DEF NoUpdates
  <2>3. ASSUME q = "active", UpdatesFirst(old["active"]) PROVE UpdatesFirst(new["active"])
    <3> SUFFICES ASSUME NEW i \in DOMAIN new["active"], NEW j \in DOMAIN new["active"],
                        i < j, new["active"][j].q = "nbassign"
                 PROVE  new["active"][i].q = "nbassign"
      BY DEF UpdatesFirst
    <3>1. j \in DOMAIN old["active"] /\ new["active"][j] = old["active"][j]
      BY <1>5, <2>3, QueueNames
    <3>2. i \in DOMAIN old["active"] /\ new["active"][i] = old["active"][i]
      <4>1. i \in 1..(Len(old["active"]) + 1) /\ j \in 1..Len(old["active"])
        BY <1>1, <1>2, <1>3, <2>3, <3>1, QueueNames
      <4>2. i # Len(old["active"]) + 1
        BY <1>1, <4>1, QueueNames
      <4> QED BY <1>5, <2>3, <4>2, QueueNames
    <3> QED BY <2>3, <3>1, <3>2 DEF UpdatesFirst
  <2>4. q # "active" => new["active"] = old["active"]
    BY <1>3, QueueNames
  <2>5. /\ new["start"] = old["start"]
        /\ ph = "rosync" => /\ new["active"] = old["active"] /\ new["inactive"] = old["inactive"]
                            /\ new["nbassign"] = old["nbassign"] /\ new["rwsync"] = old["rwsync"]
    BY <1>3, <1>10, QueueNames
  <2> QED BY <1>10, <2>1, <2>2, <2>3, <2>4, <2>5 DEF Staged
<1>11. \E r \in Queues : new[r] # <<>>
  BY <1>2, <1>3
<1>12. CellInv(new, d, now, nid + 1, ph, ev)
  BY <1>4, <1>8, <1>9, <1>10, <1>11 DEF CellInv, CellCore
<1> QED
  BY <1>12 DEF new

\* schedule_event_push_: a thread in front of everything active.
LEMMA CellPush ==
  ASSUME NEW old, NEW now \in Nat, NEW nid \in Nat, NEW ph, NEW ev,
         CellCore(old, 0, now, nid, ph, ev),
         NEW e \in Event, e.id = nid, e.q = "active", e.due = now,
         ph \notin {"rosync", "del_thr", "stop"},
         ph = "loop" => ev # None /\ ev.q # "nbassign"
  PROVE  /\ <<e>> \o old["active"] \in Seq(Event)
         /\ CellInv([old EXCEPT !["active"] = <<e>> \o old["active"]], 0, now, nid + 1, ph, ev)
<1> DEFINE s == old["active"]  t == <<e>> \o s
           new == [old EXCEPT !["active"] = t]
<1>0. old \in QueueMap
  BY DEF CellCore
<1>1. /\ DOMAIN old = Queues
      /\ \A r \in Queues : old[r] \in Seq(Event) /\ DOMAIN old[r] = 1..Len(old[r])
                           /\ Len(old[r]) \in Nat
  BY <1>0, QueueTypes
<1>2. s \in Seq(Event) /\ DOMAIN s = 1..Len(s) /\ Len(s) \in Nat
  BY <1>1, QueueNames
<1>3. t \in Seq(Event) /\ Len(t) = Len(s) + 1 /\ DOMAIN t = 1..(Len(s) + 1)
      /\ t[1] = e /\ \A i \in 2..(Len(s) + 1) : t[i] = s[i - 1]
  <2> HIDE DEF s
  <2>1. <<e>> \in Seq(Event) /\ Len(<<e>>) = 1 /\ <<e>>[1] = e
    OBVIOUS
  <2>2. /\ t \in Seq(Event) /\ Len(t) = Len(<<e>>) + Len(s)
        /\ \A i \in 1..(Len(<<e>>) + Len(s)) :
              t[i] = IF i <= Len(<<e>>) THEN <<e>>[i] ELSE s[i - Len(<<e>>)]
    BY <1>2, <2>1, ConcatProperties
  <2> HIDE DEF t
  <2>3. Len(t) = Len(s) + 1 /\ DOMAIN t = 1..(Len(s) + 1)
    BY <1>2, <2>1, <2>2
  <2>4. \A i \in 1..(Len(s) + 1) : t[i] = IF i <= 1 THEN <<e>>[i] ELSE s[i - 1]
    BY <1>2, <2>1, <2>2
  <2>5. t[1] = e
    BY <1>2, <2>1, <2>4
  <2>6. \A i \in 2..(Len(s) + 1) : t[i] = s[i - 1]
    BY <1>2, <2>4
  <2> QED BY <2>2, <2>3, <2>5, <2>6
<1>4. new["active"] = t /\ \A r \in Queues : r # "active" => new[r] = old[r]
  BY <1>1, QueueNames
<1>5. new \in QueueMap
  BY <1>0, <1>3 DEF QueueMap
<1> HIDE DEF new, t, s
<1>6. ASSUME NEW i \in DOMAIN t
      PROVE  (i = 1 /\ t[i] = e) \/ (i - 1 \in DOMAIN s /\ t[i] = s[i - 1])
  <2>1. i = 1 \/ i \in 2..(Len(s) + 1)
    BY <1>2, <1>3
  <2> QED BY <1>2, <1>3, <2>1
<1>7. /\ \A r \in Queues : \A i \in DOMAIN old[r] : Fits(old[r][i], r, 0, now, nid)
                                                     /\ old[r][i] \in Event
      /\ Distinct(old)
  BY <1>1 DEF CellCore
<1>8. \A x \in Event : x.id \in Nat
  BY DEF Event
<1>9. \A r \in Queues : \A i \in DOMAIN new[r] : Fits(new[r][i], r, 0, now, nid + 1)
  <2>1. Fits(e, "active", 0, now, nid + 1)
    BY DEF Fits
  <2>2. \A x \in Event, r \in Queues : Fits(x, r, 0, now, nid) => Fits(x, r, 0, now, nid + 1)
    BY <1>8 DEF Fits
  <2>3. \A i \in DOMAIN s : Fits(s[i], "active", 0, now, nid) /\ s[i] \in Event
    BY <1>7, QueueNames DEF s
  <2>4. \A i \in DOMAIN t : Fits(t[i], "active", 0, now, nid + 1)
    BY <1>6, <2>1, <2>2, <2>3, QueueNames
  <2> QED BY <1>4, <1>7, <2>2, <2>4
<1>10. Distinct(new)
  <2> SUFFICES ASSUME NEW r \in Queues, NEW x \in Queues, NEW i \in DOMAIN new[r],
                      NEW j \in DOMAIN new[x], new[r][i] = new[x][j], new[r][i].q # "next"
               PROVE  r = x /\ i = j
    BY DEF Distinct
  <2>1. \A y \in Queues : \A k \in DOMAIN old[y] : old[y][k] # e
    BY <1>7, <1>8 DEF Fits
  <2>2. CASE r # "active" /\ x # "active"
    <3>1. new[r] = old[r] /\ new[x] = old[x]
      BY <1>4, <2>2
    <3> QED BY <1>7, <3>1, OnePlace
  <2>3. CASE r = "active" /\ x # "active"
    <3>1. new[r] = t /\ new[x] = old[x]
      BY <1>4, <2>3
    <3>2. t[i] # e
      BY <2>1, <3>1
    <3>3. i - 1 \in DOMAIN old["active"] /\ t[i] = old["active"][i - 1]
      BY <1>6, <3>1, <3>2 DEF s
    <3> QED BY <1>7, <2>3, <3>1, <3>3, OnePlace, QueueNames
  <2>4. CASE r # "active" /\ x = "active"
    <3>1. new[x] = t /\ new[r] = old[r]
      BY <1>4, <2>4
    <3>2. t[j] # e
      BY <2>1, <3>1
    <3>3. j - 1 \in DOMAIN old["active"] /\ t[j] = old["active"][j - 1]
      BY <1>6, <3>1, <3>2 DEF s
    <3> QED BY <1>7, <2>4, <3>1, <3>3, OnePlace, QueueNames
  <2>5. CASE r = "active" /\ x = "active"
    <3>1. new[r] = t /\ new[x] = t
      BY <1>4, <2>5
    <3>2. \A k \in DOMAIN s : s[k] # e
      BY <2>1, QueueNames DEF s
    <3>3. CASE i - 1 \in DOMAIN s /\ t[i] = s[i - 1] /\ j - 1 \in DOMAIN s /\ t[j] = s[j - 1]
      <4>1. i - 1 = j - 1
        <5>1. s[i - 1] = s[j - 1] /\ s[i - 1].q # "next"
          BY <3>1, <3>3
        <5> QED BY <1>7, <3>3, <5>1, OnePlace, QueueNames DEF s
      <4>2. i \in 1..(Len(s) + 1) /\ j \in 1..(Len(s) + 1)
        BY <1>3, <3>1
      <4> QED BY <1>2, <2>5, <4>1, <4>2
    <3> QED BY <1>6, <2>5, <3>1, <3>2, <3>3
  <2> QED BY <2>2, <2>3, <2>4, <2>5
<1>11. Staged(new, ph, ev)
  <2>1. Staged(old, ph, ev)
    BY DEF CellCore
  <2>2. ASSUME NoUpdates(old["active"]) PROVE NoUpdates(new["active"]) /\ UpdatesFirst(new["active"])
    <3>1. \A i \in DOMAIN t : t[i].q # "nbassign"
      BY <1>6, <2>2 DEF NoUpdates, s
    <3> QED BY <1>4, <3>1 DEF NoUpdates, UpdatesFirst
  <2>3. ph = "loop" => NoUpdates(old["active"])
    BY <2>1 DEF Staged
  <2>4. new["start"] = old["start"]
    BY <1>4, QueueNames
  <2> QED BY <2>1, <2>2, <2>3, <2>4 DEF Staged
<1>12. CellInv(new, 0, now, nid + 1, ph, ev)
  BY <1>5, <1>9, <1>10, <1>11 DEF CellInv, CellCore
<1>13. <<e>> \o old["active"] \in Seq(Event)
  BY <1>3 DEF t, s
<1> QED
  BY <1>12, <1>13 DEF new, t, s

\* The rest of a queue.
LEMMA Rest ==
  ASSUME NEW s \in Seq(Event), s # <<>>
  PROVE  /\ Tail(s) \in Seq(Event) /\ Head(s) = s[1] /\ 1 \in DOMAIN s
         /\ \A i \in DOMAIN Tail(s) : i + 1 \in DOMAIN s /\ Tail(s)[i] = s[i + 1] /\ i \in Nat
         /\ \A i \in DOMAIN s : i # 1 => i - 1 \in DOMAIN Tail(s) /\ Tail(s)[i - 1] = s[i]
<1>1. /\ Tail(s) \in Seq(Event) /\ Head(s) = s[1] /\ Len(Tail(s)) = Len(s) - 1
      /\ Len(s) \in Nat \ {0} /\ DOMAIN s = 1..Len(s) /\ DOMAIN Tail(s) = 1..(Len(s) - 1)
      /\ \A i \in 1..(Len(s) - 1) : Tail(s)[i] = s[i + 1]
  OBVIOUS
<1>2. \A i \in 1..Len(s) : i # 1 => i - 1 \in 1..(Len(s) - 1) /\ (i - 1) + 1 = i
  BY <1>1
<1>3. \A i \in 1..(Len(s) - 1) : i + 1 \in 1..Len(s) /\ i \in Nat
  BY <1>1
<1>4. \A i \in DOMAIN s : i # 1 => i - 1 \in DOMAIN Tail(s) /\ Tail(s)[i - 1] = s[i]
  BY <1>1, <1>2
<1> QED
  BY <1>1, <1>3, <1>4

\* schedule_simulate takes the first event off a queue and executes it.
LEMMA CellTake ==
  ASSUME NEW old, NEW now \in Nat, NEW nid \in Nat, NEW ph, NEW ev,
         CellCore(old, 0, now, nid, ph, ev), NEW q \in Queues, old[q] # <<>>,
         ph = "loop" => q = "active"
  PROVE  /\ Tail(old[q]) \in Seq(Event)
         /\ CellInv([old EXCEPT ![q] = Tail(old[q])], 0, now, nid, ph, Head(old[q]))
<1> DEFINE new == [old EXCEPT ![q] = Tail(old[q])]
<1>0. old \in QueueMap
  BY DEF CellCore
<1>1. DOMAIN old = Queues /\ \A r \in Queues : old[r] \in Seq(Event)
  BY <1>0, QueueTypes
<1>2. /\ Tail(old[q]) \in Seq(Event) /\ Head(old[q]) = old[q][1] /\ 1 \in DOMAIN old[q]
      /\ \A i \in DOMAIN Tail(old[q]) : /\ i + 1 \in DOMAIN old[q] /\ Tail(old[q])[i] = old[q][i + 1]
                                        /\ i \in Nat
  BY <1>1, Rest
<1>3. new[q] = Tail(old[q]) /\ \A r \in Queues : r # q => new[r] = old[r]
  BY <1>1
<1>4. new \in QueueMap
  BY <1>0, <1>2 DEF QueueMap
<1> HIDE DEF new
<1>5. /\ \A r \in Queues : \A i \in DOMAIN old[r] : Fits(old[r][i], r, 0, now, nid)
      /\ Distinct(old) /\ Staged(old, ph, ev)
  BY DEF CellCore
<1>6. \A r \in Queues : \A i \in DOMAIN new[r] : Fits(new[r][i], r, 0, now, nid)
  <2> SUFFICES ASSUME NEW r \in Queues, NEW i \in DOMAIN new[r]
               PROVE  Fits(new[r][i], r, 0, now, nid)
    OBVIOUS
  <2>1. CASE r # q
    BY <1>3, <1>5, <2>1
  <2>2. CASE r = q
    BY <1>2, <1>3, <1>5, <2>2
  <2> QED BY <2>1, <2>2
<1>7. Distinct(new)
  <2> SUFFICES ASSUME NEW r \in Queues, NEW x \in Queues, NEW i \in DOMAIN new[r],
                      NEW j \in DOMAIN new[x], new[r][i] = new[x][j], new[r][i].q # "next"
               PROVE  r = x /\ i = j
    BY DEF Distinct
  <2>1. CASE r # q /\ x # q
    BY <1>3, <1>5, <2>1, OnePlace
  <2>2. CASE r = q /\ x # q
    <3>1. /\ i + 1 \in DOMAIN old[r] /\ new[r][i] = old[r][i + 1]
          /\ j \in DOMAIN old[x] /\ new[x][j] = old[x][j]
      BY <1>2, <1>3, <2>2
    <3>2. old[r][i + 1] = old[x][j] /\ old[r][i + 1].q # "next"
      BY <3>1
    <3>3. r = x
      BY <1>5, <3>1, <3>2, OnePlace
    <3> QED BY <2>2, <3>3
  <2>3. CASE r # q /\ x = q
    <3>1. /\ j + 1 \in DOMAIN old[x] /\ new[x][j] = old[x][j + 1]
          /\ i \in DOMAIN old[r] /\ new[r][i] = old[r][i]
      BY <1>2, <1>3, <2>3
    <3>2. old[r][i] = old[x][j + 1] /\ old[r][i].q # "next"
      BY <3>1
    <3>3. r = x
      BY <1>5, <3>1, <3>2, OnePlace
    <3> QED BY <2>3, <3>3
  <2>4. CASE r = q /\ x = q
    <3>1. i \in DOMAIN Tail(old[q]) /\ j \in DOMAIN Tail(old[q])
      BY <1>3, <2>4
    <3>2. /\ i + 1 \in DOMAIN old[q] /\ j + 1 \in DOMAIN old[q]
          /\ old[q][i + 1] = old[q][j + 1] /\ old[q][i + 1].q # "next"
      BY <1>2, <1>3, <2>4, <3>1
    <3>3. i + 1 = j + 1
      BY <1>5, <3>2, OnePlace
    <3>4. i \in Nat /\ j \in Nat
      BY <1>2, <3>1
    <3> QED BY <2>4, <3>3, <3>4
  <2> QED BY <2>1, <2>2, <2>3, <2>4
<1>8. Staged(new, ph, Head(old[q]))
  <2>1. \A r \in Queues : old[r] = <<>> => new[r] = <<>>
    BY <1>3
  <2>2. ASSUME NoUpdates(old["active"]) PROVE NoUpdates(new["active"])
    <3>1. CASE q = "active"
      <4>1. \A i \in DOMAIN new["active"] :
              i + 1 \in DOMAIN old["active"] /\ new["active"][i] = old["active"][i + 1]
        BY <1>2, <1>3, <3>1
      <4> QED BY <2>2, <4>1 DEF NoUpdates
    <3>2. CASE q # "active"
      BY <1>3, <2>2, <3>2, QueueNames
    <3> QED BY <3>1, <3>2
  <2>3. ASSUME UpdatesFirst(old["active"]) PROVE UpdatesFirst(new["active"])
    <3>1. CASE q = "active"
      <4> SUFFICES ASSUME NEW i \in DOMAIN new["active"], NEW j \in DOMAIN new["active"],
                          i < j, new["active"][j].q = "nbassign"
                   PROVE  new["active"][i].q = "nbassign"
        BY DEF UpdatesFirst
      <4>1. /\ i + 1 \in DOMAIN old["active"] /\ j + 1 \in DOMAIN old["active"] /\ i \in Nat /\ j \in Nat
            /\ new["active"][i] = old["active"][i + 1] /\ new["active"][j] = old["active"][j + 1]
        BY <1>2, <1>3, <3>1
      <4>2. i + 1 < j + 1
        BY <4>1
      <4> QED BY <2>3, <4>1, <4>2 DEF UpdatesFirst
    <3>2. CASE q # "active"
      BY <1>3, <2>3, <3>2, QueueNames
    <3> QED BY <3>1, <3>2
  <2>4. ASSUME ph = "loop", Head(old[q]).q # "nbassign" PROVE NoUpdates(new["active"])
    <3> SUFFICES ASSUME NEW i \in DOMAIN new["active"], new["active"][i].q = "nbassign" PROVE FALSE
      BY DEF NoUpdates
    <3>1. q = "active" /\ UpdatesFirst(old["active"])
      BY <1>5, <2>4 DEF Staged
    <3>2. /\ i + 1 \in DOMAIN old["active"] /\ 1 \in DOMAIN old["active"] /\ i \in DOMAIN Tail(old["active"])
          /\ old["active"][i + 1].q = "nbassign" /\ old["active"][1].q # "nbassign"
      BY <1>2, <1>3, <2>4, <3>1
    <3>3. 1 < i + 1
      <4>1. DOMAIN Tail(old["active"]) = 1..Len(Tail(old["active"]))
        BY <1>2, <3>1
      <4> QED BY <3>2, <4>1
    <3> QED BY <3>1, <3>2, <3>3 DEF UpdatesFirst
  <2> QED BY <1>5, <2>1, <2>2, <2>3, <2>4, QueueNames DEF Staged
<1>9. CellInv(new, 0, now, nid, ph, Head(old[q]))
  BY <1>4, <1>6, <1>7, <1>8 DEF CellInv, CellCore
<1> QED
  BY <1>2, <1>9 DEF new

\* The first region with events becomes the active one.
LEMMA CellPromote ==
  ASSUME NEW old, NEW now \in Nat, NEW nid \in Nat,
         CellCore(old, 0, now, nid, "loop", None),
         NEW region \in {"active", "inactive", "nbassign", "rwsync"},
         region # "active" => old["active"] = <<>>
  PROVE  CellCore([old EXCEPT ![region] = <<>>, !["active"] = old[region]], 0, now, nid, "loop", None)
<1> DEFINE new == [old EXCEPT ![region] = <<>>, !["active"] = old[region]]
<1>0. old \in QueueMap /\ region \in Queues
  BY QueueNames DEF CellCore
<1>1. DOMAIN old = Queues /\ \A r \in Queues : old[r] \in Seq(Event)
  BY <1>0, QueueTypes
<1>2. /\ new["active"] = old[region]
      /\ region # "active" => new[region] = <<>>
      /\ \A r \in Queues : r # region /\ r # "active" => new[r] = old[r]
  BY <1>0, <1>1, QueueNames
<1>3. new \in QueueMap
  <2>1. <<>> \in Seq(Event)
    OBVIOUS
  <2> QED BY <1>0, <1>1, <2>1 DEF QueueMap
<1> HIDE DEF new
<1>4. /\ \A r \in Queues : \A i \in DOMAIN old[r] : Fits(old[r][i], r, 0, now, nid)
      /\ Distinct(old) /\ Staged(old, "loop", None)
  BY DEF CellCore
<1>5. CASE region = "active"
  <2>1. \A r \in Queues : new[r] = old[r]
    BY <1>2, <1>5
  <2>2. new = old
    <3>1. new = [r \in Queues |-> new[r]] /\ old = [r \in Queues |-> old[r]]
      BY <1>0, <1>3 DEF QueueMap
    <3>2. [r \in Queues |-> new[r]] = [r \in Queues |-> old[r]]
      BY <2>1
    <3> QED BY <3>1, <3>2
  <2> QED BY <2>2 DEF new
<1>6. CASE region # "active"
  <2>0. DOMAIN <<>> = {}
    OBVIOUS
  <2>1. ASSUME NEW r \in Queues, NEW i \in DOMAIN new[r]
        PROVE  \/ r # "active" /\ r # region /\ i \in DOMAIN old[r] /\ new[r][i] = old[r][i]
               \/ r = "active" /\ i \in DOMAIN old[region] /\ new[r][i] = old[region][i]
    <3>1. r # region
      BY <1>2, <1>6, <2>0, <2>1
    <3> QED BY <1>2, <2>1, <3>1
  <2>2. \A i \in DOMAIN old[region] : old[region][i].q = region /\ Fits(old[region][i], "active", 0, now, nid)
    <3> SUFFICES ASSUME NEW i \in DOMAIN old[region]
                 PROVE  old[region][i].q = region /\ Fits(old[region][i], "active", 0, now, nid)
      OBVIOUS
    <3>1. Fits(old[region][i], region, 0, now, nid)
      BY <1>0, <1>4
    <3> QED BY <1>6, <3>1 DEF Fits
  <2>3. \A r \in Queues : \A i \in DOMAIN new[r] : Fits(new[r][i], r, 0, now, nid)
    BY <1>4, <2>1, <2>2
  <2>4. Distinct(new)
    <3> SUFFICES ASSUME NEW r \in Queues, NEW x \in Queues, NEW i \in DOMAIN new[r],
                        NEW j \in DOMAIN new[x], new[r][i] = new[x][j], new[r][i].q # "next"
                 PROVE  r = x /\ i = j
      BY DEF Distinct
    <3>1. CASE r # "active" /\ x # "active"
      <4>1. i \in DOMAIN old[r] /\ new[r][i] = old[r][i] /\ j \in DOMAIN old[x] /\ new[x][j] = old[x][j]
        BY <2>1, <3>1
      <4>2. old[r][i] = old[x][j] /\ old[r][i].q # "next"
        BY <4>1
      <4> QED BY <1>4, <4>1, <4>2, OnePlace
    <3>2. CASE r = "active" /\ x # "active"
      <4>1. /\ i \in DOMAIN old[region] /\ new[r][i] = old[region][i]
            /\ j \in DOMAIN old[x] /\ new[x][j] = old[x][j] /\ x # region
        BY <2>1, <3>2
      <4>2. old[region][i] = old[x][j] /\ old[region][i].q # "next"
        BY <4>1
      <4> QED BY <1>0, <1>4, <4>1, <4>2, OnePlace
    <3>3. CASE r # "active" /\ x = "active"
      <4>1. /\ i \in DOMAIN old[r] /\ new[r][i] = old[r][i] /\ r # region
            /\ j \in DOMAIN old[region] /\ new[x][j] = old[region][j]
        BY <2>1, <3>3
      <4>2. old[r][i] = old[region][j] /\ old[r][i].q # "next"
        BY <4>1
      <4> QED BY <1>0, <1>4, <4>1, <4>2, OnePlace
    <3>4. CASE r = "active" /\ x = "active"
      <4>1. /\ i \in DOMAIN old[region] /\ new[r][i] = old[region][i]
            /\ j \in DOMAIN old[region] /\ new[x][j] = old[region][j]
        BY <2>1, <3>4
      <4>2. old[region][i] = old[region][j] /\ old[region][i].q # "next"
        BY <4>1
      <4>3. i = j
        BY <1>0, <1>4, <4>1, <4>2, OnePlace
      <4> QED BY <3>4, <4>3
    <3> QED BY <3>1, <3>2, <3>3, <3>4
  <2>5. UpdatesFirst(new["active"])
    BY <1>2, <2>2 DEF UpdatesFirst
  <2>6. new["start"] = <<>>
    <3>1. old["start"] = <<>>
      BY <1>4 DEF Staged
    <3> QED BY <1>2, <3>1, QueueNames
  <2>7. Staged(new, "loop", None)
    BY <2>5, <2>6 DEF Staged
  <2>8. CellCore(new, 0, now, nid, "loop", None)
    BY <1>3, <2>3, <2>4, <2>7 DEF CellCore
  <2> QED BY <2>8 DEF new
<1> QED
  BY <1>5, <1>6

\* Time advances to a cell; NextSimTime callbacks come in front of its own
\* start callbacks.
LEMMA CellAdvance ==
  ASSUME NEW old, NEW d \in Nat, d > 0, NEW now \in Nat, NEW nid \in Nat, NEW ph, NEW ev,
         CellInv(old, d, now, nid, ph, ev),
         NEW front \in Seq(Event),
         \A i \in DOMAIN front : front[i].q = "next" /\ front[i].due <= now /\ front[i].id < nid
  PROVE  /\ front \o old["start"] \in Seq(Event)
         /\ CellInv([old EXCEPT !["start"] = front \o old["start"]], 0, now + d, nid, "start", None)
<1> DEFINE s == old["start"]  t == front \o s
           new == [old EXCEPT !["start"] = t]
<1>0. old \in QueueMap
  BY DEF CellInv, CellCore
<1>1. DOMAIN old = Queues /\ \A r \in Queues : old[r] \in Seq(Event)
  BY <1>0, QueueTypes
<1>2. s \in Seq(Event) /\ DOMAIN s = 1..Len(s) /\ Len(s) \in Nat /\ Len(front) \in Nat
      /\ DOMAIN front = 1..Len(front)
  BY <1>1, QueueNames
<1>3. /\ t \in Seq(Event) /\ DOMAIN t = 1..(Len(front) + Len(s))
      /\ \A i \in 1..(Len(front) + Len(s)) :
           t[i] = IF i <= Len(front) THEN front[i] ELSE s[i - Len(front)]
  <2> HIDE DEF s
  <2>1. /\ t \in Seq(Event) /\ Len(t) = Len(front) + Len(s)
        /\ \A i \in 1..(Len(front) + Len(s)) :
             t[i] = IF i <= Len(front) THEN front[i] ELSE s[i - Len(front)]
    BY <1>2, ConcatProperties
  <2> HIDE DEF t
  <2> QED BY <1>2, <2>1
<1>4. new["start"] = t /\ \A r \in Queues : r # "start" => new[r] = old[r]
  BY <1>1, QueueNames
<1>5. new \in QueueMap
  BY <1>0, <1>3 DEF QueueMap
<1> HIDE DEF new, t, s
<1>6. ASSUME NEW i \in DOMAIN t
      PROVE  \/ i \in DOMAIN front /\ t[i] = front[i]
             \/ i - Len(front) \in DOMAIN s /\ t[i] = s[i - Len(front)]
  <2>1. i \in 1..(Len(front) + Len(s))
    BY <1>3
  <2>2. CASE i <= Len(front)
    BY <1>2, <1>3, <2>1, <2>2
  <2>3. CASE ~(i <= Len(front))
    <3>1. i - Len(front) \in 1..Len(s)
      BY <1>2, <2>1, <2>3
    <3> QED BY <1>2, <1>3, <2>1, <2>3, <3>1
  <2> QED BY <2>2, <2>3
<1>7. /\ \A r \in Queues : \A i \in DOMAIN old[r] : Fits(old[r][i], r, d, now, nid) /\ old[r][i] \in Event
      /\ Distinct(old) /\ \E r \in Queues : old[r] # <<>>
  BY <1>1 DEF CellInv, CellCore
<1>8. \A e \in Event : e.due \in Nat /\ e.id \in Nat
  BY DEF Event
<1>9. \A r \in Queues : \A i \in DOMAIN old[r] :
        old[r][i].q = r /\ Fits(old[r][i], r, 0, now + d, nid)
  BY <1>7 DEF Fits
<1>10. \A i \in DOMAIN front : Fits(front[i], "start", 0, now + d, nid)
  <2> SUFFICES ASSUME NEW i \in DOMAIN front PROVE Fits(front[i], "start", 0, now + d, nid)
    OBVIOUS
  <2>1. front[i] \in Event
    OBVIOUS
  <2>2. front[i].due <= now + d
    BY <1>8, <2>1
  <2> QED BY <2>2 DEF Fits
<1>11. \A r \in Queues : \A i \in DOMAIN new[r] : Fits(new[r][i], r, 0, now + d, nid)
  <2>1. \A i \in DOMAIN t : Fits(t[i], "start", 0, now + d, nid)
    <3>1. \A i \in DOMAIN s : Fits(s[i], "start", 0, now + d, nid)
      BY <1>9, QueueNames DEF s
    <3> QED BY <1>6, <1>10, <3>1
  <2> QED BY <1>4, <1>9, <2>1
<1>12. Distinct(new)
  <2> SUFFICES ASSUME NEW r \in Queues, NEW x \in Queues, NEW i \in DOMAIN new[r],
                      NEW j \in DOMAIN new[x], new[r][i] = new[x][j], new[r][i].q # "next"
               PROVE  r = x /\ i = j
    BY DEF Distinct
  <2>0. \A k \in DOMAIN t : t[k].q # "next" =>
          k - Len(front) \in DOMAIN old["start"] /\ t[k] = old["start"][k - Len(front)]
    BY <1>6 DEF s
  <2>1. CASE r # "start" /\ x # "start"
    <3>1. new[r] = old[r] /\ new[x] = old[x]
      BY <1>4, <2>1
    <3> QED BY <1>7, <3>1, OnePlace
  <2>2. CASE r = "start" /\ x # "start"
    <3>1. i \in DOMAIN t /\ new[r][i] = t[i] /\ j \in DOMAIN old[x] /\ new[x][j] = old[x][j]
      BY <1>4, <2>2
    <3>2. i - Len(front) \in DOMAIN old["start"] /\ old["start"][i - Len(front)] = old[x][j]
          /\ old["start"][i - Len(front)].q # "next"
      BY <2>0, <3>1
    <3>3. "start" = x
      BY <1>7, <3>1, <3>2, OnePlace, QueueNames
    <3> QED BY <2>2, <3>3
  <2>3. CASE r # "start" /\ x = "start"
    <3>1. j \in DOMAIN t /\ new[x][j] = t[j] /\ i \in DOMAIN old[r] /\ new[r][i] = old[r][i]
      BY <1>4, <2>3
    <3>2. j - Len(front) \in DOMAIN old["start"] /\ old[r][i] = old["start"][j - Len(front)]
          /\ old[r][i].q # "next"
      BY <2>0, <3>1
    <3>3. r = "start"
      BY <1>7, <3>1, <3>2, OnePlace, QueueNames
    <3> QED BY <2>3, <3>3
  <2>4. CASE r = "start" /\ x = "start"
    <3>1. i \in DOMAIN t /\ new[r][i] = t[i] /\ j \in DOMAIN t /\ new[x][j] = t[j]
      BY <1>4, <2>4
    <3>2. /\ i - Len(front) \in DOMAIN old["start"] /\ j - Len(front) \in DOMAIN old["start"]
          /\ old["start"][i - Len(front)] = old["start"][j - Len(front)]
          /\ old["start"][i - Len(front)].q # "next"
      BY <2>0, <3>1
    <3>3. i - Len(front) = j - Len(front)
      BY <1>7, <3>2, OnePlace, QueueNames
    <3>4. i = j
      BY <1>2, <1>3, <3>1, <3>3
    <3> QED BY <2>4, <3>4
  <2> QED BY <2>1, <2>2, <2>3, <2>4
<1>13. Staged(new, "start", None)
  <2>1. new["active"] = old["active"]
    BY <1>4, QueueNames
  <2>2. NoUpdates(new["active"])
    BY <1>9, <2>1, QueueNames DEF NoUpdates
  <2> QED BY <2>2 DEF Staged
<1>14. CellInv(new, 0, now + d, nid, "start", None)
  BY <1>5, <1>11, <1>12, <1>13 DEF CellInv, CellCore
<1>15. front \o old["start"] \in Seq(Event)
  BY <1>3 DEF t, s
<1> QED
  BY <1>14, <1>15 DEF new, t, s

\* A cell that is still to come is not touched by what happens now.
LEMMA CellWaits ==
  ASSUME NEW queue, NEW off \in Nat, NEW now \in Nat, NEW nid, NEW ph, NEW ev, NEW ph2, NEW ev2,
         NEW d \in Nat, off > d, CellInv(queue, off, now, nid, ph, ev)
  PROVE  CellInv(queue, off - d, now + d, nid, ph2, ev2)
<1>1. off - d > 0 /\ off > 0 /\ off - d # 0 /\ (now + d) + (off - d) = now + off
  OBVIOUS
<1>2. \A e, q : Fits(e, q, off, now, nid) => Fits(e, q, off - d, now + d, nid)
  BY <1>1 DEF Fits
<1> QED
  BY <1>1, <1>2 DEF CellInv, CellCore

\* Another phase or event, for a cell whose queues fit it.
LEMMA CellMoves ==
  ASSUME NEW queue, NEW off \in Nat, NEW now \in Nat, NEW nid, NEW ph, NEW ev, NEW ph2, NEW ev2,
         CellInv(queue, off, now, nid, ph, ev), off = 0 => Staged(queue, ph2, ev2)
  PROVE  CellInv(queue, off, now, nid, ph2, ev2)
  BY DEF CellInv, CellCore

-----------------------------------------------------------------------------
(* What each operation does to the list of cells. *)

\* The events that wait in a list, and in a cell.
PendingIn(list) == {e \in UNION {EventsOf(list[k]) : k \in DOMAIN list} : e.q # "next"}
Holds(queue, e) == \E q \in Queues : \E i \in DOMAIN queue[q] : queue[q][i] = e

\* A pending event waits in some queue of some cell.
LEMMA PendingHeld ==
  ASSUME NEW list, Increasing(list), NEW e
  PROVE  e \in PendingIn(list) <=>
           e.q # "next" /\ \E k \in 1..Len(list) : Holds(list[k].queue, e)
<1>1. DOMAIN list = 1..Len(list)
  BY CellsOf DEF Increasing
<1>2. \A k \in 1..Len(list) : e \in EventsOf(list[k]) <=> Holds(list[k].queue, e)
  BY DEF EventsOf, ToSet, Holds
<1>3. e \in PendingIn(list) <=>
        e.q # "next" /\ \E k \in 1..Len(list) : e \in EventsOf(list[k])
  BY <1>1 DEF PendingIn
<1> QED
  BY <1>2, <1>3

\* Only the first cell can be of the current time.
LEMMA FirstIsNow ==
  ASSUME NEW list, Increasing(list)
  PROVE  /\ \A k \in 1..Len(list) : Elapsed(list, k) \in Nat
         /\ \A k \in 1..Len(list) : k # 1 => Elapsed(list, k) > 0
         /\ list # <<>> => 1 \in 1..Len(list) /\ Elapsed(list, 1) = list[1].delay
         /\ \A k \in 1..Len(list) : Elapsed(list, k) = 0 => list # <<>> /\ list[1].delay = 0
<1>0. /\ Len(list) \in Nat /\ DOMAIN list = 1..Len(list) /\ list \in Seq(Cell)
      /\ \A j \in 1..Len(list) : list[j].delay \in Nat
      /\ \A j \in 0..Len(list) : Elapsed(list, j) \in Nat
  BY CellsOf, ElapsedType DEF Increasing
<1>1. \A k \in 1..Len(list) : Elapsed(list, k) \in Nat
  BY <1>0
<1>2. list # <<>> => 1 \in 1..Len(list) /\ Elapsed(list, 1) = list[1].delay
  <2> SUFFICES ASSUME list # <<>> PROVE 1 \in 1..Len(list) /\ Elapsed(list, 1) = list[1].delay
    OBVIOUS
  <2>1. 1 \in 1..Len(list)
    BY <1>0
  <2>2. Elapsed(list, 0) = 0 /\ Elapsed(list, 1) = Elapsed(list, 1 - 1) + list[1].delay
    BY <1>0, <2>1, ElapsedSum
  <2> QED BY <1>0, <2>1, <2>2
<1>3. \A k \in 1..Len(list) : k # 1 => Elapsed(list, k) > 0
  <2> SUFFICES ASSUME NEW k \in 1..Len(list), k # 1 PROVE Elapsed(list, k) > 0
    OBVIOUS
  <2>1. 1 \in 1..Len(list) /\ 1 < k
    BY <1>0
  <2>2. Elapsed(list, 1) < Elapsed(list, k)
    BY <2>1, ElapsedIncreases
  <2> QED BY <1>1, <2>1, <2>2
<1>4. \A k \in 1..Len(list) : list # <<>>
  BY <1>0
<1> QED
  BY <1>1, <1>2, <1>3, <1>4

\* The conditions under which an event may be put on queue q, d from now, in
\* phase ph.
MayPlace(e, q, d, now, nid, ph) ==
  /\ e \in Event /\ e.id = nid /\ e.q = q /\ e.due = now + d
  /\ q = "nbassign" => e.kind = "update"
  /\ q = "del_thr" => e.kind = "reap"
  /\ d = 0 => /\ q # "start" /\ ph # "del_thr"
              /\ ph = "rosync" => q \in {"rosync", "del_thr"}

\* What scheduling an event does: the list stays in order and holds one more.
Scheduled(list, e, now, nid, ph, ev, new) ==
  /\ Cells(new, now, nid + 1, ph, ev)
  /\ PendingIn(new) = PendingIn(list) \cup {e}
  /\ Len(new) >= Len(list)
  /\ list # <<>> /\ list[1].delay = 0 => new # <<>> /\ new[1].delay = 0

\* A queue with one more event holds what it held, and that event.
LEMMA AppendHolds ==
  ASSUME NEW old \in QueueMap, NEW q \in Queues, NEW e \in Event, NEW x
  PROVE  Holds([old EXCEPT ![q] = Append(old[q], e)], x) <=> Holds(old, x) \/ x = e
<1> DEFINE new == [old EXCEPT ![q] = Append(old[q], e)]
<1>1. /\ DOMAIN old = Queues
      /\ \A r \in Queues : old[r] \in Seq(Event)
  BY QueueTypes
<1>2. /\ DOMAIN Append(old[q], e) = 1..(Len(old[q]) + 1) /\ DOMAIN old[q] = 1..Len(old[q])
      /\ Len(old[q]) \in Nat
      /\ \A i \in 1..Len(old[q]) : Append(old[q], e)[i] = old[q][i]
      /\ Append(old[q], e)[Len(old[q]) + 1] = e
  BY <1>1, Behind
<1>3. new[q] = Append(old[q], e) /\ \A r \in Queues : r # q => new[r] = old[r]
  BY <1>1
<1> HIDE DEF new
<1>4. \A i \in 1..(Len(old[q]) + 1) : i \in 1..Len(old[q]) \/ i = Len(old[q]) + 1
  BY <1>2
<1>5. /\ \A i \in 1..Len(old[q]) : i \in 1..(Len(old[q]) + 1)
      /\ Len(old[q]) + 1 \in 1..(Len(old[q]) + 1)
  BY <1>2
<1>6. ASSUME Holds(new, x) PROVE Holds(old, x) \/ x = e
  <2>0. PICK r \in Queues : \E i \in DOMAIN new[r] : new[r][i] = x
    BY <1>6 DEF Holds
  <2>1. PICK i \in DOMAIN new[r] : new[r][i] = x
    BY <2>0
  <2>2. CASE r = q
    BY <1>2, <1>3, <1>4, <2>1, <2>2 DEF Holds
  <2>3. CASE r # q
    BY <1>3, <2>1, <2>3 DEF Holds
  <2> QED BY <2>2, <2>3
<1>7. ASSUME Holds(old, x) PROVE Holds(new, x)
  <2>0. PICK r \in Queues : \E i \in DOMAIN old[r] : old[r][i] = x
    BY <1>7 DEF Holds
  <2>1. PICK i \in DOMAIN old[r] : old[r][i] = x
    BY <2>0
  <2>2. i \in DOMAIN new[r] /\ new[r][i] = x
    BY <1>2, <1>3, <1>5, <2>1
  <2> QED BY <2>2 DEF Holds
<1>8. Holds(new, e)
  <2>1. Len(old[q]) + 1 \in DOMAIN new[q] /\ new[q][Len(old[q]) + 1] = e
    BY <1>2, <1>3, <1>5
  <2> QED BY <2>1 DEF Holds
<1>9. Holds(new, x) <=> Holds(old, x) \/ x = e
  BY <1>6, <1>7, <1>8
<1> QED
  BY <1>9 DEF new

\* An empty cell holds nothing.
LEMMA NoneHeld == \A e : ~Holds(NoQueue, e)
<1>1. \A q \in Queues : DOMAIN NoQueue[q] = {}
  BY DEF NoQueue
<1> QED
  BY <1>1 DEF Holds

\* schedule_event_.
LEMMA ListSchedule ==
  ASSUME NEW list, NEW now \in Nat, NEW nid \in Nat, NEW ph, NEW ev,
         Cells(list, now, nid, ph, ev),
         NEW d \in Nat, NEW q \in Queues, NEW e, MayPlace(e, q, d, now, nid, ph)
  PROVE  Scheduled(list, e, now, nid, ph, ev, schedule_event_(list, e, d, q))
<1> DEFINE new == schedule_event_(list, e, d, q)
<1>0. Increasing(list) /\ \A k \in 1..Len(list) :
        CellInv(list[k].queue, Elapsed(list, k), now, nid, ph, ev)
  BY DEF Cells
<1>1. e \in Event /\ e.q = q /\ e.q # "next"
  BY DEF MayPlace, Queues
<1>2. Placed(list, d, q, e, new)
  BY <1>0, <1>1, EventIsPlaced
<1> HIDE DEF new
<1>3. PICK at \in 1..Len(new), old \in QueueMap : PlacedAt(list, d, q, e, new, at, old)
  BY <1>2 DEF Placed
<1>4. Increasing(new) /\ Len(new) >= Len(list)
  BY <1>2 DEF Placed
<1>5. /\ Elapsed(new, at) = d
      /\ new[at].queue = [old EXCEPT ![q] = Append(old[q], e)]
      /\ old = NoQueue \/ \E i \in 1..Len(list) : Elapsed(list, i) = d /\ old = list[i].queue
      /\ \A i \in 1..Len(list) : Elapsed(list, i) = d => old = list[i].queue
      /\ \A j \in 1..Len(new) : j # at =>
           \E i \in 1..Len(list) : Elapsed(list, i) = Elapsed(new, j) /\ new[j].queue = list[i].queue
      /\ \A i \in 1..Len(list) : Elapsed(list, i) # d =>
           \E j \in 1..Len(new) : /\ j # at /\ Elapsed(new, j) = Elapsed(list, i)
                                  /\ new[j].queue = list[i].queue
  BY <1>3 DEF PlacedAt
<1>6. CellCore(old, d, now, nid, ph, ev)
  BY <1>0, <1>5, EmptyCell DEF CellInv
<1>7. CellInv(new[at].queue, Elapsed(new, at), now, nid + 1, ph, ev)
  <2>1. /\ e.id = nid /\ e.due = now + d
        /\ q = "nbassign" => e.kind = "update"
        /\ q = "del_thr" => e.kind = "reap"
        /\ d = 0 => /\ q # "start" /\ ph # "del_thr"
                    /\ ph = "rosync" => q \in {"rosync", "del_thr"}
    BY DEF MayPlace
  <2>2. CellInv([old EXCEPT ![q] = Append(old[q], e)], d, now, nid + 1, ph, ev)
    BY <1>1, <1>6, <2>1, CellAppend
  <2> QED BY <1>5, <2>2
<1>8. ASSUME NEW j \in 1..Len(new), j # at
      PROVE  CellInv(new[j].queue, Elapsed(new, j), now, nid + 1, ph, ev)
  <2>1. PICK i \in 1..Len(list) : Elapsed(list, i) = Elapsed(new, j) /\ new[j].queue = list[i].queue
    BY <1>5, <1>8
  <2>2. CellInv(list[i].queue, Elapsed(list, i), now, nid, ph, ev)
    BY <1>0
  <2> QED BY <2>1, <2>2, CellGrows
<1>9. Cells(new, now, nid + 1, ph, ev)
  BY <1>4, <1>7, <1>8 DEF Cells
<1>10. ASSUME NEW x PROVE x \in PendingIn(new) <=> x \in PendingIn(list) \/ x = e
  <2>1. Holds(new[at].queue, x) <=> Holds(old, x) \/ x = e
    <3>1. Holds([old EXCEPT ![q] = Append(old[q], e)], x) <=> Holds(old, x) \/ x = e
      BY <1>1, AppendHolds
    <3>2. new[at].queue = [old EXCEPT ![q] = Append(old[q], e)]
      BY <1>5
    <3> QED BY <3>1, <3>2, Zenon
  <2>2. ASSUME NEW i \in 1..Len(list), Holds(list[i].queue, x)
        PROVE  \E j \in 1..Len(new) : Holds(new[j].queue, x)
    <3>1. CASE Elapsed(list, i) = d
      BY <1>5, <2>1, <2>2, <3>1
    <3>2. CASE Elapsed(list, i) # d
      BY <1>5, <2>2, <3>2
    <3> QED BY <3>1, <3>2
  <2>3. ASSUME NEW j \in 1..Len(new), Holds(new[j].queue, x), x # e
        PROVE  \E i \in 1..Len(list) : Holds(list[i].queue, x)
    <3>1. CASE j = at
      BY <1>5, <2>1, <2>3, <3>1, NoneHeld
    <3>2. CASE j # at
      BY <1>5, <2>3, <3>2
    <3> QED BY <3>1, <3>2
  <2>4. x = e => x.q # "next" /\ \E j \in 1..Len(new) : Holds(new[j].queue, x)
    BY <1>1, <2>1
  <2>5. x \in PendingIn(new) <=> x.q # "next" /\ \E k \in 1..Len(new) : Holds(new[k].queue, x)
    BY <1>4, PendingHeld
  <2>6. x \in PendingIn(list) <=> x.q # "next" /\ \E k \in 1..Len(list) : Holds(list[k].queue, x)
    BY <1>0, PendingHeld
  <2> QED BY <2>2, <2>3, <2>4, <2>5, <2>6
<1>11. PendingIn(new) = PendingIn(list) \cup {e}
  BY <1>10
<1>12. ASSUME list # <<>>, list[1].delay = 0 PROVE new # <<>> /\ new[1].delay = 0
  <2>1. 1 \in 1..Len(list) /\ Elapsed(list, 1) = 0
    BY <1>0, <1>12, FirstIsNow
  <2>2. \E j \in 1..Len(new) : Elapsed(new, j) = 0
    <3>1. CASE d = 0
      BY <1>5, <3>1
    <3>2. CASE d # 0
      BY <1>5, <2>1, <3>2
    <3> QED BY <3>1, <3>2
  <2> QED BY <1>4, <2>2, FirstIsNow
<1> QED
  BY <1>4, <1>9, <1>11, <1>12 DEF Scheduled, new

\* What waits in the cells of later times.
LaterHeld(list, e) == \E k \in 1..Len(list) : k # 1 /\ Holds(list[k].queue, e)

\* What is pending waits in the first cell or in a later one.
LEMMA PendingSplit ==
  ASSUME NEW list, Increasing(list), list # <<>>, NEW e
  PROVE  e \in PendingIn(list) <=>
           e.q # "next" /\ (Holds(list[1].queue, e) \/ LaterHeld(list, e))
<1>1. 1 \in 1..Len(list)
  BY FirstIsNow
<1>2. e \in PendingIn(list) <=> e.q # "next" /\ \E k \in 1..Len(list) : Holds(list[k].queue, e)
  BY PendingHeld
<1> QED
  BY <1>1, <1>2 DEF LaterHeld

\* What is pending later is due later.
LEMMA LaterIsDueLater ==
  ASSUME NEW list, NEW now \in Nat, NEW nid \in Nat, NEW ph, NEW ev, Cells(list, now, nid, ph, ev),
         NEW e, LaterHeld(list, e)
  PROVE  e.due > now /\ e.id < nid /\ e.q # "next" /\ e \in Event
<1>0. Increasing(list)
  BY DEF Cells
<1>1. PICK k \in 1..Len(list) : k # 1 /\ Holds(list[k].queue, e)
  BY DEF LaterHeld
<1>2. Elapsed(list, k) \in Nat /\ Elapsed(list, k) > 0
  BY <1>0, <1>1, FirstIsNow
<1>3. PICK q \in Queues : \E i \in DOMAIN list[k].queue[q] : list[k].queue[q][i] = e
  BY <1>1 DEF Holds
<1>4. PICK i \in DOMAIN list[k].queue[q] : list[k].queue[q][i] = e
  BY <1>3
<1>5. CellInv(list[k].queue, Elapsed(list, k), now, nid, ph, ev)
  BY DEF Cells
<1>6. Fits(e, q, Elapsed(list, k), now, nid)
  BY <1>4, <1>5 DEF CellInv, CellCore
<1>7. e.due = now + Elapsed(list, k) /\ e.id < nid /\ e.q = q
  BY <1>2, <1>6 DEF Fits
<1>8. e \in Event
  <2>1. list[k].queue \in QueueMap
    BY <1>5 DEF CellInv, CellCore
  <2>2. list[k].queue[q] \in Seq(Event)
    BY <2>1, QueueTypes
  <2> QED BY <1>4, <2>2
<1> QED
  BY <1>2, <1>7, <1>8 DEF Queues

\* An update of the current cell leaves the others in order.
LEMMA FirstRequeued ==
  ASSUME NEW list, NEW now \in Nat, NEW nid \in Nat, NEW ph, NEW ev, NEW ph2, NEW ev2,
         Cells(list, now, nid, ph, ev), list # <<>>, list[1].delay = 0,
         NEW nq, NEW new, Requeued(list, 1, nq, new), CellInv(nq, 0, now, nid, ph2, ev2)
  PROVE  /\ Cells(new, now, nid, ph2, ev2)
         /\ new # <<>> /\ new[1].delay = 0 /\ new[1].queue = nq
         /\ \A x : LaterHeld(new, x) <=> LaterHeld(list, x)
<1>0. Increasing(list) /\ \A k \in 1..Len(list) :
        CellInv(list[k].queue, Elapsed(list, k), now, nid, ph, ev)
  BY DEF Cells
<1>1. /\ Increasing(new) /\ Len(new) = Len(list)
      /\ new[1].queue = nq
      /\ \A j \in 1..Len(list) : j # 1 => new[j].queue = list[j].queue
      /\ \A j \in 1..Len(list) : new[j].delay = list[j].delay
      /\ \A j \in 0..Len(list) : Elapsed(new, j) = Elapsed(list, j)
  BY DEF Requeued
<1>2. /\ \A k \in 1..Len(list) : Elapsed(list, k) \in Nat
      /\ \A k \in 1..Len(list) : k # 1 => Elapsed(list, k) > 0
      /\ 1 \in 1..Len(list) /\ Elapsed(list, 1) = 0
  BY <1>0, FirstIsNow
<1>3. Len(list) \in Nat /\ \A k \in 1..Len(list) : k \in 0..Len(list)
  BY <1>0, CellsOf DEF Increasing
<1>4. ASSUME NEW k \in 1..Len(list) PROVE CellInv(new[k].queue, Elapsed(new, k), now, nid, ph2, ev2)
  <2>1. CASE k = 1
    BY <1>1, <1>2, <1>3, <2>1
  <2>2. CASE k # 1
    <3>1. CellInv(list[k].queue, Elapsed(list, k), now, nid, ph, ev) /\ Elapsed(list, k) \in Nat
          /\ Elapsed(list, k) # 0
      BY <1>0, <1>2, <2>2
    <3>2. CellInv(list[k].queue, Elapsed(list, k), now, nid, ph2, ev2)
      BY <3>1, CellMoves
    <3> QED BY <1>1, <1>3, <2>2, <3>2
  <2> QED BY <2>1, <2>2
<1>5. new # <<>>
  <2>1. Len(new) # 0
    BY <1>1, <1>2, <1>3
  <2> QED BY <2>1
<1>6. \A x : LaterHeld(new, x) <=> LaterHeld(list, x)
  BY <1>1 DEF LaterHeld
<1> QED
  BY <1>1, <1>2, <1>4, <1>5, <1>6 DEF Cells

\* Numbering another event leaves the list in order.
LEMMA ListGrows ==
  ASSUME NEW list, NEW now, NEW nid \in Nat, NEW ph, NEW ev, Cells(list, now, nid, ph, ev)
  PROVE  Cells(list, now, nid + 1, ph, ev)
  BY CellGrows DEF Cells

\* schedule_event_push_.
LEMMA ListPush ==
  ASSUME NEW list, NEW now \in Nat, NEW nid \in Nat, NEW ph, NEW ev,
         Cells(list, now, nid, ph, ev),
         NEW e, MayPlace(e, "active", 0, now, nid, ph), ph # "stop",
         ph = "loop" => ev # None /\ ev.q # "nbassign"
  PROVE  Scheduled(list, e, now, nid, ph, ev, schedule_event_push_(list, e))
<1>0. Increasing(list)
  BY DEF Cells
<1>1. CASE list = <<>> \/ list[1].delay > 0
  <2>1. schedule_event_push_(list, e) = schedule_event_(list, e, 0, "active")
    BY <1>1 DEF schedule_event_push_
  <2> QED BY <2>1, ListSchedule, QueueNames
<1>2. CASE ~(list = <<>> \/ list[1].delay > 0)
  <2> DEFINE old == list[1].queue  nq == [old EXCEPT !["active"] = <<e>> \o old["active"]]
             new == [list EXCEPT ![1].queue["active"] = <<e>> \o old["active"]]
  <2>1. schedule_event_push_(list, e) = new
    BY <1>2 DEF schedule_event_push_
  <2>2. 1 \in 1..Len(list) /\ list[1].delay = 0 /\ Elapsed(list, 1) = 0 /\ list # <<>>
    <3>1. 1 \in 1..Len(list) /\ Elapsed(list, 1) = list[1].delay
      BY <1>0, <1>2, FirstIsNow
    <3>2. list[1].delay \in Nat
      BY <1>0, <3>1, CellsOf DEF Increasing
    <3> QED BY <1>2, <3>1, <3>2
  <2>3. CellCore(old, 0, now, nid, ph, ev)
    BY <2>2 DEF Cells, CellInv
  <2>4. e \in Event /\ e.id = nid /\ e.q = "active" /\ e.due = now /\ ph \notin {"rosync", "del_thr", "stop"}
    BY DEF MayPlace
  <2>5. <<e>> \o old["active"] \in Seq(Event) /\ CellInv(nq, 0, now, nid + 1, ph, ev)
    <3> HIDE DEF old
    <3> QED BY <2>3, <2>4, CellPush
  <2>6. Requeued(list, 1, nq, new)
    BY <1>0, <2>2, <2>5, OneQueueSet, QueueNames
  <2>7. old \in QueueMap /\ old["active"] \in Seq(Event)
    BY <2>3, QueueTypes, QueueNames DEF CellCore
  <2> HIDE DEF old, nq, new
  <2>8. /\ Cells(new, now, nid + 1, ph, ev)
        /\ new # <<>> /\ new[1].delay = 0 /\ new[1].queue = nq
        /\ \A x : LaterHeld(new, x) <=> LaterHeld(list, x)
    <3>1. Cells(list, now, nid + 1, ph, ev) /\ nid + 1 \in Nat
      BY ListGrows
    <3> QED BY <2>2, <2>5, <2>6, <3>1, FirstRequeued
  <2>9. \A x : Holds(nq, x) <=> (Holds(old, x) \/ x = e)
    <3> DEFINE s == old["active"]  t == <<e>> \o s
    <3>1. DOMAIN s = 1..Len(s) /\ Len(s) \in Nat /\ s \in Seq(Event)
      BY <2>7
    <3>2. DOMAIN t = 1..(Len(s) + 1) /\ t[1] = e /\ \A i \in 1..Len(s) : t[i + 1] = s[i]
      <4> HIDE DEF s
      <4>1. <<e>> \in Seq(Event) /\ Len(<<e>>) = 1 /\ <<e>>[1] = e
        BY <2>4
      <4>2. /\ t \in Seq(Event) /\ Len(t) = Len(<<e>>) + Len(s)
            /\ \A i \in 1..(Len(<<e>>) + Len(s)) :
                  t[i] = IF i <= Len(<<e>>) THEN <<e>>[i] ELSE s[i - Len(<<e>>)]
        BY <3>1, <4>1, ConcatProperties
      <4> HIDE DEF t
      <4>3. \A i \in 1..(Len(s) + 1) : t[i] = IF i <= 1 THEN <<e>>[i] ELSE s[i - 1]
        BY <3>1, <4>1, <4>2
      <4>4. DOMAIN t = 1..(Len(s) + 1) /\ t[1] = e
        BY <3>1, <4>1, <4>2, <4>3
      <4>5. ASSUME NEW i \in 1..Len(s) PROVE t[i + 1] = s[i]
        <5>1. i + 1 \in 1..(Len(s) + 1) /\ ~(i + 1 <= 1) /\ (i + 1) - 1 = i
          BY <3>1
        <5> QED BY <4>3, <5>1
      <4> QED BY <4>4, <4>5
    <3>3. nq["active"] = t /\ \A r \in Queues : r # "active" => nq[r] = old[r]
      BY <2>7, QueueTypes, QueueNames DEF nq
    <3> SUFFICES ASSUME NEW x PROVE Holds(nq, x) <=> (Holds(old, x) \/ x = e)
      OBVIOUS
    <3> HIDE DEF t
    <3>4. (\E i \in DOMAIN t : t[i] = x) <=> ((\E i \in DOMAIN s : s[i] = x) \/ x = e)
      <4>1. \A i \in DOMAIN t : i = 1 \/ (i - 1 \in DOMAIN s /\ (i - 1) + 1 = i)
        BY <3>1, <3>2
      <4>2. \A i \in DOMAIN s : i + 1 \in DOMAIN t
        BY <3>1, <3>2
      <4>3. 1 \in DOMAIN t
        BY <3>1, <3>2
      <4>4. \A i \in DOMAIN s : t[i + 1] = s[i]
        BY <3>1, <3>2
      <4>5. t[1] = e
        BY <3>2
      <4> HIDE DEF s
      <4>6. ASSUME NEW i \in DOMAIN t, t[i] = x PROVE (\E k \in DOMAIN s : s[k] = x) \/ x = e
        BY <4>1, <4>4, <4>5, <4>6
      <4>7. ASSUME NEW i \in DOMAIN s, s[i] = x PROVE \E k \in DOMAIN t : t[k] = x
        BY <4>2, <4>4, <4>7
      <4> QED BY <4>3, <4>5, <4>6, <4>7
    <3> QED BY <3>3, <3>4, QueueNames DEF Holds
  <2>10. ASSUME NEW x PROVE x \in PendingIn(new) <=> (x \in PendingIn(list) \/ x = e)
    <3>1. x \in PendingIn(new) <=> x.q # "next" /\ (Holds(nq, x) \/ LaterHeld(new, x))
      BY <2>8, PendingSplit DEF Cells
    <3>2. x \in PendingIn(list) <=> x.q # "next" /\ (Holds(old, x) \/ LaterHeld(list, x))
      BY <1>0, <2>2, PendingSplit DEF old
    <3>3. x = e => x.q # "next"
      BY <2>4
    <3> QED BY <2>8, <2>9, <3>1, <3>2, <3>3
  <2>11. PendingIn(new) = PendingIn(list) \cup {e}
    BY <2>10
  <2>12. Len(new) >= Len(list)
    <3>1. Len(new) = Len(list) /\ Len(list) \in Nat
      BY <1>0, <2>6, CellsOf DEF Requeued, Increasing
    <3> QED BY <3>1
  <2> QED BY <2>1, <2>8, <2>11, <2>12 DEF Scheduled
<1> QED
  BY <1>1, <1>2

\* What taking the first event e of a queue of the current cell does.
Taken(list, e, now, nid, ph, new) ==
  /\ Cells(new, now, nid, ph, e) /\ new # <<>> /\ new[1].delay = 0 /\ Len(new) = Len(list)
  /\ e.q = "next" => PendingIn(new) = PendingIn(list)
  /\ e.q # "next" => /\ e \in PendingIn(list) /\ e.due = now
                     /\ PendingIn(new) = PendingIn(list) \ {e}

\* Taking the first event of a queue takes no other event away.
LEMMA TailHolds ==
  ASSUME NEW old \in QueueMap, Distinct(old), NEW q \in Queues, old[q] # <<>>, NEW x, x.q # "next"
  PROVE  Holds([old EXCEPT ![q] = Tail(old[q])], x) <=> (Holds(old, x) /\ x # Head(old[q]))
<1> DEFINE new == [old EXCEPT ![q] = Tail(old[q])]
<1>1. DOMAIN old = Queues /\ \A r \in Queues : old[r] \in Seq(Event)
  BY QueueTypes
<1>2. /\ Head(old[q]) = old[q][1] /\ 1 \in DOMAIN old[q]
      /\ \A i \in DOMAIN Tail(old[q]) : i + 1 \in DOMAIN old[q] /\ Tail(old[q])[i] = old[q][i + 1]
                                        /\ i \in Nat
      /\ \A i \in DOMAIN old[q] : i # 1 => i - 1 \in DOMAIN Tail(old[q])
                                            /\ Tail(old[q])[i - 1] = old[q][i]
  BY <1>1, Rest
<1>3. new[q] = Tail(old[q]) /\ \A r \in Queues : r # q => new[r] = old[r]
  BY <1>1
<1>z. \A i \in DOMAIN Tail(old[q]) : i + 1 # 1
  <2>1. DOMAIN Tail(old[q]) = 1..Len(Tail(old[q]))
    BY <1>1
  <2> QED BY <2>1
<1> HIDE DEF new
<1>4. ASSUME Holds(new, x) PROVE Holds(old, x) /\ x # Head(old[q])
  <2>1. PICK r \in Queues : \E i \in DOMAIN new[r] : new[r][i] = x
    BY <1>4 DEF Holds
  <2>2. PICK i \in DOMAIN new[r] : new[r][i] = x
    BY <2>1
  <2>3. CASE r = q
    <3>1. i + 1 \in DOMAIN old[q] /\ old[q][i + 1] = x /\ i + 1 # 1
      BY <1>2, <1>3, <1>z, <2>2, <2>3
    <3>2. x # old[q][1]
      <4> SUFFICES ASSUME x = old[q][1] PROVE FALSE
        OBVIOUS
      <4>1. old[q][i + 1] = old[q][1] /\ old[q][i + 1].q # "next"
        BY <3>1
      <4> QED BY <1>2, <3>1, <4>1, OnePlace
    <3> QED BY <1>2, <3>1, <3>2 DEF Holds
  <2>4. CASE r # q
    <3>1. i \in DOMAIN old[r] /\ old[r][i] = x
      BY <1>3, <2>2, <2>4
    <3>2. x # old[q][1]
      <4> SUFFICES ASSUME x = old[q][1] PROVE FALSE
        OBVIOUS
      <4>1. old[r][i] = old[q][1] /\ old[r][i].q # "next"
        BY <3>1
      <4> QED BY <1>2, <2>4, <3>1, <4>1, OnePlace
    <3> QED BY <1>2, <3>1, <3>2 DEF Holds
  <2> QED BY <2>3, <2>4
<1>5. ASSUME Holds(old, x), x # Head(old[q]) PROVE Holds(new, x)
  <2>1. PICK r \in Queues : \E i \in DOMAIN old[r] : old[r][i] = x
    BY <1>5 DEF Holds
  <2>2. PICK i \in DOMAIN old[r] : old[r][i] = x
    BY <2>1
  <2>3. CASE r = q
    <3>1. i - 1 \in DOMAIN new[q] /\ new[q][i - 1] = x
      BY <1>2, <1>3, <1>5, <2>2, <2>3
    <3> QED BY <3>1 DEF Holds
  <2>4. CASE r # q
    BY <1>3, <2>2, <2>4 DEF Holds
  <2> QED BY <2>3, <2>4
<1>6. Holds(new, x) <=> (Holds(old, x) /\ x # Head(old[q]))
  BY <1>4, <1>5
<1> QED
  BY <1>6 DEF new

\* RunFrom: the first event of queue q of the current cell.
LEMMA ListTake ==
  ASSUME NEW list, NEW now \in Nat, NEW nid \in Nat, NEW ph, NEW ev,
         Cells(list, now, nid, ph, ev), list # <<>>, list[1].delay = 0,
         NEW q \in Queues, list[1].queue[q] # <<>>, ph = "loop" => q = "active"
  PROVE  /\ Taken(list, Head(list[1].queue[q]), now, nid, ph,
                  [list EXCEPT ![1].queue[q] = Tail(list[1].queue[q])])
         /\ Head(list[1].queue[q]) \in Event
         /\ Fits(Head(list[1].queue[q]), q, 0, now, nid)
<1> DEFINE old == list[1].queue  e == Head(old[q])
           nq == [old EXCEPT ![q] = Tail(old[q])]
           new == [list EXCEPT ![1].queue[q] = Tail(old[q])]
<1>0. Increasing(list)
  BY DEF Cells
<1>1. 1 \in 1..Len(list) /\ Elapsed(list, 1) = 0
  BY <1>0, FirstIsNow
<1>2. CellCore(old, 0, now, nid, ph, ev)
  BY <1>1 DEF Cells, CellInv
<1>3. Tail(old[q]) \in Seq(Event) /\ CellInv(nq, 0, now, nid, ph, e)
  <2> HIDE DEF old
  <2>1. old[q] # <<>>
    BY DEF old
  <2> QED BY <1>2, <2>1, CellTake
<1>4. Requeued(list, 1, nq, new)
  BY <1>0, <1>1, <1>3, OneQueueSet
<1>5. old \in QueueMap /\ Distinct(old) /\ old[q] # <<>>
      /\ \A i \in DOMAIN old[q] : Fits(old[q][i], q, 0, now, nid)
  BY <1>2 DEF CellCore
<1> HIDE DEF old
<1>6. e = old[q][1] /\ 1 \in DOMAIN old[q] /\ e \in Event
  <2>1. old[q] \in Seq(Event)
    BY <1>5, QueueTypes
  <2>2. e = old[q][1] /\ 1 \in DOMAIN old[q]
    BY <1>5, <2>1, Rest
  <2> QED BY <2>1, <2>2
<1>7. Fits(e, q, 0, now, nid) /\ Holds(old, e)
  BY <1>5, <1>6 DEF Holds
<1> HIDE DEF e, nq, new
<1>8. /\ Cells(new, now, nid, ph, e)
      /\ new # <<>> /\ new[1].delay = 0 /\ new[1].queue = nq
      /\ \A x : LaterHeld(new, x) <=> LaterHeld(list, x)
  BY <1>3, <1>4, FirstRequeued
<1>9. \A x : x \in PendingIn(new) <=> x.q # "next" /\ (Holds(nq, x) \/ LaterHeld(list, x))
  BY <1>8, PendingSplit DEF Cells
<1>10. \A x : x \in PendingIn(list) <=> x.q # "next" /\ (Holds(old, x) \/ LaterHeld(list, x))
  BY <1>0, PendingSplit DEF old
<1>11. \A x : x.q # "next" => (Holds(nq, x) <=> (Holds(old, x) /\ x # e))
  BY <1>5, TailHolds DEF nq, e
<1>12. e.q = "next" => PendingIn(new) = PendingIn(list)
  <2> SUFFICES ASSUME e.q = "next" PROVE PendingIn(new) = PendingIn(list)
    OBVIOUS
  <2>1. \A x : x \in PendingIn(new) <=> x \in PendingIn(list)
    BY <1>9, <1>10, <1>11
  <2> QED BY <2>1
<1>13. ASSUME e.q # "next" PROVE e.due = now /\ ~LaterHeld(list, e)
  <2>1. e.due = now
    BY <1>7, <1>13 DEF Fits
  <2>2. ~LaterHeld(list, e)
    <3> SUFFICES ASSUME LaterHeld(list, e) PROVE FALSE
      OBVIOUS
    <3>1. e.due > now
      BY LaterIsDueLater
    <3> QED BY <2>1, <3>1
  <2> QED BY <2>1, <2>2
<1>14. e.q # "next" => /\ e \in PendingIn(list) /\ e.due = now
                       /\ PendingIn(new) = PendingIn(list) \ {e}
  <2> SUFFICES ASSUME e.q # "next"
               PROVE  /\ e \in PendingIn(list) /\ e.due = now
                      /\ PendingIn(new) = PendingIn(list) \ {e}
    OBVIOUS
  <2>1. e \in PendingIn(list)
    BY <1>7, <1>10
  <2>2. \A x : x \in PendingIn(new) <=> (x \in PendingIn(list) /\ x # e)
    BY <1>9, <1>10, <1>11, <1>13
  <2> QED BY <1>13, <2>1, <2>2
<1>15. Taken(list, e, now, nid, ph, new)
  BY <1>4, <1>8, <1>12, <1>14 DEF Taken, Requeued
<1> QED
  BY <1>6, <1>7, <1>15 DEF e, new, old

\* The region that Promoted makes active.
RegionOf(due) ==
  IF due["active"] # <<>> THEN "active"
  ELSE IF due["inactive"] # <<>> THEN "inactive"
  ELSE IF due["nbassign"] # <<>> THEN "nbassign" ELSE "rwsync"

\* Promotion moves one region, and no event appears or disappears.
LEMMA ListPromote ==
  ASSUME NEW list, NEW now \in Nat, NEW nid \in Nat,
         Cells(list, now, nid, "loop", None), list # <<>>, list[1].delay = 0
  PROVE  /\ Cells(Promoted(list), now, nid, "loop", None)
         /\ Promoted(list) # <<>> /\ Promoted(list)[1].delay = 0 /\ Len(Promoted(list)) = Len(list)
         /\ PendingIn(Promoted(list)) = PendingIn(list)
         /\ Promoted(list)[1].queue["active"] = list[1].queue[RegionOf(list[1].queue)]
<1> DEFINE old == list[1].queue  region == RegionOf(old)
           nq == [old EXCEPT ![region] = <<>>, !["active"] = old[region]]
           new == [list EXCEPT ![1].queue = nq]
<1>0. Increasing(list)
  BY DEF Cells
<1>1. 1 \in 1..Len(list) /\ Elapsed(list, 1) = 0
  BY <1>0, FirstIsNow
<1>2. CellCore(old, 0, now, nid, "loop", None)
  BY <1>1 DEF Cells, CellInv
<1>3. Promoted(list) = new
  BY DEF Promoted, RegionOf
<1>4. /\ region \in {"active", "inactive", "nbassign", "rwsync"}
      /\ region # "active" => old["active"] = <<>>
  BY DEF RegionOf
<1> HIDE DEF old, region
<1>5. CellCore(nq, 0, now, nid, "loop", None)
  BY <1>2, <1>4, CellPromote
<1>6. nq \in QueueMap /\ CellInv(nq, 0, now, nid, "loop", None)
  <2> HIDE DEF nq
  <2>1. nq \in QueueMap
    BY <1>5 DEF CellCore
  <2> QED BY <1>5, <2>1 DEF CellInv
<1>7. Requeued(list, 1, nq, new)
  BY <1>0, <1>1, <1>6, QueueSet
<1>8. old \in QueueMap /\ DOMAIN old = Queues
  BY <1>2, QueueTypes DEF CellCore
<1>9. /\ nq["active"] = old[region]
      /\ region # "active" => nq[region] = <<>>
      /\ \A r \in Queues : r # region /\ r # "active" => nq[r] = old[r]
  BY <1>4, <1>8, QueueNames
<1> HIDE DEF nq, new
<1>10. /\ Cells(new, now, nid, "loop", None)
       /\ new # <<>> /\ new[1].delay = 0 /\ new[1].queue = nq
       /\ \A x : LaterHeld(new, x) <=> LaterHeld(list, x)
  BY <1>6, <1>7, FirstRequeued
<1>11. ASSUME NEW x PROVE Holds(nq, x) <=> Holds(old, x)
  <2>0. DOMAIN <<>> = {} /\ region \in Queues
    BY <1>4, QueueNames
  <2>1. ASSUME NEW r \in Queues, NEW i \in DOMAIN nq[r], nq[r][i] = x PROVE Holds(old, x)
    <3>1. CASE r = "active"
      BY <1>9, <2>0, <2>1, <3>1 DEF Holds
    <3>2. CASE r # "active"
      <4>1. r # region
        BY <1>9, <2>0, <2>1, <3>2
      <4> QED BY <1>9, <2>1, <3>2, <4>1 DEF Holds
    <3> QED BY <3>1, <3>2
  <2>2. ASSUME NEW r \in Queues, NEW i \in DOMAIN old[r], old[r][i] = x PROVE Holds(nq, x)
    <3>1. CASE r = region
      BY <1>9, <2>2, <3>1, QueueNames DEF Holds
    <3>2. CASE r # region
      <4>1. r # "active"
        BY <1>4, <2>0, <2>2, <3>2
      <4> QED BY <1>9, <2>2, <3>2, <4>1 DEF Holds
    <3> QED BY <3>1, <3>2
  <2> QED BY <2>1, <2>2 DEF Holds
<1>12. \A x : x \in PendingIn(new) <=> x.q # "next" /\ (Holds(nq, x) \/ LaterHeld(list, x))
  BY <1>10, PendingSplit DEF Cells
<1>13. \A x : x \in PendingIn(list) <=> x.q # "next" /\ (Holds(old, x) \/ LaterHeld(list, x))
  BY <1>0, PendingSplit DEF old
<1>14. PendingIn(new) = PendingIn(list)
  <2>1. \A x : x \in PendingIn(new) <=> x \in PendingIn(list)
    BY <1>11, <1>12, <1>13
  <2> QED BY <2>1
<1>15. Len(new) = Len(list)
  BY <1>7 DEF Requeued
<1> QED
  BY <1>3, <1>9, <1>10, <1>14, <1>15 DEF old, region

\* Another phase or event, when the queues of the current time fit it.
LEMMA ListMoves ==
  ASSUME NEW list, NEW now \in Nat, NEW nid \in Nat, NEW ph, NEW ev, NEW ph2, NEW ev2,
         Cells(list, now, nid, ph, ev),
         list # <<>> /\ list[1].delay = 0 => Staged(list[1].queue, ph2, ev2)
  PROVE  Cells(list, now, nid, ph2, ev2)
<1>0. Increasing(list)
  BY DEF Cells
<1>1. ASSUME NEW k \in 1..Len(list)
      PROVE  CellInv(list[k].queue, Elapsed(list, k), now, nid, ph2, ev2)
  <2>1. CellInv(list[k].queue, Elapsed(list, k), now, nid, ph, ev)
    BY DEF Cells
  <2>2. Elapsed(list, k) \in Nat
    BY <1>0, FirstIsNow
  <2>3. Elapsed(list, k) = 0 => Staged(list[k].queue, ph2, ev2)
    <3> SUFFICES ASSUME Elapsed(list, k) = 0 PROVE Staged(list[k].queue, ph2, ev2)
      OBVIOUS
    <3>1. list # <<>> /\ list[1].delay = 0
      BY <1>0, FirstIsNow
    <3>2. k = 1
      BY <1>0, FirstIsNow
    <3> QED BY <3>1, <3>2
  <2> QED BY <2>1, <2>2, <2>3, CellMoves
<1> QED
  BY <1>0, <1>1 DEF Cells

\* What the current cell holds.
LEMMA CurrentCell ==
  ASSUME NEW list, NEW now \in Nat, NEW nid \in Nat, NEW ph, NEW ev, Cells(list, now, nid, ph, ev),
         list # <<>>, list[1].delay = 0
  PROVE  CellCore(list[1].queue, 0, now, nid, ph, ev) /\ Staged(list[1].queue, ph, ev)
<1>0. Increasing(list)
  BY DEF Cells
<1>1. 1 \in 1..Len(list) /\ Elapsed(list, 1) = 0
  BY <1>0, FirstIsNow
<1>2. CellInv(list[1].queue, 0, now, nid, ph, ev)
  BY <1>1 DEF Cells
<1> QED
  BY <1>2 DEF CellInv, CellCore

\* The times of a list without its first cell, which is of the current time.
LEMMA DroppedTimes ==
  ASSUME NEW list, Increasing(list), list # <<>>, list[1].delay = 0
  PROVE  /\ Increasing(Tail(list)) /\ Len(Tail(list)) = Len(list) - 1
         /\ \A k \in 1..Len(Tail(list)) : /\ k + 1 \in 1..Len(list) /\ Tail(list)[k] = list[k + 1]
                                          /\ Elapsed(Tail(list), k) = Elapsed(list, k + 1)
<1>0. /\ Len(list) \in Nat /\ DOMAIN list = 1..Len(list) /\ list \in Seq(Cell)
      /\ \A j \in 1..Len(list) : list[j].delay \in Nat
  BY CellsOf DEF Increasing
<1> DEFINE new == Tail(list)
<1>1. /\ new \in Seq(Cell) /\ Len(new) = Len(list) - 1 /\ Len(new) \in Nat /\ DOMAIN new = 1..Len(new)
      /\ \A k \in 1..Len(new) : k + 1 \in 1..Len(list) /\ new[k] = list[k + 1]
  BY <1>0
<1> HIDE DEF new
<1> DEFINE f == [j \in 0..Len(new) |-> Elapsed(list, j + 1)]
<1>2. f[0] = 0 /\ \A j \in 1..Len(new) : f[j] = f[j - 1] + new[j].delay
  <2>1. Elapsed(list, 1) = 0
    BY FirstIsNow
  <2>2. \A j \in 1..Len(list) : Elapsed(list, j) = Elapsed(list, j - 1) + list[j].delay
    BY <1>0, ElapsedSum
  <2>3. ASSUME NEW j \in 1..Len(new) PROVE f[j] = f[j - 1] + new[j].delay
    <3>1. j + 1 \in 1..Len(list) /\ new[j] = list[j + 1] /\ (j + 1) - 1 = j
          /\ j \in 0..Len(new) /\ j - 1 \in 0..Len(new) /\ (j - 1) + 1 = j
      BY <1>1
    <3>2. Elapsed(list, j + 1) = Elapsed(list, j) + list[j + 1].delay
      BY <2>2, <3>1
    <3> QED BY <3>1, <3>2
  <2>4. f[0] = 0
    BY <1>1, <2>1
  <2> QED BY <2>3, <2>4
<1>3. \A j \in 0..Len(new) : Elapsed(new, j) = f[j]
  <2> HIDE DEF f
  <2> QED BY <1>1, <1>2, SumIsElapsed, Zenon
<1>4. \A j \in 1..Len(new) : Elapsed(new, j) = Elapsed(list, j + 1)
  BY <1>1, <1>3
<1>5. Increasing(new)
  <2>1. ASSUME NEW k \in DOMAIN new PROVE new[k].delay > 0
    <3>1. k + 1 \in DOMAIN list /\ new[k] = list[k + 1] /\ k + 1 > 1
      BY <1>0, <1>1
    <3> QED BY <3>1 DEF Increasing
  <2> QED BY <1>1, <2>1 DEF Increasing
<1> QED
  BY <1>1, <1>4, <1>5 DEF new

\* The cell of the current time is deleted when nothing waits in it.
LEMMA ListDrop ==
  ASSUME NEW list, NEW now \in Nat, NEW nid \in Nat, NEW ph, NEW ev, NEW ph2, NEW ev2,
         Cells(list, now, nid, ph, ev), list # <<>>, list[1].delay = 0,
         \A x : ~Holds(list[1].queue, x)
  PROVE  Cells(Tail(list), now, nid, ph2, ev2) /\ PendingIn(Tail(list)) = PendingIn(list)
<1> DEFINE new == Tail(list)
<1>0. Increasing(list)
  BY DEF Cells
<1>1. /\ Increasing(new) /\ Len(new) = Len(list) - 1
      /\ \A k \in 1..Len(new) : /\ k + 1 \in 1..Len(list) /\ new[k] = list[k + 1]
                                /\ Elapsed(new, k) = Elapsed(list, k + 1)
  BY <1>0, DroppedTimes
<1>2. Len(list) \in Nat
  BY <1>0, CellsOf DEF Increasing
<1> HIDE DEF new
<1>3. ASSUME NEW k \in 1..Len(new) PROVE CellInv(new[k].queue, Elapsed(new, k), now, nid, ph2, ev2)
  <2>1. k + 1 \in 1..Len(list) /\ new[k] = list[k + 1] /\ Elapsed(new, k) = Elapsed(list, k + 1)
        /\ k + 1 # 1
    BY <1>1, <1>2
  <2>2. CellInv(list[k + 1].queue, Elapsed(list, k + 1), now, nid, ph, ev)
    BY <2>1 DEF Cells
  <2>3. Elapsed(list, k + 1) \in Nat /\ Elapsed(list, k + 1) > 0
    BY <1>0, <2>1, FirstIsNow
  <2>4. CellInv(list[k + 1].queue, Elapsed(list, k + 1), now, nid, ph2, ev2)
    BY <2>2, <2>3, CellMoves
  <2> QED BY <2>1, <2>4
<1>4. ASSUME NEW x PROVE x \in PendingIn(new) <=> x \in PendingIn(list)
  <2>1. x \in PendingIn(new) <=> x.q # "next" /\ \E k \in 1..Len(new) : Holds(new[k].queue, x)
    BY <1>1, PendingHeld
  <2>2. x \in PendingIn(list) <=> x.q # "next" /\ LaterHeld(list, x)
    BY <1>0, PendingSplit
  <2>3. ASSUME NEW k \in 1..Len(new), Holds(new[k].queue, x) PROVE LaterHeld(list, x)
    <3>1. k + 1 \in 1..Len(list) /\ new[k] = list[k + 1] /\ k + 1 # 1
      BY <1>1, <1>2
    <3> QED BY <2>3, <3>1 DEF LaterHeld
  <2>4. ASSUME LaterHeld(list, x) PROVE \E k \in 1..Len(new) : Holds(new[k].queue, x)
    <3>1. PICK k \in 1..Len(list) : k # 1 /\ Holds(list[k].queue, x)
      BY <2>4 DEF LaterHeld
    <3>2. k - 1 \in 1..Len(new) /\ (k - 1) + 1 = k
      BY <1>1, <1>2, <3>1
    <3>3. new[k - 1] = list[k]
      BY <1>1, <3>2
    <3> QED BY <3>1, <3>2, <3>3
  <2> QED BY <2>1, <2>2, <2>3, <2>4
<1> QED
  BY <1>1, <1>3, <1>4 DEF Cells, new

\* new is list with the queues nq at the current time in its first cell.
FirstIsDue(list, nq, new) ==
  /\ new \in Seq(Cell) /\ Len(new) = Len(list)
  /\ new[1].delay = 0 /\ new[1].queue = nq
  /\ \A k \in 1..Len(list) : k # 1 => new[k] = list[k]

\* The times of the cells once the current time is that of the first.
LEMMA AdvancedTimes ==
  ASSUME NEW list, Increasing(list), list # <<>>, NEW nq, NEW new, FirstIsDue(list, nq, new)
  PROVE  /\ Increasing(new) /\ Elapsed(new, 1) = 0
         /\ \A k \in 1..Len(list) : k # 1 =>
              /\ Elapsed(new, k) = Elapsed(list, k) - list[1].delay
              /\ Elapsed(list, k) > list[1].delay
<1>0. /\ Len(list) \in Nat /\ DOMAIN list = 1..Len(list) /\ list \in Seq(Cell)
      /\ \A j \in 1..Len(list) : list[j].delay \in Nat
      /\ \A j \in 0..Len(list) : Elapsed(list, j) \in Nat
  BY CellsOf, ElapsedType DEF Increasing
<1>1. 1 \in 1..Len(list) /\ Elapsed(list, 1) = list[1].delay
  BY FirstIsNow
<1>3. /\ new \in Seq(Cell) /\ Len(new) = Len(list) /\ DOMAIN new = 1..Len(list)
      /\ new[1].queue = nq /\ new[1].delay = 0
      /\ \A k \in 1..Len(list) : k # 1 => new[k] = list[k]
  BY <1>0 DEF FirstIsDue
<1> DEFINE f == [j \in 0..Len(list) |-> IF j = 0 THEN 0 ELSE Elapsed(list, j) - list[1].delay]
<1>4. f[0] = 0 /\ \A j \in 1..Len(new) : f[j] = f[j - 1] + new[j].delay
  <2>1. f[0] = 0
    BY <1>0
  <2>2. ASSUME NEW j \in 1..Len(new) PROVE f[j] = f[j - 1] + new[j].delay
    <3>0. j \in 1..Len(list) /\ j \in 0..Len(list) /\ j - 1 \in 0..Len(list)
      BY <1>0, <1>3
    <3>1. CASE j = 1
      <4>1. f[1] = 0 /\ f[1 - 1] = 0 /\ new[1].delay = 0
        BY <1>0, <1>1, <1>3, <3>0, <3>1
      <4> QED BY <3>1, <4>1
    <3>2. CASE j # 1
      <4>1. Elapsed(list, j) = Elapsed(list, j - 1) + list[j].delay /\ new[j].delay = list[j].delay
        BY <1>0, <1>3, <3>0, <3>2, ElapsedSum
      <4>2. f[j] = Elapsed(list, j) - list[1].delay /\ f[j - 1] = Elapsed(list, j - 1) - list[1].delay
        BY <3>0, <3>2
      <4>3. Elapsed(list, j) \in Nat /\ Elapsed(list, j - 1) \in Nat /\ list[1].delay \in Nat
            /\ list[j].delay \in Nat
        BY <1>0, <1>1, <3>0
      <4>4. Elapsed(list, j) - list[1].delay = (Elapsed(list, j - 1) - list[1].delay) + list[j].delay
        BY <4>1, <4>3
      <4> HIDE DEF f
      <4> QED BY <4>1, <4>2, <4>4
    <3> QED BY <3>1, <3>2
  <2> QED BY <2>1, <2>2
<1>5. \A j \in 0..Len(new) : Elapsed(new, j) = f[j]
  <2> HIDE DEF f
  <2> QED BY <1>0, <1>3, <1>4, SumIsElapsed, Zenon
<1>6. \A j \in 1..Len(list) : Elapsed(new, j) = Elapsed(list, j) - list[1].delay
  BY <1>0, <1>3, <1>5
<1>7. Increasing(new)
  BY <1>0, <1>3 DEF Increasing
<1>8. Elapsed(new, 1) = 0
  BY <1>0, <1>1, <1>6
<1>9. \A k \in 1..Len(list) : k # 1 => Elapsed(list, k) > list[1].delay
  <2> SUFFICES ASSUME NEW k \in 1..Len(list), k # 1 PROVE Elapsed(list, k) > list[1].delay
    OBVIOUS
  <2>1. 1 < k
    BY <1>0
  <2>2. Elapsed(list, 1) < Elapsed(list, k)
    BY <1>1, <2>1, ElapsedIncreases
  <2>3. Elapsed(list, k) \in Nat /\ list[1].delay \in Nat
    BY <1>0, <1>1
  <2> QED BY <1>1, <2>2, <2>3
<1> QED
  BY <1>3, <1>6, <1>7, <1>8, <1>9

\* NextSimTime callbacks in front of a queue are no pending events.
LEMMA FrontHolds ==
  ASSUME NEW old \in QueueMap, NEW front \in Seq(Event), \A i \in DOMAIN front : front[i].q = "next",
         NEW x, x.q # "next"
  PROVE  Holds([old EXCEPT !["start"] = front \o old["start"]], x) <=> Holds(old, x)
<1> DEFINE nq == [old EXCEPT !["start"] = front \o old["start"]]
           s == old["start"]
<1>0. "start" \in Queues /\ DOMAIN old = Queues /\ s \in Seq(Event)
  BY QueueTypes, QueueNames
<1>1. nq["start"] = front \o s /\ \A r \in Queues : r # "start" => nq[r] = old[r]
  BY <1>0
<1>2. /\ Len(front) \in Nat /\ Len(s) \in Nat /\ DOMAIN front = 1..Len(front) /\ DOMAIN s = 1..Len(s)
      /\ DOMAIN (front \o s) = 1..(Len(front) + Len(s))
      /\ \A i \in 1..Len(front) : (front \o s)[i] = front[i]
      /\ \A i \in (Len(front) + 1)..(Len(front) + Len(s)) : (front \o s)[i] = s[i - Len(front)]
  <2> HIDE DEF s
  <2> QED BY <1>0, ConcatProperties
<1> HIDE DEF nq
<1>3. ASSUME NEW r \in Queues, NEW i \in DOMAIN nq[r], nq[r][i] = x PROVE Holds(old, x)
  <2>1. CASE r # "start"
    BY <1>1, <1>3, <2>1 DEF Holds
  <2>2. CASE r = "start"
    <3>1. i \in 1..(Len(front) + Len(s)) /\ (front \o s)[i] = x
      BY <1>1, <1>2, <1>3, <2>2
    <3>2. i \notin 1..Len(front)
      <4> SUFFICES ASSUME i \in 1..Len(front) PROVE FALSE
        OBVIOUS
      <4>1. x = front[i] /\ i \in DOMAIN front
        BY <1>2, <3>1
      <4> QED BY <4>1
    <3>3. i \in (Len(front) + 1)..(Len(front) + Len(s)) /\ i - Len(front) \in DOMAIN s
      BY <1>2, <3>1, <3>2
    <3>4. s[i - Len(front)] = x
      BY <1>2, <3>1, <3>3
    <3> QED BY <1>0, <3>3, <3>4 DEF Holds
  <2> QED BY <2>1, <2>2
<1>4. ASSUME NEW r \in Queues, NEW i \in DOMAIN old[r], old[r][i] = x PROVE Holds(nq, x)
  <2>1. CASE r # "start"
    BY <1>1, <1>4, <2>1 DEF Holds
  <2>2. CASE r = "start"
    <3>1. i \in 1..Len(s) /\ s[i] = x
      BY <1>2, <1>4, <2>2
    <3>2. i + Len(front) \in (Len(front) + 1)..(Len(front) + Len(s))
          /\ i + Len(front) \in 1..(Len(front) + Len(s)) /\ (i + Len(front)) - Len(front) = i
      BY <1>2, <3>1
    <3>3. (front \o s)[i + Len(front)] = x /\ i + Len(front) \in DOMAIN (front \o s)
      BY <1>2, <3>1, <3>2
    <3> QED BY <1>0, <1>1, <3>3 DEF Holds
  <2> QED BY <2>1, <2>2
<1>5. Holds(nq, x) <=> Holds(old, x)
  BY <1>3, <1>4 DEF Holds
<1> QED
  BY <1>5 DEF nq

\* What advancing the time by d to the first cell does: what is pending stays,
\* some of it is due at the new time and none of it was due earlier.
Advanced(list, d, now, nid, new) ==
  /\ Cells(new, now + d, nid, "start", None) /\ new # <<>> /\ new[1].delay = 0
  /\ Len(new) = Len(list)
  /\ PendingIn(new) = PendingIn(list)
  /\ \A e \in PendingIn(list) : e.due >= now + d /\ e.due \in Nat
  /\ \E e \in PendingIn(list) : e.due = now + d

\* Time advances to the first cell.
LEMMA ListAdvance ==
  ASSUME NEW list, NEW now \in Nat, NEW nid \in Nat, NEW ph, NEW ev,
         Cells(list, now, nid, ph, ev), list # <<>>, list[1].delay > 0,
         NEW front \in Seq(Event), Apart(front, "next", now, nid)
  PROVE  Advanced(list, list[1].delay, now, nid,
                  [list EXCEPT ![1] = [delay |-> 0,
                     queue |-> [list[1].queue EXCEPT !["start"] = front \o list[1].queue["start"]]]])
<1> DEFINE d == list[1].delay  old == list[1].queue
           nq == [old EXCEPT !["start"] = front \o old["start"]]
           new == [list EXCEPT ![1] = [delay |-> 0, queue |-> nq]]
<1>0. Increasing(list) /\ \A k \in 1..Len(list) :
        CellInv(list[k].queue, Elapsed(list, k), now, nid, ph, ev)
  BY DEF Cells
<1>1. /\ 1 \in 1..Len(list) /\ Elapsed(list, 1) = d /\ d \in Nat /\ old \in QueueMap /\ d > 0
      /\ Len(list) \in Nat /\ \A k \in 1..Len(list) : Elapsed(list, k) \in Nat
  BY <1>0, FirstIsNow, CellsOf DEF Increasing
<1>2. CellInv(old, d, now, nid, ph, ev)
  BY <1>0, <1>1
<1> HIDE DEF d, old
<1>3. \A i \in DOMAIN front : front[i].q = "next" /\ front[i].due <= now /\ front[i].id < nid
  BY DEF Apart
<1>4. front \o old["start"] \in Seq(Event) /\ CellInv(nq, 0, now + d, nid, "start", None)
  BY <1>1, <1>2, <1>3, CellAdvance
<1>5. nq \in QueueMap
  <2> HIDE DEF nq
  <2> QED BY <1>4 DEF CellInv, CellCore
<1> HIDE DEF nq
<1>6. /\ Increasing(new) /\ Len(new) = Len(list)
      /\ new[1].queue = nq /\ new[1].delay = 0 /\ Elapsed(new, 1) = 0
      /\ \A k \in 1..Len(list) : k # 1 =>
           /\ new[k] = list[k] /\ Elapsed(new, k) = Elapsed(list, k) - d /\ Elapsed(list, k) > d
  <2>1. [delay |-> 0, queue |-> nq] \in Cell
    BY <1>5 DEF Cell
  <2>2. list \in Seq(Cell)
    BY <1>0 DEF Increasing
  <2>3. /\ new \in Seq(Cell) /\ Len(new) = Len(list)
        /\ new[1].delay = 0 /\ new[1].queue = nq
        /\ \A k \in 1..Len(list) : k # 1 => new[k] = list[k]
    BY <1>1, <2>1, <2>2
  <2> HIDE DEF new
  <2>4. FirstIsDue(list, nq, new)
    BY <2>3 DEF FirstIsDue
  <2>5. /\ Increasing(new) /\ Elapsed(new, 1) = 0
        /\ \A k \in 1..Len(list) : k # 1 =>
             /\ Elapsed(new, k) = Elapsed(list, k) - list[1].delay
             /\ Elapsed(list, k) > list[1].delay
    BY <1>0, <2>4, AdvancedTimes
  <2> QED BY <2>3, <2>5 DEF d
<1> HIDE DEF new
<1>7. ASSUME NEW k \in 1..Len(new)
      PROVE  CellInv(new[k].queue, Elapsed(new, k), now + d, nid, "start", None)
  <2>1. CASE k = 1
    BY <1>4, <1>6, <2>1
  <2>2. CASE k # 1
    <3>1. k \in 1..Len(list) /\ new[k] = list[k] /\ Elapsed(new, k) = Elapsed(list, k) - d
          /\ Elapsed(list, k) > d /\ Elapsed(list, k) \in Nat
      BY <1>1, <1>6, <2>2
    <3>2. CellInv(list[k].queue, Elapsed(list, k), now, nid, ph, ev)
      BY <1>0, <3>1
    <3>3. CellInv(list[k].queue, Elapsed(list, k) - d, now + d, nid, "start", None)
      BY <1>1, <3>1, <3>2, CellWaits
    <3> QED BY <3>1, <3>3
  <2> QED BY <2>1, <2>2
<1>8. new # <<>>
  <2>1. Len(new) # 0
    BY <1>1, <1>6
  <2> QED BY <2>1
<1>9. \A x : LaterHeld(new, x) <=> LaterHeld(list, x)
  BY <1>6 DEF LaterHeld
<1>10. \A x : x.q # "next" => (Holds(nq, x) <=> Holds(old, x))
  BY <1>1, <1>3, FrontHolds DEF nq
<1>11. \A x : x \in PendingIn(new) <=> x \in PendingIn(list)
  <2>1. \A x : x \in PendingIn(new) <=> x.q # "next" /\ (Holds(nq, x) \/ LaterHeld(new, x))
    BY <1>6, <1>8, PendingSplit
  <2>2. \A x : x \in PendingIn(list) <=> x.q # "next" /\ (Holds(old, x) \/ LaterHeld(list, x))
    BY <1>0, PendingSplit DEF old
  <2> QED BY <1>9, <1>10, <2>1, <2>2
<1>12. PendingIn(new) = PendingIn(list)
  BY <1>11
<1>13. ASSUME NEW q \in Queues, NEW i \in DOMAIN old[q]
       PROVE  old[q][i].q = q /\ old[q][i].due = now + d /\ q # "next" /\ old[q][i] \in Event
  <2>1. Fits(old[q][i], q, d, now, nid)
    BY <1>2 DEF CellInv, CellCore
  <2>2. old[q][i].q = q /\ old[q][i].due = now + d
    BY <1>1, <2>1 DEF Fits
  <2>3. q # "next"
    BY DEF Queues
  <2>4. old[q] \in Seq(Event)
    BY <1>1, QueueTypes
  <2> QED BY <2>2, <2>3, <2>4
<1>14. ASSUME NEW e \in PendingIn(list) PROVE e.due >= now + d /\ e.due \in Nat
  <2>1. PICK k \in 1..Len(list) : Holds(list[k].queue, e)
    BY <1>0, PendingHeld
  <2>2. CASE k = 1
    <3>1. PICK q \in Queues : \E i \in DOMAIN old[q] : old[q][i] = e
      BY <2>1, <2>2 DEF Holds, old
    <3>2. PICK i \in DOMAIN old[q] : old[q][i] = e
      BY <3>1
    <3>3. e.due = now + d
      BY <1>13, <3>2
    <3> QED BY <1>1, <3>3
  <2>3. CASE k # 1
    <3>0. CellInv(new[k].queue, Elapsed(new, k), now + d, nid, "start", None) /\ Holds(new[k].queue, e)
          /\ Elapsed(new, k) \in Nat
      <4>1. Elapsed(new, k) \in Nat
        BY <1>1, <1>6, <2>3
      <4> QED BY <1>6, <1>7, <2>1, <2>3, <4>1
    <3>1. LaterHeld(new, e)
      BY <1>6, <2>3, <3>0 DEF LaterHeld
    <3>2. Cells(new, now + d, nid, "start", None)
      BY <1>6, <1>7 DEF Cells
    <3>3. now + d \in Nat
      BY <1>1
    <3>4. e.due > now + d /\ e \in Event
      BY <3>1, <3>2, <3>3, LaterIsDueLater
    <3>5. e.due \in Nat
      BY <3>4 DEF Event
    <3> QED BY <3>3, <3>4, <3>5
  <2> QED BY <2>2, <2>3
<1>15. \E e \in PendingIn(list) : e.due = now + d
  <2>1. PICK q \in Queues : old[q] # <<>>
    BY <1>1, <1>2 DEF CellInv
  <2>2. old[q] \in Seq(Event)
    BY <1>1, QueueTypes
  <2>3. 1 \in DOMAIN old[q]
    BY <2>1, <2>2, Rest
  <2>4. Holds(old, old[q][1])
    BY <2>3 DEF Holds
  <2>5. old[q][1].q # "next" /\ old[q][1].due = now + d
    BY <1>13, <2>3
  <2>6. old[q][1] \in PendingIn(list)
    BY <1>0, <1>1, <2>4, <2>5, PendingHeld DEF old
  <2> QED BY <2>5, <2>6
<1>16. Advanced(list, d, now, nid, new)
  BY <1>6, <1>7, <1>8, <1>12, <1>14, <1>15 DEF Advanced, Cells
<1> QED
  BY <1>16 DEF d, old, new, nq

\* What is pending is numbered and not overdue.
LEMMA PendingIsDue ==
  ASSUME NEW list, NEW now \in Nat, NEW nid \in Nat, NEW ph, NEW ev, Cells(list, now, nid, ph, ev),
         NEW e \in PendingIn(list)
  PROVE  e \in Event /\ e.id < nid /\ e.due >= now
<1>0. Increasing(list)
  BY DEF Cells
<1>1. PICK k \in 1..Len(list) : e.q # "next" /\ Holds(list[k].queue, e)
  BY <1>0, PendingHeld
<1>2. CellInv(list[k].queue, Elapsed(list, k), now, nid, ph, ev) /\ Elapsed(list, k) \in Nat
  BY <1>0, FirstIsNow DEF Cells
<1> DEFINE queue == list[k].queue  offset == Elapsed(list, k)
<1> HIDE DEF queue, offset
<1>3. /\ queue \in QueueMap /\ offset \in Nat
      /\ \A q \in Queues : \A i \in DOMAIN queue[q] : Fits(queue[q][i], q, offset, now, nid)
  BY <1>2 DEF CellInv, CellCore, queue, offset
<1>4. PICK q \in Queues : \E i \in DOMAIN queue[q] : queue[q][i] = e
  BY <1>1 DEF Holds, queue
<1>5. PICK i \in DOMAIN queue[q] : queue[q][i] = e
  BY <1>4
<1>6. Fits(e, q, offset, now, nid)
  BY <1>3, <1>5
<1>7. e \in Event
  <2>1. queue[q] \in Seq(Event)
    BY <1>3, QueueTypes
  <2> QED BY <1>5, <2>1
<1>8. e.id < nid /\ (e.due = now + offset \/ e.due = now)
  BY <1>1, <1>6 DEF Fits
<1> QED
  BY <1>3, <1>7, <1>8

-----------------------------------------------------------------------------
(* The steps of the scheduler. *)

\* A step of the agenda, or none.
AgendaStep == [Agenda!Next]_<<Pending, schedule_time, pc \in {"final", "done"}>>

\* What every step does: it keeps the invariant, it is a step of the agenda or
\* none, and it deletes no cell that holds an event.
StepIsGood == SchedInv' /\ AgendaStep /\ CellIsEmpty

\* A call that puts an event on a list of its own or in a cell.
LEMMA CallKeepsTypes ==
  ASSUME ScheduleAssumption, SchedInv, next_id <= MaxEvents, next_id' = next_id + 1,
         UNCHANGED <<schedule_time, flags, pc, cur, ran>>,
         Cells(sched_list', schedule_time, next_id + 1, pc, cur),
         init_list' \in Seq(Event), final_list' \in Seq(Event), next_sim_time' \in Seq(Event)
  PROVE  /\ TypeOK' /\ Cells(sched_list', schedule_time', next_id', pc', cur')
<1>1. next_id' \in 1..(MaxEvents + 1)
  BY DEF ScheduleAssumption, SchedInv, TypeOK
<1>2. sched_list' \in Seq([delay : Nat, queue : [Queues -> Seq(Event)]])
  BY DEF Cells, Increasing, Cell, QueueMap
<1>3. TypeOK'
  BY <1>1, <1>2 DEF SchedInv, TypeOK, flags
<1> QED
  BY <1>3

\* An event is scheduled.
LEMMA CallKeeps ==
  ASSUME ScheduleAssumption, SchedInv, NEW e, next_id <= MaxEvents,
         e.id = next_id, e.due >= schedule_time,
         Scheduled(sched_list, e, schedule_time, next_id, pc, cur, sched_list'),
         next_id' = next_id + 1, UNCHANGED <<lists, schedule_time, flags, pc, cur, ran>>
  PROVE  StepIsGood
<1>1. /\ Cells(sched_list', schedule_time, next_id + 1, pc, cur)
      /\ PendingIn(sched_list') = PendingIn(sched_list) \cup {e}
      /\ Len(sched_list') >= Len(sched_list)
      /\ sched_list # <<>> /\ sched_list[1].delay = 0 => sched_list' # <<>> /\ sched_list'[1].delay = 0
  BY DEF Scheduled
<1>2. TypeOK' /\ Cells(sched_list', schedule_time', next_id', pc', cur')
  BY <1>1, CallKeepsTypes DEF SchedInv, TypeOK, lists
<1>3. next_id \in Nat /\ schedule_time \in Nat /\ sched_list \in Seq(Cell)
  BY DEF SchedInv, TypeOK, ScheduleAssumption, Cell, QueueMap
<1>4. \A l \in {init_list, final_list, next_sim_time} : \A q :
        l \in Seq(Event) /\ Apart(l, q, schedule_time, next_id) => Apart(l, q, schedule_time, next_id + 1)
  <2>1. \A x \in Event : x.id \in Int
    BY DEF Event
  <2> QED BY <1>3, <2>1 DEF Apart
<1>5. PhaseInv'
  <2>1. /\ Apart(init_list, "init", schedule_time, next_id + 1)
        /\ Apart(final_list, "final", schedule_time, next_id + 1)
        /\ Apart(next_sim_time, "next", schedule_time, next_id + 1)
    BY <1>4 DEF SchedInv, PhaseInv, TypeOK
  <2> QED BY <1>1, <2>1 DEF SchedInv, PhaseInv, lists
<1>6. AgendaStep
  <2>1. Pending = PendingIn(sched_list) /\ Pending' = PendingIn(sched_list')
    BY DEF Pending, PendingIn
  <2>2. e \notin PendingIn(sched_list)
    <3> SUFFICES ASSUME e \in PendingIn(sched_list) PROVE FALSE
      OBVIOUS
    <3>1. Cells(sched_list, schedule_time, next_id, pc, cur)
      BY DEF SchedInv
    <3>2. e.id < next_id
      BY <1>3, <3>1, PendingIsDue
    <3> QED BY <1>3, <3>2
  <2>3. e \in Pending' \ Pending /\ Pending' = Pending \union {e}
    BY <1>1, <2>1, <2>2
  <2>4. Agenda!Schedule
    BY <2>3 DEF Agenda!Schedule
  <2> QED BY <2>4 DEF AgendaStep, Agenda!Next
<1>7. CellIsEmpty
  BY <1>1, <1>2, <1>3 DEF CellIsEmpty, TypeOK
<1> QED
  BY <1>2, <1>5, <1>6, <1>7 DEF StepIsGood, SchedInv

\* An event is put on a list of its own; the cells stay as they are.
LEMMA ApartKeeps ==
  ASSUME ScheduleAssumption, SchedInv, next_id <= MaxEvents, next_id' = next_id + 1,
         UNCHANGED <<sched_list, schedule_time, flags, pc, cur, ran>>,
         init_list' \in Seq(Event), final_list' \in Seq(Event), next_sim_time' \in Seq(Event),
         Apart(init_list', "init", schedule_time, next_id + 1),
         Apart(final_list', "final", schedule_time, next_id + 1),
         Apart(next_sim_time', "next", schedule_time, next_id + 1)
  PROVE  StepIsGood
<1>1. next_id \in Nat /\ schedule_time \in Nat /\ sched_list \in Seq(Cell)
  BY DEF SchedInv, TypeOK, ScheduleAssumption, Cell, QueueMap
<1>2. Cells(sched_list, schedule_time, next_id + 1, pc, cur)
  BY <1>1, ListGrows DEF SchedInv
<1>3. TypeOK' /\ Cells(sched_list', schedule_time', next_id', pc', cur')
  BY <1>2, CallKeepsTypes
<1>4. PhaseInv'
  BY DEF SchedInv, PhaseInv
<1>5. AgendaStep
  BY DEF AgendaStep, Pending
<1>6. CellIsEmpty
  BY <1>1 DEF CellIsEmpty
<1> QED
  BY <1>3, <1>4, <1>5, <1>6 DEF StepIsGood, SchedInv

\* A list of events apart from the cells, once another event is numbered.
LEMMA ApartGrows ==
  ASSUME NEW list \in Seq(Event), NEW q, NEW now, NEW nid \in Nat, Apart(list, q, now, nid)
  PROVE  Apart(list, q, now, nid + 1)
<1>1. \A x \in Event : x.id \in Int
  BY DEF Event
<1> QED
  BY <1>1 DEF Apart

\* The lists apart from the cells, before a call.
LEMMA ApartLists ==
  ASSUME ScheduleAssumption, SchedInv
  PROVE  /\ init_list \in Seq(Event) /\ final_list \in Seq(Event) /\ next_sim_time \in Seq(Event)
         /\ Apart(init_list, "init", schedule_time, next_id + 1)
         /\ Apart(final_list, "final", schedule_time, next_id + 1)
         /\ Apart(next_sim_time, "next", schedule_time, next_id + 1)
         /\ next_id \in Nat /\ schedule_time \in Nat
<1>1. next_id \in Nat /\ schedule_time \in Nat
  BY DEF SchedInv, TypeOK, ScheduleAssumption
<1>2. init_list \in Seq(Event) /\ final_list \in Seq(Event) /\ next_sim_time \in Seq(Event)
  BY DEF SchedInv, TypeOK
<1> QED
  BY <1>1, <1>2, ApartGrows DEF SchedInv, PhaseInv

\* The record a call makes for its event.
LEMMA NewEventType ==
  ASSUME ScheduleAssumption, SchedInv, next_id <= MaxEvents,
         NEW kind \in Kinds, NEW q \in Queues \union {"init", "final", "next"}, NEW delay \in Nat
  PROVE  /\ NewEvent(kind, q, delay) \in Event
         /\ NewEvent(kind, q, delay).id = next_id /\ NewEvent(kind, q, delay).kind = kind
         /\ NewEvent(kind, q, delay).q = q /\ NewEvent(kind, q, delay).due = schedule_time + delay
<1>1. next_id \in 1..MaxEvents /\ schedule_time + delay \in Nat
  BY DEF SchedInv, TypeOK, ScheduleAssumption
<1> QED
  BY <1>1 DEF NewEvent, Event

\* Nobody schedules while the ended threads are deleted.
LEMMA NoCallInDelThr ==
  ASSUME SchedInv, Running
  PROVE  pc # "del_thr" /\ (pc \in {"compile", "stop"} => cur = None)
  BY DEF SchedInv, PhaseInv, Running, None

\* An event is put on queue q, delay from now.
LEMMA EnqueueKeeps ==
  ASSUME ScheduleAssumption, SchedInv, next_id <= MaxEvents, Running,
         NEW kind \in Kinds, NEW q \in Queues, NEW delay \in Nat, Enqueue(kind, q, delay),
         q = "nbassign" => kind = "update", q = "del_thr" => kind = "reap",
         delay = 0 => q # "start" /\ (pc = "rosync" => q \in {"rosync", "del_thr"})
  PROVE  StepIsGood
<1> DEFINE e == NewEvent(kind, q, delay)
<1>1. e \in Event /\ e.id = next_id /\ e.kind = kind /\ e.q = q /\ e.due = schedule_time + delay
  BY NewEventType
<1>2. next_id \in Nat /\ schedule_time \in Nat /\ Cells(sched_list, schedule_time, next_id, pc, cur)
  BY DEF SchedInv, TypeOK, ScheduleAssumption
<1> HIDE DEF e
<1>3. MayPlace(e, q, delay, schedule_time, next_id, pc)
  BY <1>1, NoCallInDelThr DEF MayPlace
<1>4. Scheduled(sched_list, e, schedule_time, next_id, pc, cur, schedule_event_(sched_list, e, delay, q))
  BY <1>2, <1>3, ListSchedule
<1>5. /\ sched_list' = schedule_event_(sched_list, e, delay, q) /\ next_id' = next_id + 1
      /\ UNCHANGED <<lists, schedule_time, flags, pc, cur, ran>>
  BY DEF Enqueue, e
<1>6. e.due >= schedule_time
  BY <1>1, <1>2
<1> QED
  BY <1>1, <1>4, <1>5, <1>6, CallKeeps

\* A thread is scheduled, pushed or not.
LEMMA VThreadKeeps ==
  ASSUME ScheduleAssumption, SchedInv, NEW delay \in Delays, NEW push_flag \in BOOLEAN,
         schedule_vthread(delay, push_flag)
  PROVE  StepIsGood
<1>0. /\ delay \in Nat /\ next_id <= MaxEvents /\ Running /\ Legal(delay)
      /\ "thread" \in Kinds /\ "active" \in Queues
  BY QueueNames DEF ScheduleAssumption, schedule_vthread, Caller, Kinds
<1>1. CASE push_flag /\ delay = 0
  <2> DEFINE e == NewEvent("thread", "active", 0)
  <2>1. /\ sched_list' = schedule_event_push_(sched_list, e) /\ next_id' = next_id + 1
        /\ UNCHANGED <<lists, schedule_time, flags, pc, cur, ran>>
        /\ cur.kind = "thread" \/ pc = "compile"
    BY <1>1 DEF schedule_vthread
  <2>2. e \in Event /\ e.id = next_id /\ e.q = "active" /\ e.due = schedule_time + 0
    BY <1>0, NewEventType
  <2>3. next_id \in Nat /\ schedule_time \in Nat /\ Cells(sched_list, schedule_time, next_id, pc, cur)
    BY DEF SchedInv, TypeOK, ScheduleAssumption
  <2> HIDE DEF e
  <2>4. MayPlace(e, "active", 0, schedule_time, next_id, pc)
    BY <1>0, <1>1, <2>2, NoCallInDelThr DEF MayPlace, Legal
  <2>5. pc # "stop" /\ (pc = "loop" => cur # None /\ cur.q # "nbassign")
    BY <2>1 DEF SchedInv, PhaseInv, None
  <2>6. Scheduled(sched_list, e, schedule_time, next_id, pc, cur, sched_list')
    BY <2>1, <2>3, <2>4, <2>5, ListPush
  <2>7. e.due >= schedule_time
    BY <2>2, <2>3
  <2> QED BY <1>0, <2>1, <2>2, <2>6, <2>7, CallKeeps
<1>2. CASE ~(push_flag /\ delay = 0)
  <2>1. Enqueue("thread", "active", delay)
    BY <1>2 DEF schedule_vthread
  <2>2. delay = 0 => pc # "rosync"
    BY <1>0 DEF Legal
  <2> QED BY <1>0, <2>1, <2>2, EnqueueKeeps
<1> QED
  BY <1>1, <1>2

\* The record for an event of the initialisation list.
LEMMA InitEventType ==
  ASSUME ScheduleAssumption, SchedInv, next_id <= MaxEvents, NEW kind \in Kinds
  PROVE  /\ NewEvent(kind, "init", 0) \in Event /\ NewEvent(kind, "init", 0).id = next_id
         /\ NewEvent(kind, "init", 0).q = "init"
         /\ NewEvent(kind, "init", 0).due = schedule_time + 0
<1>1. "init" \in Queues \union {"init", "final", "next"} /\ 0 \in Nat
  OBVIOUS
<1> QED
  BY <1>1, NewEventType

\* A value change is scheduled before the simulation has started, or a thread
\* for its start: the initialisation list.
LEMMA InitKeeps ==
  ASSUME ScheduleAssumption, SchedInv, next_id <= MaxEvents, NEW kind \in Kinds,
         init_list' = Append(init_list, NewEvent(kind, "init", 0)), next_id' = next_id + 1,
         UNCHANGED <<sched_list, final_list, next_sim_time, schedule_time, flags, pc, cur, ran>>
  PROVE  StepIsGood
<1> DEFINE e == NewEvent(kind, "init", 0)
<1>1. e \in Event /\ e.id = next_id /\ e.q = "init" /\ e.due = schedule_time + 0
  BY InitEventType
<1> HIDE DEF e
<1>2. init_list' = Append(init_list, e)
  BY DEF e
<1>3. init_list' \in Seq(Event) /\ Apart(init_list', "init", schedule_time, next_id + 1)
  BY <1>1, <1>2, ApartLists, Behind DEF Apart
<1> QED
  BY <1>3, ApartLists, ApartKeeps

\* A final block is scheduled.
LEMMA FinalKeeps ==
  ASSUME ScheduleAssumption, SchedInv, schedule_final_vthread
  PROVE  StepIsGood
<1> DEFINE e == NewEvent("thread", "final", 0)
<1>0. next_id <= MaxEvents /\ "thread" \in Kinds
  BY DEF schedule_final_vthread, Caller, Kinds
<1>1. e \in Event /\ e.id = next_id /\ e.q = "final" /\ e.due = schedule_time + 0
  BY <1>0, NewEventType
<1> HIDE DEF e
<1>2. /\ final_list' = Append(final_list, e) /\ next_id' = next_id + 1
      /\ UNCHANGED <<sched_list, init_list, next_sim_time, schedule_time, flags, pc, cur, ran>>
  BY DEF e, schedule_final_vthread
<1>3. final_list' \in Seq(Event) /\ Apart(final_list', "final", schedule_time, next_id + 1)
  BY <1>1, <1>2, ApartLists, Behind DEF Apart
<1> QED
  BY <1>0, <1>2, <1>3, ApartLists, ApartKeeps

\* A NextSimTime callback is registered.
LEMMA NextSimTimeKeeps ==
  ASSUME ScheduleAssumption, SchedInv, register_next_sim_time
  PROVE  StepIsGood
<1> DEFINE e == NewEvent("callback", "next", 0)
<1>0. next_id <= MaxEvents /\ "callback" \in Kinds
  BY DEF register_next_sim_time, Caller, Kinds
<1>1. e \in Event /\ e.id = next_id /\ e.q = "next" /\ e.due = schedule_time + 0
  BY <1>0, NewEventType
<1> HIDE DEF e
<1>2. /\ next_sim_time' = <<e>> \o next_sim_time /\ next_id' = next_id + 1
      /\ UNCHANGED <<sched_list, init_list, final_list, schedule_time, flags, pc, cur, ran>>
  BY DEF e, register_next_sim_time
<1>3. next_sim_time' \in Seq(Event) /\ Apart(next_sim_time', "next", schedule_time, next_id + 1)
  <2> DEFINE s == next_sim_time  t == <<e>> \o s
  <2>1. s \in Seq(Event) /\ Apart(s, "next", schedule_time, next_id + 1) /\ next_id \in Nat
        /\ schedule_time \in Nat
    BY ApartLists
  <2> HIDE DEF s
  <2>2. <<e>> \in Seq(Event) /\ Len(<<e>>) = 1 /\ <<e>>[1] = e
    BY <1>1
  <2>3. /\ t \in Seq(Event) /\ Len(t) = Len(<<e>>) + Len(s)
        /\ \A i \in 1..(Len(<<e>>) + Len(s)) :
             t[i] = IF i <= Len(<<e>>) THEN <<e>>[i] ELSE s[i - Len(<<e>>)]
    BY <2>1, <2>2, ConcatProperties
  <2> HIDE DEF t
  <2>4. ASSUME NEW i \in DOMAIN t PROVE t[i] = e \/ \E j \in DOMAIN s : t[i] = s[j]
    <3>1. Len(s) \in Nat /\ DOMAIN s = 1..Len(s) /\ i \in 1..(1 + Len(s))
      BY <2>1, <2>2, <2>3
    <3>2. CASE i = 1
      BY <2>2, <2>3, <3>1, <3>2
    <3>3. CASE i # 1
      <4>1. i - 1 \in DOMAIN s /\ ~(i <= 1)
        BY <3>1, <3>3
      <4>2. t[i] = s[i - 1]
        BY <2>2, <2>3, <3>1, <4>1
      <4> QED BY <4>1, <4>2
    <3> QED BY <3>2, <3>3
  <2>5. e.q = "next" /\ e.due <= schedule_time /\ e.id < next_id + 1
    BY <1>1, <2>1
  <2>6. Apart(t, "next", schedule_time, next_id + 1)
    BY <2>1, <2>4, <2>5 DEF Apart
  <2> QED BY <1>2, <2>3, <2>6 DEF s, t
<1> QED
  BY <1>0, <1>2, <1>3, ApartLists, ApartKeeps

\* A step that changes no list, number or time, and not the phase.
LEMMA FlagKeeps ==
  ASSUME SchedInv, runnable' \in BOOLEAN, stopped' \in BOOLEAN, single_step' \in BOOLEAN,
         stops' \in 0..MaxStops,
         UNCHANGED <<sched_list, lists, schedule_time, pc, cur, next_id, ran>>
  PROVE  StepIsGood
<1>1. TypeOK'
  BY DEF SchedInv, TypeOK, lists
<1>2. Cells(sched_list, schedule_time, next_id, pc, cur)'
  BY DEF SchedInv
<1>3. PhaseInv'
  BY DEF SchedInv, PhaseInv, lists
<1>4. AgendaStep
  BY DEF AgendaStep, Pending
<1>5. CellIsEmpty
  <2>1. Len(sched_list) \in Nat
    BY DEF SchedInv, TypeOK
  <2> QED BY <2>1 DEF CellIsEmpty
<1> QED
  BY <1>1, <1>2, <1>3, <1>4, <1>5 DEF StepIsGood, SchedInv

\* Every scheduling function.
LEMMA CallStep ==
  ASSUME ScheduleAssumption, ~StartNow, SchedInv, Call
  PROVE  StepIsGood
<1>0. /\ "thread" \in Kinds /\ "update" \in Kinds /\ "callback" \in Kinds /\ "reap" \in Kinds
      /\ Delays \subseteq Nat /\ 0 \in Nat
  BY DEF Kinds, ScheduleAssumption
<1>1. ASSUME NEW d \in Delays, NEW p \in BOOLEAN, schedule_vthread(d, p) PROVE StepIsGood
  BY <1>1, VThreadKeeps
<1>2. ASSUME NEW d \in Delays, schedule_assign_vector(d) PROVE StepIsGood
  <2>1. d \in Nat /\ next_id <= MaxEvents /\ Running /\ Enqueue("update", "nbassign", d)
        /\ (d = 0 => pc # "rosync")
    BY <1>0, <1>2 DEF schedule_assign_vector, Caller, Legal
  <2> QED BY <1>0, <2>1, QueueNames, EnqueueKeeps
<1>3. ASSUME NEW d \in Delays, schedule_at_start_of_simtime(d) PROVE StepIsGood
  <2>1. d \in Nat /\ next_id <= MaxEvents /\ Running /\ Enqueue("callback", "start", d) /\ d # 0
    BY <1>0, <1>3 DEF schedule_at_start_of_simtime, Caller
  <2> QED BY <1>0, <2>1, QueueNames, EnqueueKeeps
<1>4. ASSUME NEW d \in Delays, NEW s \in BOOLEAN, NEW r \in BOOLEAN, schedule_generic(d, s, r)
      PROVE  StepIsGood
  <2> DEFINE q == IF ~ s THEN "active" ELSE IF r THEN "rosync" ELSE "rwsync"
  <2>1. d \in Nat /\ next_id <= MaxEvents /\ Running /\ Enqueue("callback", q, d)
        /\ ((s /\ r) \/ (d = 0 => pc # "rosync"))
    BY <1>0, <1>4 DEF schedule_generic, Caller, Legal
  <2>2. q \in {"active", "rosync", "rwsync"} /\ (s /\ r => q = "rosync")
    OBVIOUS
  <2> HIDE DEF q
  <2>3. q \in Queues /\ q # "nbassign" /\ q # "del_thr" /\ q # "start"
    BY <2>2, QueueNames
  <2>4. d = 0 => (pc = "rosync" => q \in {"rosync", "del_thr"})
    BY <2>1, <2>2
  <2> QED BY <1>0, <2>1, <2>3, <2>4, EnqueueKeeps
<1>5. CASE schedule_inactive
  <2>1. next_id <= MaxEvents /\ Running /\ Enqueue("thread", "inactive", 0) /\ pc # "rosync"
    BY <1>5 DEF schedule_inactive, Caller, Legal
  <2> QED BY <1>0, <2>1, QueueNames, EnqueueKeeps
<1>6. CASE schedule_functor
  <2>1. next_id <= MaxEvents /\ Running /\ pc # "rosync"
    BY <1>6 DEF schedule_functor, Caller, Legal
  <2>2. CASE pc \in {"compile", "init"}
    <3>1. /\ init_list' = Append(init_list, NewEvent("update", "init", 0)) /\ next_id' = next_id + 1
          /\ UNCHANGED <<sched_list, final_list, next_sim_time, schedule_time, flags, pc, cur, ran>>
      BY <1>6, <2>2 DEF schedule_functor
    <3> QED BY <1>0, <2>1, <3>1, InitKeeps
  <2>3. CASE pc \notin {"compile", "init"}
    <3>1. Enqueue("update", "active", 0)
      BY <1>6, <2>3 DEF schedule_functor
    <3> QED BY <1>0, <2>1, <3>1, QueueNames, EnqueueKeeps
  <2> QED BY <2>2, <2>3
<1>7. CASE schedule_del_thr
  <2>1. next_id <= MaxEvents /\ Running /\ Enqueue("reap", "del_thr", 0)
    BY <1>7 DEF schedule_del_thr, Caller
  <2> QED BY <1>0, <2>1, QueueNames, EnqueueKeeps
<1>8. ASSUME NEW k \in {"thread", "update"}, schedule_init_event(k) PROVE StepIsGood
  <2>1. /\ init_list' = Append(init_list, NewEvent(k, "init", 0)) /\ next_id' = next_id + 1
        /\ UNCHANGED <<sched_list, final_list, next_sim_time, schedule_time, flags, pc, cur, ran>>
        /\ next_id <= MaxEvents /\ k \in Kinds
    BY <1>0, <1>8 DEF schedule_init_event, Caller
  <2> QED BY <2>1, InitKeeps
<1>9. CASE schedule_final_vthread
  BY <1>9, FinalKeeps
<1>10. CASE register_next_sim_time
  BY <1>10, NextSimTimeKeeps
<1>11. CASE schedule_finish
  <2>1. /\ runnable' \in BOOLEAN /\ stopped' \in BOOLEAN /\ single_step' \in BOOLEAN
        /\ stops' \in 0..MaxStops
        /\ UNCHANGED <<sched_list, lists, schedule_time, pc, cur, next_id, ran>>
    BY <1>11 DEF schedule_finish, SchedInv, TypeOK, lists
  <2> QED BY <2>1, FlagKeeps
<1> QED
  BY <1>1, <1>2, <1>3, <1>4, <1>5, <1>6, <1>7, <1>8, <1>9, <1>10, <1>11 DEF Call

\* $stop, an interrupt and single-stepping only set flags.
LEMMA StopStep ==
  ASSUME ScheduleAssumption, SchedInv, schedule_stop \/ schedule_single_step
  PROVE  StepIsGood
<1>0. /\ runnable \in BOOLEAN /\ stopped \in BOOLEAN /\ single_step \in BOOLEAN
      /\ stops \in 0..MaxStops /\ MaxStops \in Nat
  BY DEF SchedInv, TypeOK, ScheduleAssumption
<1>1. CASE schedule_stop
  <2>1. stops' \in 0..MaxStops
    BY <1>0, <1>1 DEF schedule_stop
  <2>2. /\ runnable' = runnable /\ stopped' = TRUE /\ single_step' = single_step
        /\ UNCHANGED <<sched_list, lists, schedule_time, pc, cur, next_id, ran>>
    BY <1>1 DEF schedule_stop
  <2>3. runnable' \in BOOLEAN /\ stopped' \in BOOLEAN /\ single_step' \in BOOLEAN
    BY <1>0, <2>2
  <2> QED BY <2>1, <2>2, <2>3, FlagKeeps
<1>2. CASE schedule_single_step
  <2>1. /\ runnable' = runnable /\ stopped' = stopped /\ single_step' = TRUE /\ stops' = stops
        /\ UNCHANGED <<sched_list, lists, schedule_time, pc, cur, next_id, ran>>
    BY <1>2 DEF schedule_single_step
  <2>2. /\ runnable' \in BOOLEAN /\ stopped' \in BOOLEAN /\ single_step' \in BOOLEAN
        /\ stops' \in 0..MaxStops
    BY <1>0, <2>1
  <2> QED BY <2>1, <2>2, FlagKeeps
<1> QED
  BY <1>1, <1>2

\* The flags are Boolean and the interruptions counted.
FlagTypes == /\ runnable \in BOOLEAN /\ stopped \in BOOLEAN /\ single_step \in BOOLEAN
             /\ stops \in 0..MaxStops

\* schedule_simulate moves on to another phase.
LEMMA PhaseKeeps ==
  ASSUME ScheduleAssumption, SchedInv, cur = None, FlagTypes', pc' \in Phases,
         UNCHANGED <<sched_list, lists, schedule_time, cur, next_id, ran>>,
         sched_list # <<>> /\ sched_list[1].delay = 0 => Staged(sched_list[1].queue, pc', None),
         pc' \in {"rosync", "del_thr"} => sched_list # <<>> /\ sched_list[1].delay = 0,
         pc' # "start", pc \in {"final", "done"} => pc' \in {"final", "done"}
  PROVE  StepIsGood
<1>1. next_id \in Nat /\ schedule_time \in Nat /\ Len(sched_list) \in Nat
  BY DEF SchedInv, TypeOK, ScheduleAssumption
<1>2. TypeOK'
  BY DEF SchedInv, TypeOK, lists, FlagTypes
<1>3. Cells(sched_list, schedule_time, next_id, pc, cur)'
  <2>1. Cells(sched_list, schedule_time, next_id, pc, None)
    BY DEF SchedInv
  <2>2. Cells(sched_list, schedule_time, next_id, pc', None)
    BY <1>1, <2>1, ListMoves
  <2> QED BY <2>2
<1>4. PhaseInv'
  BY DEF SchedInv, PhaseInv, lists, None
<1>5. AgendaStep
  <2>1. Pending' = Pending /\ schedule_time' = schedule_time
    BY DEF Pending
  <2>2. CASE pc' \in {"final", "done"} /\ pc \notin {"final", "done"}
    <3>1. Agenda!Finish
      BY <2>1, <2>2 DEF Agenda!Finish
    <3> QED BY <3>1 DEF AgendaStep, Agenda!Next
  <2>3. CASE ~(pc' \in {"final", "done"} /\ pc \notin {"final", "done"})
    <3>1. (pc \in {"final", "done"})' = (pc \in {"final", "done"})
      BY <2>3
    <3> QED BY <2>1, <3>1 DEF AgendaStep
  <2> QED BY <2>2, <2>3
<1>6. CellIsEmpty
  BY <1>1 DEF CellIsEmpty
<1> QED
  BY <1>2, <1>3, <1>4, <1>5, <1>6 DEF StepIsGood, SchedInv

\* An event of the initialisation or the final list is executed.
LEMMA ApartRuns ==
  ASSUME ScheduleAssumption, SchedInv, NEW e \in Event, Execute(e), cur = None,
         e.q \in {"init", "final"}, e.due <= schedule_time, pc \in {"init", "final"},
         init_list' \in Seq(Event), final_list' \in Seq(Event),
         Apart(init_list', "init", schedule_time, next_id),
         Apart(final_list', "final", schedule_time, next_id),
         UNCHANGED <<sched_list, next_sim_time, schedule_time, flags, next_id, pc>>
  PROVE  StepIsGood
<1>0. cur' = e /\ ran' = ran \union {e}
  BY DEF Execute
<1>1. next_id \in Nat /\ schedule_time \in Nat /\ Len(sched_list) \in Nat
      /\ Cells(sched_list, schedule_time, next_id, pc, None)
  BY DEF SchedInv, TypeOK, ScheduleAssumption
<1>2. TypeOK'
  BY <1>0 DEF SchedInv, TypeOK, flags
<1>3. Cells(sched_list, schedule_time, next_id, pc, cur)'
  <2>1. sched_list # <<>> /\ sched_list[1].delay = 0 => Staged(sched_list[1].queue, pc, e)
    <3> SUFFICES ASSUME sched_list # <<>>, sched_list[1].delay = 0
                 PROVE  Staged(sched_list[1].queue, pc, e)
      OBVIOUS
    <3>1. Staged(sched_list[1].queue, pc, None)
      BY <1>1, CurrentCell
    <3> QED BY <3>1 DEF Staged
  <2>2. Cells(sched_list, schedule_time, next_id, pc, e)
    BY <1>1, <2>1, ListMoves
  <2> QED BY <1>0, <2>2
<1>4. PhaseInv'
  BY <1>0 DEF SchedInv, PhaseInv
<1>5. AgendaStep
  BY DEF AgendaStep, Pending
<1>6. CellIsEmpty
  BY <1>1 DEF CellIsEmpty
<1> QED
  BY <1>2, <1>3, <1>4, <1>5, <1>6 DEF StepIsGood, SchedInv

\* The rest of a list apart from the cells.
LEMMA ApartRest ==
  ASSUME NEW list \in Seq(Event), list # <<>>, NEW q, NEW now, NEW nid, Apart(list, q, now, nid)
  PROVE  /\ Head(list) \in Event /\ Head(list).q = q /\ Head(list).due <= now
         /\ Tail(list) \in Seq(Event) /\ Apart(Tail(list), q, now, nid)
<1>1. /\ Tail(list) \in Seq(Event) /\ Head(list) = list[1] /\ 1 \in DOMAIN list
      /\ \A i \in DOMAIN Tail(list) : i + 1 \in DOMAIN list /\ Tail(list)[i] = list[i + 1]
  BY Rest
<1> QED
  BY <1>1 DEF Apart

\* The phase in which each queue of the current cell is emptied.
QueueOf(phase) == CASE phase = "start" -> "start" [] phase = "loop" -> "active"
                    [] phase = "rosync" -> "rosync" [] phase = "del_thr" -> "del_thr"

\* The first event of a queue of the current cell is executed.
LEMMA RunKeeps ==
  ASSUME ScheduleAssumption, SchedInv, cur = None, FlagTypes', UNCHANGED pc,
         pc \in {"start", "loop", "rosync", "del_thr"},
         NEW list, Cells(list, schedule_time, next_id, pc, None), list # <<>>, list[1].delay = 0,
         PendingIn(list) = PendingIn(sched_list), Len(list) = Len(sched_list),
         NEW q \in Queues, q = QueueOf(pc), list[1].queue[q] # <<>>, RunFrom(list, q)
  PROVE  StepIsGood
<1> DEFINE e == Head(list[1].queue[q])
           new == [list EXCEPT ![1].queue[q] = Tail(list[1].queue[q])]
<1>0. next_id \in Nat /\ schedule_time \in Nat /\ Len(sched_list) \in Nat
  BY DEF SchedInv, TypeOK, ScheduleAssumption
<1>1. /\ cur' = e /\ ran' = ran \union {e} /\ sched_list' = new
      /\ UNCHANGED <<lists, schedule_time, next_id>>
  BY DEF RunFrom, Execute
<1>2. /\ pc = "start" => q = "start"
      /\ pc = "loop" => q = "active"
      /\ pc = "rosync" => q = "rosync"
      /\ pc = "del_thr" => q = "del_thr"
  BY DEF QueueOf
<1>3. /\ Taken(list, e, schedule_time, next_id, pc, new)
      /\ e \in Event /\ Fits(e, q, 0, schedule_time, next_id)
  BY <1>0, <1>2, ListTake
<1> HIDE DEF e, new
<1>4. /\ Cells(new, schedule_time, next_id, pc, e) /\ new # <<>> /\ new[1].delay = 0
      /\ Len(new) = Len(list)
      /\ e.q = "next" => PendingIn(new) = PendingIn(list)
      /\ e.q # "next" => /\ e \in PendingIn(list) /\ e.due = schedule_time
                         /\ PendingIn(new) = PendingIn(list) \ {e}
  BY <1>3 DEF Taken
<1>5. /\ e.q = "nbassign" => e.kind = "update"
      /\ e.q = "del_thr" => e.kind = "reap"
      /\ e.due <= schedule_time
      /\ q = "start" => e.q \in {"start", "next"}
      /\ q = "active" => e.q \in {"active", "inactive", "nbassign", "rwsync"}
      /\ q = "rosync" => e.q = "rosync"
      /\ q = "del_thr" => e.q = "del_thr"
  <2>1. e.due <= schedule_time
    BY <1>0, <1>3 DEF Fits
  <2> QED BY <1>3, <2>1 DEF Fits
<1>6. TypeOK'
  <2>1. sched_list' \in Seq([delay : Nat, queue : [Queues -> Seq(Event)]])
    BY <1>1, <1>4 DEF Cells, Increasing, Cell, QueueMap
  <2> QED BY <1>1, <1>3, <2>1 DEF SchedInv, TypeOK, FlagTypes, lists
<1>7. Cells(sched_list, schedule_time, next_id, pc, cur)'
  BY <1>1, <1>4
<1>8. PhaseInv'
  <2>1. /\ sched_list' # <<>> /\ sched_list'[1].delay = 0
        /\ pc \notin {"compile", "stop"}
        /\ pc = "del_thr" => e.kind = "reap"
        /\ e.q = "start" => pc = "start"
        /\ e.q = "rosync" => pc = "rosync"
        /\ pc = "start" => e.q \in {"start", "next", "init"}
    BY <1>1, <1>2, <1>4, <1>5
  <2> QED BY <1>1, <1>5, <2>1 DEF SchedInv, PhaseInv, lists
<1>9. AgendaStep
  <2>1. Pending = PendingIn(list) /\ Pending' = PendingIn(new)
    BY <1>1 DEF Pending, PendingIn
  <2>2. CASE e.q = "next"
    BY <1>1, <1>4, <2>1, <2>2 DEF AgendaStep
  <2>3. CASE e.q # "next"
    <3>1. e \in Pending /\ e.due = schedule_time /\ Pending' = Pending \ {e}
      BY <1>4, <2>1, <2>3
    <3>2. Agenda!Run
      BY <1>1, <3>1 DEF Agenda!Run
    <3> QED BY <3>2 DEF AgendaStep, Agenda!Next
  <2> QED BY <2>2, <2>3
<1>10. CellIsEmpty
  BY <1>0, <1>1, <1>4 DEF CellIsEmpty
<1> QED
  BY <1>6, <1>7, <1>8, <1>9, <1>10 DEF StepIsGood, SchedInv

\* Before the loop: the program is loaded and the initialisation list runs.
LEMMA BeginStep ==
  ASSUME ScheduleAssumption, SchedInv, Loaded \/ Initialise
  PROVE  StepIsGood
<1>0. /\ FlagTypes /\ next_id \in Nat /\ schedule_time \in Nat
      /\ Cells(sched_list, schedule_time, next_id, pc, cur)
  BY DEF SchedInv, TypeOK, ScheduleAssumption, FlagTypes
<1>1. ASSUME pc \in {"compile", "init"}, sched_list # <<>>, sched_list[1].delay = 0
      PROVE  /\ sched_list[1].queue["start"] = <<>> /\ NoUpdates(sched_list[1].queue["active"])
  <2>1. Staged(sched_list[1].queue, pc, cur)
    BY <1>0, <1>1, CurrentCell
  <2> QED BY <1>1, <2>1 DEF Staged
<1>2. CASE Loaded
  <2>1. /\ cur = None /\ FlagTypes' /\ pc = "compile" /\ pc' = "init"
        /\ UNCHANGED <<sched_list, lists, schedule_time, cur, next_id, ran>>
    BY <1>0, <1>2 DEF Loaded, SchedInv, PhaseInv, FlagTypes, flags
  <2>2. pc' \in Phases
    BY <2>1 DEF Phases
  <2>3. sched_list # <<>> /\ sched_list[1].delay = 0 => Staged(sched_list[1].queue, pc', None)
    BY <1>1, <2>1 DEF Staged
  <2> QED BY <2>1, <2>2, <2>3, PhaseKeeps
<1>3. CASE Initialise /\ init_list # <<>>
  <2>1. /\ cur = None /\ pc = "init" /\ Execute(Head(init_list)) /\ init_list' = Tail(init_list)
        /\ UNCHANGED <<sched_list, final_list, next_sim_time, schedule_time, flags, next_id, pc>>
    BY <1>3 DEF Initialise, Idle
  <2>2. /\ init_list \in Seq(Event) /\ Apart(init_list, "init", schedule_time, next_id)
        /\ final_list \in Seq(Event) /\ Apart(final_list, "final", schedule_time, next_id)
    BY DEF SchedInv, TypeOK, PhaseInv
  <2>3. /\ Head(init_list) \in Event /\ Head(init_list).q = "init"
        /\ Head(init_list).due <= schedule_time
        /\ Tail(init_list) \in Seq(Event) /\ Apart(Tail(init_list), "init", schedule_time, next_id)
    BY <1>3, <2>2, ApartRest
  <2> QED BY <2>1, <2>2, <2>3, ApartRuns
<1>4. CASE Initialise /\ init_list = <<>>
  <2>1. /\ cur = None /\ pc = "init" /\ pc' \in {"loop", "final"} /\ FlagTypes'
        /\ UNCHANGED <<sched_list, lists, schedule_time, cur, next_id, ran>>
    BY <1>0, <1>4 DEF Initialise, Idle, FlagTypes, flags, lists
  <2>2. pc' \in Phases
    BY <2>1 DEF Phases
  <2>3. sched_list # <<>> /\ sched_list[1].delay = 0 => Staged(sched_list[1].queue, pc', None)
    BY <1>1, <2>1 DEF Staged, NoUpdates, UpdatesFirst
  <2> QED BY <2>1, <2>2, <2>3, PhaseKeeps
<1> QED
  BY <1>2, <1>3, <1>4

\* The loop is left, or interrupted, or resumed.
LEMMA LoopStep ==
  ASSUME ScheduleAssumption, SchedInv, EndLoop \/ EnterStop \/ LeaveStop
  PROVE  StepIsGood
<1>0. /\ FlagTypes /\ next_id \in Nat /\ schedule_time \in Nat
      /\ Cells(sched_list, schedule_time, next_id, pc, cur)
  BY DEF SchedInv, TypeOK, ScheduleAssumption, FlagTypes
<1>1. /\ cur = None /\ pc \in {"loop", "stop"} /\ pc' \in {"loop", "stop", "final"}
      /\ UNCHANGED <<sched_list, lists, schedule_time, cur, next_id, ran>>
  BY DEF EndLoop, EnterStop, LeaveStop, Loop, Idle, SchedInv, PhaseInv
<1>2. FlagTypes'
  <2>1. stops' = stops /\ single_step' = single_step /\ (runnable' = runnable \/ runnable' = TRUE)
        /\ (stopped' = stopped \/ stopped' = FALSE)
    BY DEF EndLoop, EnterStop, LeaveStop
  <2> QED BY <1>0, <2>1 DEF FlagTypes
<1>3. pc' \in Phases
  BY <1>1 DEF Phases
<1>4. ASSUME sched_list # <<>>, sched_list[1].delay = 0 PROVE Staged(sched_list[1].queue, pc', None)
  <2>1. Staged(sched_list[1].queue, pc, cur)
    BY <1>0, <1>4, CurrentCell
  <2> QED BY <1>1, <2>1 DEF Staged
<1> QED
  BY <1>1, <1>2, <1>3, <1>4, PhaseKeeps

\* Advance's two updates of the first cell, as one.
LEMMA AdvancedCell ==
  ASSUME NEW list \in Seq(Cell), 1 \in DOMAIN list, NEW events
  PROVE  [list EXCEPT ![1].delay = 0, ![1].queue["start"] = events]
           = [list EXCEPT ![1] = [delay |-> 0, queue |-> [list[1].queue EXCEPT !["start"] = events]]]
<1>1. PICK d \in Nat, queue \in QueueMap : list[1] = [delay |-> d, queue |-> queue]
  <2>1. list[1] \in Cell
    OBVIOUS
  <2> QED BY <2>1 DEF Cell
<1> DEFINE one == [list EXCEPT ![1].delay = 0]
<1>2. one[1] = [delay |-> 0, queue |-> queue] /\ DOMAIN one = DOMAIN list
      /\ \A k \in DOMAIN list : k # 1 => one[k] = list[k]
  BY <1>1
<1> HIDE DEF one
<1> DEFINE two == [one EXCEPT ![1].queue["start"] = events]
<1>3. two[1] = [delay |-> 0, queue |-> [queue EXCEPT !["start"] = events]]
      /\ DOMAIN two = DOMAIN list /\ \A k \in DOMAIN list : k # 1 => two[k] = list[k]
  BY <1>2
<1>4. two = [list EXCEPT ![1] = [delay |-> 0, queue |-> [list[1].queue EXCEPT !["start"] = events]]]
  <2>1. list[1].queue = queue
    BY <1>1
  <2>2. two = [k \in DOMAIN two |-> two[k]]
    OBVIOUS
  <2> HIDE DEF two
  <2> QED BY <1>3, <2>1, <2>2
<1> QED
  BY <1>4 DEF one

\* Time advances: the agenda's Tick.
LEMMA AdvanceStep ==
  ASSUME ScheduleAssumption, SchedInv, Advance
  PROVE  StepIsGood
<1> DEFINE d == sched_list[1].delay
           nq == [sched_list[1].queue EXCEPT !["start"] = next_sim_time \o sched_list[1].queue["start"]]
           new == [sched_list EXCEPT ![1] = [delay |-> 0, queue |-> nq]]
<1>0. /\ next_id \in Nat /\ schedule_time \in Nat /\ Len(sched_list) \in Nat
      /\ sched_list \in Seq(Cell) /\ next_sim_time \in Seq(Event)
      /\ Apart(next_sim_time, "next", schedule_time, next_id)
      /\ Cells(sched_list, schedule_time, next_id, pc, cur)
  BY DEF SchedInv, TypeOK, ScheduleAssumption, PhaseInv, Cell, QueueMap
<1>1. /\ cur = None /\ pc = "loop" /\ pc' = "start" /\ sched_list # <<>> /\ d > 0
      /\ schedule_time' = schedule_time + d /\ next_sim_time' = <<>>
      /\ UNCHANGED <<init_list, final_list, flags, cur, next_id, ran>>
  BY DEF Advance, Loop, Idle, Now
<1>2. 1 \in DOMAIN sched_list /\ sched_list[1] \in Cell /\ sched_list[1].queue \in QueueMap /\ d \in Nat
  BY <1>0, <1>1, CellsOf
<1>3. sched_list' = new
  <2>1. sched_list' = [sched_list EXCEPT ![1].delay = 0,
                         ![1].queue["start"] = next_sim_time \o sched_list[1].queue["start"]]
    BY <1>2 DEF Advance, NextSimTimeFirst, Cell
  <2> QED BY <1>0, <1>2, <2>1, AdvancedCell
<1>4. Advanced(sched_list, d, schedule_time, next_id, new)
  BY <1>0, <1>1, ListAdvance
<1> HIDE DEF new, d
<1>5. /\ Cells(new, schedule_time + d, next_id, "start", None) /\ new # <<>> /\ new[1].delay = 0
      /\ Len(new) = Len(sched_list) /\ PendingIn(new) = PendingIn(sched_list)
      /\ \A e \in PendingIn(sched_list) : e.due >= schedule_time + d /\ e.due \in Nat
      /\ \E e \in PendingIn(sched_list) : e.due = schedule_time + d
  BY <1>4 DEF Advanced
<1>6. TypeOK'
  <2>1. sched_list' \in Seq([delay : Nat, queue : [Queues -> Seq(Event)]])
    BY <1>3, <1>5 DEF Cells, Increasing, Cell, QueueMap
  <2>2. schedule_time' \in Nat /\ next_sim_time' \in Seq(Event) /\ pc' \in Phases
    BY <1>0, <1>1, <1>2 DEF Phases
  <2> QED BY <1>1, <2>1, <2>2 DEF SchedInv, TypeOK, flags
<1>7. Cells(sched_list, schedule_time, next_id, pc, cur)'
  BY <1>1, <1>3, <1>5
<1>8. PhaseInv'
  <2>1. \A e \in ran : e.due < schedule_time' /\ e.due # schedule_time' /\ e.due <= schedule_time'
    <3>1. \A e \in ran : e.due \in Nat /\ e.due <= schedule_time
      BY DEF SchedInv, PhaseInv, TypeOK, Event
    <3> QED BY <1>0, <1>1, <1>2, <3>1
  <2>2. ASSUME NEW list \in Seq(Event), NEW q, Apart(list, q, schedule_time, next_id)
        PROVE  Apart(list, q, schedule_time', next_id)
    <3>0. \A x \in Event : x.due \in Nat
      BY DEF Event
    <3>1. \A i \in DOMAIN list : list[i].due \in Nat
      BY <3>0
    <3> QED BY <1>0, <1>1, <1>2, <2>2, <3>1 DEF Apart
  <2>3. /\ Apart(init_list, "init", schedule_time', next_id)
        /\ Apart(final_list, "final", schedule_time', next_id)
        /\ Apart(<<>>, "next", schedule_time', next_id)
    <3>1. init_list \in Seq(Event) /\ final_list \in Seq(Event)
      BY DEF SchedInv, TypeOK
    <3>2. Apart(init_list, "init", schedule_time, next_id)
          /\ Apart(final_list, "final", schedule_time, next_id)
      BY DEF SchedInv, PhaseInv
    <3>3. Apart(<<>>, "next", schedule_time', next_id)
      BY DEF Apart
    <3> QED BY <2>2, <3>1, <3>2, <3>3
  <2> QED BY <1>1, <1>3, <1>5, <2>1, <2>3 DEF SchedInv, PhaseInv, None
<1>9. AgendaStep
  <2>1. Pending = PendingIn(sched_list) /\ Pending' = PendingIn(sched_list')
    BY DEF Pending, PendingIn
  <2> DEFINE T == {e.due : e \in Pending}
  <2>2. schedule_time + d \in T /\ \A y \in T : schedule_time + d <= y /\ y \in Nat
    BY <1>0, <1>2, <1>5, <2>1
  <2>3. schedule_time + d = Agenda!Min(T)
    <3> HIDE DEF T
    <3>1. \A x \in T : (\A y \in T : x <= y) => x = schedule_time + d
      BY <1>0, <1>2, <2>2
    <3> QED BY <2>2, <3>1 DEF Agenda!Min
  <2>4. \A e \in Pending : e.due > schedule_time
    BY <1>0, <1>1, <1>2, <1>5, <2>1
  <2>5. Pending # {} /\ Pending' = Pending
    BY <1>3, <1>5, <2>1
  <2>6. Agenda!Tick
    BY <1>1, <2>3, <2>4, <2>5 DEF Agenda!Tick
  <2> QED BY <2>6 DEF AgendaStep, Agenda!Next
<1>10. CellIsEmpty
  BY <1>0, <1>3, <1>5 DEF CellIsEmpty
<1> QED
  BY <1>6, <1>7, <1>8, <1>9, <1>10 DEF StepIsGood, SchedInv

\* The start callbacks of a new time.
LEMMA StartStep ==
  ASSUME ScheduleAssumption, SchedInv, StartCallbacks
  PROVE  StepIsGood
<1>0. /\ FlagTypes /\ next_id \in Nat /\ schedule_time \in Nat /\ pc = "start" /\ cur = None
      /\ Cells(sched_list, schedule_time, next_id, pc, None)
      /\ sched_list # <<>> /\ sched_list[1].delay = 0
  BY DEF SchedInv, TypeOK, ScheduleAssumption, FlagTypes, StartCallbacks, Idle, PhaseInv
<1>1. CASE Now.queue["start"] # <<>>
  <2>1. RunFrom(sched_list, "start") /\ UNCHANGED <<pc, flags>> /\ sched_list[1].queue["start"] # <<>>
    BY <1>1 DEF StartCallbacks, Now
  <2>2. FlagTypes' /\ QueueOf(pc) = "start"
    BY <1>0, <2>1 DEF FlagTypes, flags, QueueOf
  <2> QED BY <1>0, <2>1, <2>2, QueueNames, RunKeeps
<1>2. CASE Now.queue["start"] = <<>>
  <2>1. /\ pc' = "loop" /\ UNCHANGED <<sched_list, lists, schedule_time, cur, next_id, ran>>
        /\ FlagTypes' /\ sched_list[1].queue["start"] = <<>>
    BY <1>0, <1>2 DEF StartCallbacks, Now, FlagTypes, flags
  <2>2. Staged(sched_list[1].queue, pc, None)
    BY <1>0, CurrentCell
  <2>3. Staged(sched_list[1].queue, "loop", None)
    BY <1>0, <2>1, <2>2 DEF Staged, NoUpdates, UpdatesFirst
  <2>4. pc' \in Phases
    BY <2>1 DEF Phases
  <2> QED BY <1>0, <2>1, <2>3, <2>4, PhaseKeeps
<1> QED
  BY <1>1, <1>2

\* The loop executes an event of the current time, or has none left.
LEMMA ActiveStep ==
  ASSUME ScheduleAssumption, SchedInv, RunActive \/ BeginRosync
  PROVE  StepIsGood
<1>0. /\ FlagTypes /\ next_id \in Nat /\ schedule_time \in Nat /\ pc = "loop" /\ cur = None
      /\ Cells(sched_list, schedule_time, next_id, "loop", None)
      /\ sched_list # <<>> /\ sched_list[1].delay = 0
  BY DEF SchedInv, TypeOK, ScheduleAssumption, FlagTypes, RunActive, BeginRosync, Loop, Idle, Now
<1> DEFINE list == Promoted(sched_list)
<1>1. /\ Cells(list, schedule_time, next_id, "loop", None)
      /\ list # <<>> /\ list[1].delay = 0 /\ Len(list) = Len(sched_list)
      /\ PendingIn(list) = PendingIn(sched_list)
      /\ list[1].queue["active"] = sched_list[1].queue[RegionOf(sched_list[1].queue)]
  BY <1>0, ListPromote
<1> HIDE DEF list
<1>2. CASE RunActive
  <2>1. /\ RunFrom(list, "active") /\ list[1].queue["active"] # <<>> /\ UNCHANGED pc
        /\ stopped' = single_step /\ single_step' = FALSE /\ runnable' = runnable /\ stops' = stops
    BY <1>2 DEF RunActive, list
  <2>2. FlagTypes'
    BY <1>0, <2>1 DEF FlagTypes
  <2>3. QueueOf(pc) = "active"
    BY <1>0 DEF QueueOf
  <2> QED BY <1>0, <1>1, <2>1, <2>2, <2>3, QueueNames, RunKeeps
<1>3. CASE BeginRosync
  <2> DEFINE old == sched_list[1].queue
  <2>1. /\ pc' = "rosync" /\ UNCHANGED <<sched_list, lists, schedule_time, cur, next_id, ran>>
        /\ FlagTypes' /\ list[1].queue["active"] = <<>>
    BY <1>0, <1>3 DEF BeginRosync, FlagTypes, flags, list
  <2>2. old[RegionOf(old)] = <<>>
    BY <1>1, <2>1
  <2>3. Staged(old, "loop", None)
    BY <1>0, CurrentCell
  <2> HIDE DEF old
  <2>4. old["active"] = <<>> /\ old["inactive"] = <<>> /\ old["nbassign"] = <<>> /\ old["rwsync"] = <<>>
    BY <2>2 DEF RegionOf
  <2>5. Staged(old, "rosync", None)
    BY <2>3, <2>4 DEF Staged
  <2>6. pc' \in Phases
    BY <2>1 DEF Phases
  <2> QED BY <1>0, <2>1, <2>5, <2>6, PhaseKeeps DEF old
<1> QED
  BY <1>2, <1>3

\* The read-only callbacks of the current time.
LEMMA RosyncStep ==
  ASSUME ScheduleAssumption, SchedInv, Rosync
  PROVE  StepIsGood
<1>0. /\ FlagTypes /\ next_id \in Nat /\ schedule_time \in Nat /\ pc = "rosync" /\ cur = None
      /\ Cells(sched_list, schedule_time, next_id, pc, None)
      /\ sched_list # <<>> /\ sched_list[1].delay = 0
  BY DEF SchedInv, TypeOK, ScheduleAssumption, FlagTypes, Rosync, Idle, PhaseInv
<1>1. CASE Now.queue["rosync"] # <<>>
  <2>1. RunFrom(sched_list, "rosync") /\ UNCHANGED <<pc, flags>> /\ sched_list[1].queue["rosync"] # <<>>
    BY <1>1 DEF Rosync, Now
  <2>2. FlagTypes' /\ QueueOf(pc) = "rosync"
    BY <1>0, <2>1 DEF FlagTypes, flags, QueueOf
  <2> QED BY <1>0, <2>1, <2>2, QueueNames, RunKeeps
<1>2. CASE Now.queue["rosync"] = <<>>
  <2>1. /\ pc' = "del_thr" /\ UNCHANGED <<sched_list, lists, schedule_time, cur, next_id, ran>>
        /\ FlagTypes' /\ sched_list[1].queue["rosync"] = <<>>
    BY <1>0, <1>2 DEF Rosync, Now, FlagTypes, flags
  <2>2. Staged(sched_list[1].queue, pc, None)
    BY <1>0, CurrentCell
  <2>3. Staged(sched_list[1].queue, "del_thr", None)
    BY <1>0, <2>1, <2>2 DEF Staged
  <2>4. pc' \in Phases
    BY <2>1 DEF Phases
  <2> QED BY <1>0, <2>1, <2>3, <2>4, PhaseKeeps
<1> QED
  BY <1>1, <1>2

\* The ended threads of the current time are deleted, and then its cell, which
\* is empty.
LEMMA DelThrStep ==
  ASSUME ScheduleAssumption, SchedInv, DelThr
  PROVE  StepIsGood
<1>0. /\ FlagTypes /\ next_id \in Nat /\ schedule_time \in Nat /\ pc = "del_thr" /\ cur = None
      /\ Cells(sched_list, schedule_time, next_id, pc, None)
      /\ sched_list # <<>> /\ sched_list[1].delay = 0
  BY DEF SchedInv, TypeOK, ScheduleAssumption, FlagTypes, DelThr, Idle, PhaseInv
<1>1. CASE Now.queue["del_thr"] # <<>>
  <2>1. RunFrom(sched_list, "del_thr") /\ UNCHANGED <<pc, flags>> /\ sched_list[1].queue["del_thr"] # <<>>
    BY <1>1 DEF DelThr, Now
  <2>2. FlagTypes' /\ QueueOf(pc) = "del_thr"
    BY <1>0, <2>1 DEF FlagTypes, flags, QueueOf
  <2> QED BY <1>0, <2>1, <2>2, QueueNames, RunKeeps
<1>2. CASE Now.queue["del_thr"] = <<>>
  <2> DEFINE old == sched_list[1].queue
  <2>1. /\ pc' = "loop" /\ sched_list' = Tail(sched_list)
        /\ UNCHANGED <<lists, schedule_time, flags, cur, next_id, ran>> /\ old["del_thr"] = <<>>
    BY <1>0, <1>2 DEF DelThr, Now
  <2>2. Staged(old, "del_thr", None)
    BY <1>0, CurrentCell
  <2> HIDE DEF old
  <2>3. \A q \in Queues : old[q] = <<>>
    BY <2>1, <2>2 DEF Staged, Queues
  <2>4. \A x : ~Holds(old, x)
    BY <2>3 DEF Holds
  <2>5. /\ Cells(Tail(sched_list), schedule_time, next_id, "loop", None)
        /\ PendingIn(Tail(sched_list)) = PendingIn(sched_list)
    BY <1>0, <2>4, ListDrop DEF old
  <2>6. TypeOK'
    <3>1. sched_list' \in Seq([delay : Nat, queue : [Queues -> Seq(Event)]])
      BY <2>1, <2>5 DEF Cells, Increasing, Cell, QueueMap
    <3>2. pc' \in Phases
      BY <2>1 DEF Phases
    <3> QED BY <2>1, <3>1, <3>2 DEF SchedInv, TypeOK, flags, lists
  <2>7. Cells(sched_list, schedule_time, next_id, pc, cur)'
    BY <1>0, <2>1, <2>5
  <2>8. PhaseInv'
    BY <1>0, <2>1 DEF SchedInv, PhaseInv, lists, None
  <2>9. AgendaStep
    <3>1. Pending' = Pending
      BY <2>1, <2>5 DEF Pending, PendingIn
    <3> QED BY <1>0, <2>1, <3>1 DEF AgendaStep
  <2>10. CellIsEmpty
    <3>1. EventsOf(Now) = {}
      <4>1. \A q \in Queues : ToSet(Now.queue[q]) = {}
        BY <2>3 DEF Now, old, ToSet
      <4> QED BY <4>1 DEF EventsOf
    <3> QED BY <3>1 DEF CellIsEmpty
  <2> QED BY <2>6, <2>7, <2>8, <2>9, <2>10 DEF StepIsGood, SchedInv
<1> QED
  BY <1>1, <1>2

\* The final blocks, and the end.
LEMMA FinalStep ==
  ASSUME ScheduleAssumption, SchedInv, Finals
  PROVE  StepIsGood
<1>0. /\ FlagTypes /\ next_id \in Nat /\ schedule_time \in Nat /\ pc = "final" /\ cur = None
      /\ Cells(sched_list, schedule_time, next_id, pc, None)
  BY DEF SchedInv, TypeOK, ScheduleAssumption, FlagTypes, Finals, Idle
<1>1. CASE final_list # <<>> /\ Execute(Head(final_list)) /\ final_list' = Tail(final_list) /\ UNCHANGED pc
  <2>1. UNCHANGED <<sched_list, init_list, next_sim_time, schedule_time, flags, next_id>>
    BY DEF Finals
  <2>2. /\ init_list \in Seq(Event) /\ Apart(init_list, "init", schedule_time, next_id)
        /\ final_list \in Seq(Event) /\ Apart(final_list, "final", schedule_time, next_id)
    BY DEF SchedInv, TypeOK, PhaseInv
  <2>3. /\ Head(final_list) \in Event /\ Head(final_list).q = "final"
        /\ Head(final_list).due <= schedule_time
        /\ Tail(final_list) \in Seq(Event) /\ Apart(Tail(final_list), "final", schedule_time, next_id)
    BY <1>1, <2>2, ApartRest
  <2> QED BY <1>0, <1>1, <2>1, <2>2, <2>3, ApartRuns
<1>2. CASE pc' = "done" /\ UNCHANGED <<final_list, cur, ran>>
  <2>1. UNCHANGED <<sched_list, lists, schedule_time, cur, next_id, ran>> /\ FlagTypes'
    BY <1>0, <1>2 DEF Finals, lists, FlagTypes, flags
  <2>2. ASSUME sched_list # <<>>, sched_list[1].delay = 0 PROVE Staged(sched_list[1].queue, "done", None)
    <3>1. Staged(sched_list[1].queue, pc, None)
      BY <1>0, <2>2, CurrentCell
    <3> QED BY <1>0, <3>1 DEF Staged
  <2>3. pc' \in Phases
    BY <1>2 DEF Phases
  <2> QED BY <1>0, <1>2, <2>1, <2>2, <2>3, PhaseKeeps
<1> QED
  BY <1>1, <1>2 DEF Finals

\* The executing event returns to schedule_simulate.
LEMMA ReturnStep ==
  ASSUME ScheduleAssumption, SchedInv, Return
  PROVE  StepIsGood
<1>0. /\ next_id \in Nat /\ schedule_time \in Nat /\ Len(sched_list) \in Nat
      /\ Cells(sched_list, schedule_time, next_id, pc, cur)
      /\ cur' = None /\ UNCHANGED <<sched_list, lists, schedule_time, flags, pc, next_id, ran>>
  BY DEF SchedInv, TypeOK, ScheduleAssumption, Return
<1>1. ASSUME sched_list # <<>>, sched_list[1].delay = 0 PROVE Staged(sched_list[1].queue, pc, None)
  <2>1. Staged(sched_list[1].queue, pc, cur)
    BY <1>0, <1>1, CurrentCell
  <2> QED BY <2>1 DEF Staged
<1>2. Cells(sched_list, schedule_time, next_id, pc, None)
  BY <1>0, <1>1, ListMoves
<1>3. TypeOK'
  BY <1>0 DEF SchedInv, TypeOK, lists, flags
<1>4. PhaseInv'
  BY <1>0 DEF SchedInv, PhaseInv, lists, None
<1>5. AgendaStep
  BY <1>0 DEF AgendaStep, Pending
<1>6. CellIsEmpty
  BY <1>0 DEF CellIsEmpty
<1> QED
  BY <1>0, <1>2, <1>3, <1>4, <1>5, <1>6 DEF StepIsGood, SchedInv

\* Every step of the scheduler.
LEMMA EveryStep ==
  ASSUME ScheduleAssumption, ~StartNow, SchedInv, [Next]_vars
  PROVE  SchedInv' /\ AgendaStep /\ [CellIsEmpty]_vars
<1>1. CASE Call
  BY <1>1, CallStep DEF StepIsGood
<1>2. CASE schedule_stop \/ schedule_single_step
  BY <1>2, StopStep DEF StepIsGood
<1>3. CASE Simulate
  <2>1. StepIsGood
    BY <1>3, BeginStep, LoopStep, AdvanceStep, StartStep, ActiveStep, RosyncStep, DelThrStep,
       FinalStep, ReturnStep DEF Simulate
  <2> QED BY <2>1 DEF StepIsGood
<1>4. CASE UNCHANGED vars
  <2>1. UNCHANGED <<sched_list, lists, schedule_time, flags, pc, cur, next_id, ran>>
    BY <1>4 DEF vars
  <2>2. SchedInv'
    BY <2>1 DEF SchedInv, TypeOK, PhaseInv, lists, flags
  <2>3. AgendaStep
    BY <2>1 DEF AgendaStep, Pending
  <2> QED BY <1>4, <2>2, <2>3
<1> QED
  BY <1>1, <1>2, <1>3, <1>4 DEF Next

\* Before anything is loaded.
LEMMA AtFirst ==
  ASSUME ScheduleAssumption, Init
  PROVE  SchedInv /\ Agenda!Init
<1>1. TypeOK
  <2>1. /\ sched_list = <<>> /\ init_list = <<>> /\ final_list = <<>> /\ next_sim_time = <<>>
        /\ schedule_time = 0 /\ runnable = TRUE /\ stopped = FALSE /\ single_step = FALSE
        /\ pc = "compile" /\ cur = None /\ next_id = 1 /\ ran = {} /\ stops = 0
    BY DEF Init
  <2>2. next_id \in 1..(MaxEvents + 1) /\ stops \in 0..MaxStops /\ schedule_time \in Nat
    BY <2>1 DEF ScheduleAssumption
  <2>3. pc \in Phases
    BY <2>1 DEF Phases
  <2>4. runnable \in BOOLEAN /\ stopped \in BOOLEAN /\ single_step \in BOOLEAN
    BY <2>1
  <2>5. /\ sched_list \in Seq([delay : Nat, queue : [Queues -> Seq(Event)]])
        /\ init_list \in Seq(Event) /\ final_list \in Seq(Event) /\ next_sim_time \in Seq(Event)
    BY <2>1
  <2>6. cur \in Event \union {None} /\ ran \subseteq Event
    BY <2>1
  <2> QED BY <2>2, <2>3, <2>4, <2>5, <2>6 DEF TypeOK
<1>2. Cells(sched_list, schedule_time, next_id, pc, cur)
  BY DEF Init, Cells, Increasing
<1>3. PhaseInv
  BY DEF Init, PhaseInv, Apart, None
<1>4. Agenda!Init
  BY DEF Init, Agenda!Init, Pending
<1> QED
  BY <1>1, <1>2, <1>3, <1>4 DEF SchedInv

-----------------------------------------------------------------------------
(* Theorems.  They are about every number of events and interruptions and every *)
(* set of delays and of functions that the design calls; start-of-time          *)
(* callbacks are registered for later times only (~StartNow): one for the       *)
(* current time is dropped.                                                     *)

\* The invariant: each cell of the list holds, in every phase, what the phases
\* before it have left.
THEOREM SchedulerInvariant ==
  ASSUME ScheduleAssumption, ~StartNow
  PROVE  Spec => []SchedInv
<1>1. Init => SchedInv
  BY AtFirst
<1>2. SchedInv /\ [Next]_vars => SchedInv'
  BY EveryStep
<1> QED
  BY <1>1, <1>2, PTL DEF Spec

\* No thread, gate or callback executes while updates of the current batch of
\* non-blocking assignments are still to be made.
THEOREM UpdatesComeFirst ==
  ASSUME ScheduleAssumption, ~StartNow
  PROVE  Spec => []UpdatesBeforeReaders
<1>1. SchedInv => UpdatesBeforeReaders
  <2> SUFFICES ASSUME SchedInv, pc = "loop", cur # None, cur.q # "nbassign"
               PROVE  \A e \in ToSet(Now.queue["active"]) : e.q # "nbassign"
    BY DEF UpdatesBeforeReaders
  <2>1. /\ next_id \in Nat /\ schedule_time \in Nat /\ sched_list # <<>> /\ sched_list[1].delay = 0
        /\ Cells(sched_list, schedule_time, next_id, pc, cur)
    BY DEF SchedInv, TypeOK, PhaseInv, ScheduleAssumption
  <2>2. Staged(sched_list[1].queue, pc, cur)
    BY <2>1, CurrentCell
  <2>3. NoUpdates(sched_list[1].queue["active"])
    BY <2>2 DEF Staged
  <2> QED BY <2>3 DEF NoUpdates, ToSet, Now
<1>2. []SchedInv => []UpdatesBeforeReaders
  BY <1>1, PTL
<1> QED
  BY <1>2, SchedulerInvariant, PTL

\* Start-of-time callbacks execute before every other event of their time, and
\* read-only callbacks when nothing else of their time is left.
THEOREM RegionsAreOrdered ==
  ASSUME ScheduleAssumption, ~StartNow
  PROVE  Spec => []RegionsInOrder
<1>1. SchedInv => StartIsFirst
  BY DEF SchedInv, PhaseInv, StartIsFirst
<1>2. SchedInv => ReadOnlySeesTheEnd
  <2> SUFFICES ASSUME SchedInv, cur.q = "rosync", NEW e \in Pending, e.due = schedule_time
               PROVE  e.q \in {"rosync", "del_thr"}
    BY DEF ReadOnlySeesTheEnd
  <2> DEFINE old == sched_list[1].queue
  <2>1. /\ next_id \in Nat /\ schedule_time \in Nat /\ sched_list # <<>> /\ sched_list[1].delay = 0
        /\ Cells(sched_list, schedule_time, next_id, pc, cur) /\ pc = "rosync"
    BY DEF SchedInv, TypeOK, PhaseInv, ScheduleAssumption
  <2>2. CellCore(old, 0, schedule_time, next_id, pc, cur) /\ Staged(old, pc, cur)
    BY <2>1, CurrentCell
  <2>3. e \in PendingIn(sched_list)
    BY DEF Pending, PendingIn
  <2>4. e.q # "next" /\ (Holds(old, e) \/ LaterHeld(sched_list, e))
    BY <2>1, <2>3, PendingSplit DEF Cells
  <2>5. ~LaterHeld(sched_list, e)
    <3> SUFFICES ASSUME LaterHeld(sched_list, e) PROVE FALSE
      OBVIOUS
    <3>1. e.due > schedule_time
      BY <2>1, LaterIsDueLater
    <3> QED BY <2>1, <3>1
  <2> HIDE DEF old
  <2>6. PICK q \in Queues : \E i \in DOMAIN old[q] : old[q][i] = e
    BY <2>4, <2>5 DEF Holds
  <2>7. q \in {"rosync", "del_thr"}
    <3>1. old[q] # <<>>
      BY <2>6
    <3> QED BY <2>1, <2>2, <3>1 DEF Staged, Queues
  <2>8. Fits(e, q, 0, schedule_time, next_id)
    BY <2>2, <2>6 DEF CellCore
  <2> QED BY <2>7, <2>8 DEF Fits
<1>3. SchedInv => RegionsInOrder
  BY <1>1, <1>2 DEF SchedInv, RegionsInOrder
<1>4. []SchedInv => []RegionsInOrder
  BY <1>3, PTL
<1> QED
  BY <1>4, SchedulerInvariant, PTL

\* The list of time differences is an agenda: every event executes exactly at
\* the time it was scheduled for, time stops at every pending event, and none
\* disappears before the simulation is over.
THEOREM SchedulerIsAgenda ==
  ASSUME ScheduleAssumption, ~StartNow
  PROVE  Spec => RefinesAgenda
<1>1. Init => Agenda!Init
  BY AtFirst
<1>2. SchedInv /\ [Next]_vars => [Agenda!Next]_<<Pending, schedule_time, pc \in {"final", "done"}>>
  BY EveryStep DEF AgendaStep
<1>3. Spec => Init /\ [][Next]_vars
  BY PTL DEF Spec
<1> QED
  BY <1>1, <1>2, <1>3, SchedulerInvariant, PTL DEF RefinesAgenda, Agenda!Spec

\* A time cell is deleted only when it is empty, NextSimTime callbacks included.
THEOREM CellsAreDeletedEmpty ==
  ASSUME ScheduleAssumption, ~StartNow
  PROVE  Spec => NothingDropped
<1>1. SchedInv /\ [Next]_vars => [CellIsEmpty]_vars
  BY EveryStep
<1>2. Spec => Init /\ [][Next]_vars
  BY PTL DEF Spec
<1> QED
  BY <1>1, <1>2, SchedulerInvariant, PTL DEF NothingDropped
=============================================================================
