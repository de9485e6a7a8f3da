------------------------- MODULE VpiCallbacksProofs -------------------------
(***************************************************************************)
(* The callback lists of vvp hold, for any number of callbacks, however    *)
(* user code registers and removes them inside a walk, as long as no       *)
(* callback changes the signal whose change called it (MaxDepth = 1): no   *)
(* pointer leads to a freed callback, each callback that is due is called  *)
(* once, and a removed one is reaped by the first walk after its removal.  *)
(*                                                                         *)
(* The lists are sets closed under the next pointers; what the invariant   *)
(* needs of them is stated as lemmas about two versions of the objects,    *)
(* before and after a step.  The invariant says of every walk in progress  *)
(* what is ahead of it, that its last callback is still linked to that,    *)
(* and that whoever is due or removed has been called or freed, or is      *)
(* ahead.                                                                  *)
(***************************************************************************)
EXTENDS VpiCallbacks, TLAPS, FiniteSetTheorems

Pointers == Callbacks \cup {nil}

\* The next pointers of nodes lead to objects or nowhere.
Linked(nodes) == \A c \in Callbacks : nodes[c].next \in Pointers

-----------------------------------------------------------------------------
(* Lists. *)

\* The list is within every set that has its head and that it does not leave.
LEMMA ListLeast ==
    ASSUME NEW nodes, NEW c, NEW S \in SUBSET Callbacks, c # nil => c \in S, Follows(nodes, S)
    PROVE  ListFrom(nodes, c) \subseteq S
  BY DEF ListFrom

\* It is itself such a set.
LEMMA ListFollows ==
    ASSUME NEW nodes, Linked(nodes), NEW c \in Pointers
    PROVE  /\ ListFrom(nodes, c) \subseteq Callbacks
           /\ c # nil => c \in ListFrom(nodes, c)
           /\ Follows(nodes, ListFrom(nodes, c))
<1>1. ListFrom(nodes, c) \subseteq Callbacks
  BY DEF ListFrom
<1>2. c # nil => c \in ListFrom(nodes, c)
  BY DEF ListFrom, Pointers
<1>3. Follows(nodes, ListFrom(nodes, c))
  <2> SUFFICES ASSUME NEW e \in ListFrom(nodes, c), nodes[e].next # nil
               PROVE  nodes[e].next \in ListFrom(nodes, c)
    BY DEF Follows
  <2>1. e \in Callbacks /\ nodes[e].next \in Callbacks
    BY <1>1 DEF Linked, Pointers
  <2>2. ASSUME NEW S \in SUBSET Callbacks, c # nil => c \in S, Follows(nodes, S)
        PROVE  nodes[e].next \in S
    <3>1. e \in S
      BY <2>2 DEF ListFrom
    <3> QED BY <2>2, <3>1 DEF Follows
  <2> QED BY <2>1, <2>2 DEF ListFrom
<1> QED
  BY <1>1, <1>2, <1>3

\* There is nothing on the list that starts nowhere.
LEMMA ListEmpty ==
    ASSUME NEW nodes
    PROVE  ListFrom(nodes, nil) = {}
<1>1. {} \in SUBSET Callbacks /\ Follows(nodes, {})
  BY DEF Follows
<1>2. ListFrom(nodes, nil) \subseteq {}
  BY <1>1, ListLeast
<1> QED
  BY <1>2

\* A list is its first object and the list that follows it.
LEMMA ListUnfold ==
    ASSUME NEW nodes, Linked(nodes), NEW c \in Callbacks, nil \notin Callbacks
    PROVE  ListFrom(nodes, c) = {c} \cup ListFrom(nodes, nodes[c].next)
<1> DEFINE d == nodes[c].next  S == {c} \cup ListFrom(nodes, d)
<1>1. c \in Pointers /\ d \in Pointers /\ c # nil
  BY DEF Linked, Pointers
<1>2. /\ ListFrom(nodes, d) \subseteq Callbacks /\ (d # nil => d \in ListFrom(nodes, d))
      /\ Follows(nodes, ListFrom(nodes, d))
  BY <1>1, ListFollows
<1>3. S \in SUBSET Callbacks /\ c \in S /\ Follows(nodes, S)
  BY <1>2 DEF Follows
<1>4. ListFrom(nodes, c) \subseteq S
  <2> HIDE DEF S, d
  <2> QED BY <1>3, ListLeast
<1>5. /\ ListFrom(nodes, c) \subseteq Callbacks /\ c \in ListFrom(nodes, c)
      /\ Follows(nodes, ListFrom(nodes, c))
  BY <1>1, ListFollows
<1>6. d # nil => d \in ListFrom(nodes, c)
  BY <1>5 DEF Follows
<1>7. ListFrom(nodes, d) \subseteq ListFrom(nodes, c)
  BY <1>1, <1>5, <1>6, ListLeast
<1> QED
  BY <1>4, <1>5, <1>7

\* What is on a list is where the rest of it starts.
LEMMA ListTail ==
    ASSUME NEW nodes, Linked(nodes), NEW c \in Pointers, NEW d \in ListFrom(nodes, c)
    PROVE  ListFrom(nodes, d) \subseteq ListFrom(nodes, c)
  BY ListFollows, ListLeast

\* Objects that are not on the list may change.
LEMMA ListKept ==
    ASSUME NEW nodes, NEW nodes2, Linked(nodes), Linked(nodes2), NEW c \in Pointers,
           \A e \in ListFrom(nodes, c) : nodes2[e].next = nodes[e].next
    PROVE  ListFrom(nodes2, c) = ListFrom(nodes, c)
<1> DEFINE A == ListFrom(nodes, c)  B == ListFrom(nodes2, c)
<1>1. A \subseteq Callbacks /\ (c # nil => c \in A) /\ Follows(nodes, A)
  BY ListFollows
<1>2. B \subseteq Callbacks /\ (c # nil => c \in B) /\ Follows(nodes2, B)
  BY ListFollows
<1>3. Follows(nodes2, A)
  BY <1>1 DEF Follows
<1>4. B \subseteq A
  BY <1>1, <1>3, ListLeast
<1>5. Follows(nodes, B)
  BY <1>2, <1>4 DEF Follows
<1>6. A \subseteq B
  BY <1>2, <1>5, ListLeast
<1> QED
  BY <1>4, <1>6

\* Of two objects on a list one comes before the other.
LEMMA ListTotal ==
    ASSUME NEW nodes, Linked(nodes), nil \notin Callbacks, NEW c \in Callbacks
    PROVE  \A x, y \in ListFrom(nodes, c) : x \in ListFrom(nodes, y) \/ y \in ListFrom(nodes, x)
<1> DEFINE A == ListFrom(nodes, c)
           T == {x \in A : \A y \in A : x \in ListFrom(nodes, y) \/ y \in ListFrom(nodes, x)}
<1>1. A \subseteq Callbacks /\ c \in A /\ Follows(nodes, A) /\ c \in Pointers
  BY ListFollows DEF Pointers
<1>2. c \in T
  BY <1>1
<1>3. ASSUME NEW x \in T, nodes[x].next # nil PROVE nodes[x].next \in T
  <2> DEFINE z == nodes[x].next
  <2>1. x \in A /\ x \in Callbacks /\ z \in A /\ z \in Callbacks /\ z \in Pointers
    BY <1>1, <1>3 DEF Follows, Pointers
  <2>2. ASSUME NEW y \in A PROVE z \in ListFrom(nodes, y) \/ y \in ListFrom(nodes, z)
    <3>1. y \in Pointers /\ y \in Callbacks
      BY <1>1 DEF Pointers
    <3>2. CASE x \in ListFrom(nodes, y)
      <4>1. Follows(nodes, ListFrom(nodes, y))
        BY <3>1, ListFollows
      <4> QED BY <1>3, <3>2, <4>1 DEF Follows
    <3>3. CASE y \in ListFrom(nodes, x)
      <4>1. ListFrom(nodes, x) = {x} \cup ListFrom(nodes, z)
        BY <2>1, ListUnfold
      <4>2. CASE y = x
        <5>1. x \in ListFrom(nodes, y) 
          BY <3>1, <4>2, <4>1
        <5> QED BY <3>2, <5>1
      <4> QED BY <3>3, <4>1, <4>2
    <3> QED BY <3>2, <3>3
  <2> QED BY <2>1, <2>2
<1>4. T \in SUBSET Callbacks /\ Follows(nodes, T)
  BY <1>1, <1>3 DEF Follows
<1>5. A \subseteq T
  <2> HIDE DEF T
  <2> QED BY <1>2, <1>4, ListLeast
<1> QED
  BY <1>5

\* No two objects of a list have the same next one.
LEMMA ListOnePredecessor ==
    ASSUME NEW nodes, Linked(nodes), nil \notin Callbacks, NEW c \in Callbacks,
           \A x \in Callbacks : x \notin ListFrom(nodes, nodes[x].next),
           NEW x \in ListFrom(nodes, c), NEW y \in ListFrom(nodes, c),
           nodes[x].next = nodes[y].next
    PROVE  x = y
<1>1. x \in Callbacks /\ y \in Callbacks
  BY ListFollows DEF Pointers
<1>2. x \in ListFrom(nodes, y) \/ y \in ListFrom(nodes, x)
  BY ListTotal
<1>3. /\ ListFrom(nodes, x) = {x} \cup ListFrom(nodes, nodes[x].next)
      /\ ListFrom(nodes, y) = {y} \cup ListFrom(nodes, nodes[y].next)
  BY <1>1, ListUnfold
<1> QED
  BY <1>1, <1>2, <1>3

\* No object comes after itself.
Acyclic(nodes) == \A c \in Callbacks : c \notin ListFrom(nodes, nodes[c].next)

\* Taking a pointer away, or round one object, makes no list longer.
LEMMA ListShorter ==
    ASSUME NEW nodes, NEW nodes2, Linked(nodes), Linked(nodes2), NEW c \in Pointers,
           \A e \in Callbacks : \/ nodes2[e].next \in {nil, nodes[e].next}
                                \/ nodes[e].next # nil /\ nodes2[e].next = nodes[nodes[e].next].next
    PROVE  ListFrom(nodes2, c) \subseteq ListFrom(nodes, c)
<1> DEFINE A == ListFrom(nodes, c)
<1>1. A \subseteq Callbacks /\ (c # nil => c \in A) /\ Follows(nodes, A)
  BY ListFollows
<1>2. ASSUME NEW e \in A, nodes2[e].next # nil PROVE nodes2[e].next \in A
  <2>1. e \in Callbacks
    BY <1>1
  <2>2. CASE nodes2[e].next = nodes[e].next
    BY <1>1, <1>2, <2>2 DEF Follows
  <2>3. CASE nodes[e].next # nil /\ nodes2[e].next = nodes[nodes[e].next].next
    <3>1. nodes[e].next \in A
      BY <1>1, <2>3 DEF Follows
    <3> QED BY <1>1, <1>2, <2>3, <3>1 DEF Follows
  <2> QED BY <1>2, <2>1, <2>2, <2>3
<1>3. Follows(nodes2, A)
  BY <1>2 DEF Follows
<1> QED
  BY <1>1, <1>3, ListLeast

\* The list goes round c, which comes after p.
LEMMA ListUnlink ==
    ASSUME NEW nodes, NEW nodes2, Linked(nodes), Linked(nodes2), nil \notin Callbacks,
           Acyclic(nodes), NEW h \in Callbacks, NEW p \in ListFrom(nodes, h), NEW c \in Callbacks,
           nodes[p].next = c, nodes2[p].next = nodes[c].next, nodes2[c].next = nil,
           \A e \in Callbacks \ {p, c} : nodes2[e].next = nodes[e].next
    PROVE  /\ ListFrom(nodes2, h) \subseteq ListFrom(nodes, h) \ {c}
           /\ p \in ListFrom(nodes2, h)
           /\ ListFrom(nodes2, nodes[c].next) = ListFrom(nodes, nodes[c].next)
<1> DEFINE A == ListFrom(nodes, h)  B == ListFrom(nodes2, h)  d == nodes[c].next
<1>1. /\ A \subseteq Callbacks /\ h \in A /\ Follows(nodes, A)
      /\ B \subseteq Callbacks /\ h \in B /\ Follows(nodes2, B)
      /\ h \in Pointers /\ d \in Pointers /\ c # nil
  BY ListFollows DEF Pointers, Linked
<1>2. p \in Callbacks /\ c \in A /\ c # p
  <2>1. p \in Callbacks /\ c \in A
    BY <1>1 DEF Follows
  <2>2. c \in ListFrom(nodes, c)
    BY ListUnfold
  <2> QED BY <2>1, <2>2 DEF Acyclic
<1>3. ListFrom(nodes, c) = {c} \cup ListFrom(nodes, d) /\ c \notin ListFrom(nodes, d)
      /\ p \notin ListFrom(nodes, c)
  BY <1>2, ListUnfold DEF Acyclic
<1>4. h # c
  BY <1>3
<1>5. Follows(nodes2, A \ {c})
  <2> SUFFICES ASSUME NEW e \in A \ {c}, nodes2[e].next # nil PROVE nodes2[e].next \in A \ {c}
    BY DEF Follows
  <2>1. CASE e = p
    <3>1. d \in A /\ d # nil
      BY <1>1, <1>2, <2>1 DEF Follows
    <3>2. d \in ListFrom(nodes, d)
      BY <1>1, <3>1, ListFollows
    <3> QED BY <1>3, <2>1, <3>1, <3>2
  <2>2. CASE e # p
    <3>1. nodes2[e].next = nodes[e].next /\ nodes[e].next \in A
      BY <1>1, <2>2 DEF Follows
    <3>2. nodes[e].next # c
      BY <1>1, <2>2, ListOnePredecessor DEF Acyclic
    <3> QED BY <3>1, <3>2
  <2> QED BY <2>1, <2>2
<1>6. B \subseteq A \ {c}
  BY <1>1, <1>4, <1>5, ListLeast
<1>7. p \in B
  <2> SUFFICES ASSUME p \notin B PROVE FALSE
    OBVIOUS
  <2>1. Follows(nodes, B)
    BY <1>1, <1>6 DEF Follows
  <2>2. A \subseteq B
    BY <1>1, <2>1, ListLeast
  <2> QED BY <2>2
<1>8. ListFrom(nodes2, d) = ListFrom(nodes, d)
  <2>1. ListFrom(nodes, d) \subseteq Callbacks
    BY <1>1, ListFollows
  <2>2. \A e \in ListFrom(nodes, d) : nodes2[e].next = nodes[e].next
    BY <1>3, <2>1
  <2> QED BY <1>1, <2>2, ListKept
<1> QED
  BY <1>6, <1>7, <1>8

-----------------------------------------------------------------------------
(* The invariant, of objects, heap, heads and one walk. *)

\* c is on a list of reason r, or called from it.
Held(nodes, hp, c, r) == hp[c] = "live" /\ nodes[c].reason = r

\* What a walk has still to visit.
Ahead(hd, f) == IF f.list = "start" THEN hd["start"] ELSE f.next
Rest(nodes, hd, f) == ListFrom(nodes, Ahead(hd, f))

\* The last callback that a walk of the signal's list has left on it.
Last(f) == IF f.executing THEN f.cur ELSE f.prev

Frame == [list : Reasons, executing : BOOLEAN, cur : Pointers, next : Pointers, prev : Pointers,
          called : Seq(Callbacks), due : SUBSET Callbacks, old : SUBSET Callbacks,
          gone : SUBSET Callbacks]

\* Lists end, hold live objects of their reason, and nothing leads to an object
\* that is not allocated.
ListsInv(nodes, hp, hd) ==
    /\ \A r \in Reasons : \A c \in ListFrom(nodes, hd[r]) : Held(nodes, hp, c, r)
    /\ Acyclic(nodes)
    /\ \A c \in Callbacks : nodes[c].next # nil => hp[nodes[c].next] # "new"

\* The pointers of a walk, and of the callback that executes in it.
WalkInv(nodes, hp, hd, f) ==
    /\ \A c \in Rest(nodes, hd, f) : Held(nodes, hp, c, f.list)
    /\ f.executing => /\ f.cur \in Callbacks /\ Held(nodes, hp, f.cur, f.list)
                      /\ f.cur \notin Rest(nodes, hd, f)
    /\ f.list = "next" => /\ Rest(nodes, hd, f) \cap ListFrom(nodes, hd["next"]) = {}
                          /\ f.executing => f.cur \notin ListFrom(nodes, hd["next"])
    /\ f.list = "value" =>
         /\ f.prev # nil => Held(nodes, hp, f.prev, "value")
         /\ Last(f) # nil => /\ Last(f) \in ListFrom(nodes, hd["value"])
                             /\ nodes[Last(f)].next = f.next
         /\ Last(f) = nil => hd["value"] = f.next

\* Whom a walk has called and will call.
CallsInv(nodes, hp, hd, f) ==
    /\ Cardinality(CalledIn(f)) = Len(f.called)
    /\ \A c \in CalledIn(f) : hp[c] # "new" /\ c \notin Rest(nodes, hd, f)
    /\ f.list # "start" => Rest(nodes, hd, f) \subseteq f.old /\ CalledIn(f) \subseteq f.old
    /\ \A c \in f.due : nodes[c].cb_rtn /\ (c \in CalledIn(f) \/ c \in Rest(nodes, hd, f) \/ c \in Parts)

\* What was removed before the walk began.
GoneInv(nodes, hp, hd, f) ==
    \A c \in f.gone :
        /\ hp[c] # "new" /\ ~nodes[c].cb_rtn
        /\ c \in Rest(nodes, hd, f) \/ (hp[c] = "freed" /\ c \notin ListFrom(nodes, hd["value"]))

FrameInv(nodes, hp, hd, f) ==
    WalkInv(nodes, hp, hd, f) /\ CallsInv(nodes, hp, hd, f) /\ GoneInv(nodes, hp, hd, f)

Types(nodes, hp, hd) ==
    /\ nodes \in [Callbacks -> [reason : Reasons, cb_rtn : BOOLEAN, next : Pointers]]
    /\ hp \in [Callbacks -> {"new", "live", "freed"}]
    /\ hd \in [Reasons -> Pointers]

TypeOK == Types(node, heap, head) /\ stack \in Seq(Frame)

\* A walk of the signal's list may be inside one of the others.
StackInv ==
    /\ Len(stack) <= 2
    /\ Len(stack) = 2 => /\ stack[1].list # "value" /\ stack[1].executing
                         /\ stack[2].list = "value"

IInv ==
    /\ TypeOK /\ StackInv /\ ListsInv(node, heap, head)
    /\ \A i \in DOMAIN stack : FrameInv(node, heap, head, stack[i])

\* The types say where pointers lead.
LEMMA TypesLinked ==
    ASSUME NEW nodes, NEW hp, NEW hd, Types(nodes, hp, hd)
    PROVE  Linked(nodes) /\ \A r \in Reasons : hd[r] \in Pointers
  BY DEF Types, Linked

\* From an allocated object a list leads to allocated ones only.
LEMMA ListAllocated ==
    ASSUME NEW nodes, NEW hp, NEW hd, Linked(nodes),
           ListsInv(nodes, hp, hd), NEW x \in Pointers,
           x # nil => hp[x] # "new"
    PROVE  \A e \in ListFrom(nodes, x) : hp[e] # "new"
<1> DEFINE S == {e \in Callbacks : hp[e] # "new"}
<1>1. S \in SUBSET Callbacks /\ (x # nil => x \in S)
  BY DEF Pointers
<1>2. Follows(nodes, S)
  BY DEF Follows, ListsInv, Linked, Pointers
<1>3. ListFrom(nodes, x) \subseteq S
  <2> HIDE DEF S
  <2> QED BY <1>1, <1>2, ListLeast
<1> QED
  BY <1>3

\* The objects and the heads of the lists with n in front of the list of r.
NodesWith(nodes, hd, n, r) ==
    [nodes EXCEPT ![n] = [reason |-> r, cb_rtn |-> TRUE, next |-> hd[r]]]
HeadsWith(hd, n, r) == [hd EXCEPT ![r] = n]
Allocated(hp, n) == [hp EXCEPT ![n] = "live"]

\* vpi_register_cb puts an object in front of its list.
LEMMA Registered ==
    ASSUME nil \notin Callbacks, NEW nodes, NEW hp, NEW hd, Types(nodes, hp, hd),
           ListsInv(nodes, hp, hd), NEW n \in Callbacks, NEW r \in Reasons, hp[n] = "new",
           NEW nodes2, nodes2 = NodesWith(nodes, hd, n, r),
           NEW hp2, hp2 = Allocated(hp, n), NEW hd2, hd2 = HeadsWith(hd, n, r)
    PROVE  /\ Types(nodes2, hp2, hd2) /\ ListsInv(nodes2, hp2, hd2)
           /\ \A f \in Frame : FrameInv(nodes, hp, hd, f) /\ (f.list = "value" => f.executing)
                                 => FrameInv(nodes2, hp2, hd2, f)
<1>1. Types(nodes2, hp2, hd2)
  BY DEF Types, Pointers, NodesWith, HeadsWith, Allocated
<1>2. Linked(nodes) /\ Linked(nodes2) /\ (\A q \in Reasons : hd[q] \in Pointers /\ hd2[q] \in Pointers)
  BY <1>1, TypesLinked
<1>3. /\ nodes2[n].next = hd[r] /\ nodes2[n].reason = r /\ nodes2[n].cb_rtn = TRUE
      /\ \A e \in Callbacks \ {n} : nodes2[e] = nodes[e] /\ hp2[e] = hp[e]
      /\ hp2[n] = "live" /\ hd2[r] = n /\ \A q \in Reasons \ {r} : hd2[q] = hd[q]
  BY DEF Types, NodesWith, HeadsWith, Allocated
<1>4. ASSUME NEW x \in Pointers, x # nil => hp[x] # "new"
      PROVE  ListFrom(nodes2, x) = ListFrom(nodes, x) /\ n \notin ListFrom(nodes, x)
             /\ ListFrom(nodes, x) \subseteq Callbacks
  <2>1. \A e \in ListFrom(nodes, x) : hp[e] # "new"
    BY <1>2, <1>4, ListAllocated
  <2>2. ListFrom(nodes, x) \subseteq Callbacks
    BY <1>2, ListFollows
  <2>3. \A e \in ListFrom(nodes, x) : e \in Callbacks \ {n}
    BY <2>1, <2>2
  <2>4. \A e \in ListFrom(nodes, x) : nodes2[e].next = nodes[e].next
    BY <1>3, <2>3
  <2>5. ListFrom(nodes2, x) = ListFrom(nodes, x)
    BY <1>2, <2>4, ListKept
  <2> QED BY <2>2, <2>3, <2>5
<1>5. ASSUME NEW q \in Reasons
      PROVE  /\ ListFrom(nodes2, hd[q]) = ListFrom(nodes, hd[q]) /\ n \notin ListFrom(nodes, hd[q])
             /\ ListFrom(nodes, hd[q]) \subseteq Callbacks
  <2>1. hd[q] # nil => hd[q] \in ListFrom(nodes, hd[q])
    BY <1>2, ListFollows
  <2>2. hd[q] # nil => hp[hd[q]] # "new"
    BY <2>1 DEF ListsInv, Held
  <2> QED BY <1>2, <1>4, <2>2
<1>6. /\ ListFrom(nodes2, hd2[r]) = {n} \cup ListFrom(nodes, hd[r])
      /\ \A q \in Reasons \ {r} : ListFrom(nodes2, hd2[q]) = ListFrom(nodes, hd[q])
  <2>1. ListFrom(nodes2, n) = {n} \cup ListFrom(nodes2, nodes2[n].next)
    BY <1>2, ListUnfold
  <2>2. ListFrom(nodes2, hd2[r]) = {n} \cup ListFrom(nodes, hd[r])
    <3>1. ListFrom(nodes2, hd[r]) = ListFrom(nodes, hd[r])
      BY <1>5
    <3>2. hd2[r] = n /\ nodes2[n].next = hd[r]
      BY <1>3
    <3> QED BY <2>1, <3>1, <3>2, Zenon
  <2>3. ASSUME NEW q \in Reasons \ {r} PROVE ListFrom(nodes2, hd2[q]) = ListFrom(nodes, hd[q])
    <3>1. hd2[q] = hd[q]
      BY <1>3
    <3> QED BY <1>5, <3>1, Zenon
  <2> QED BY <2>2, <2>3
<1>7. ListsInv(nodes2, hp2, hd2)
  <2>1. ASSUME NEW q \in Reasons, NEW c \in ListFrom(nodes2, hd2[q]) PROVE Held(nodes2, hp2, c, q)
    <3>1. CASE c = n
      <4>1. q = r
        BY <1>5, <1>6, <2>1, <3>1
      <4> QED BY <1>3, <3>1, <4>1 DEF Held
    <3>2. CASE c # n
      <4>1. c \in ListFrom(nodes, hd[q]) /\ c \in Callbacks
        BY <1>5, <1>6, <2>1, <3>2
      <4> QED BY <1>3, <3>2, <4>1 DEF Held, ListsInv
    <3> QED BY <3>1, <3>2
  <2>2. ASSUME NEW c \in Callbacks PROVE c \notin ListFrom(nodes2, nodes2[c].next)
    <3>1. CASE c = n
      <4>1. nodes2[c].next = hd[r]
        BY <1>3, <3>1
      <4>2. n \notin ListFrom(nodes2, hd[r])
        BY <1>5
      <4> QED BY <3>1, <4>1, <4>2, Zenon
    <3>2. CASE c # n
      <4>1. nodes2[c].next = nodes[c].next /\ nodes[c].next \in Pointers
            /\ (nodes[c].next # nil => hp[nodes[c].next] # "new")
        BY <1>2, <1>3, <3>2 DEF ListsInv, Linked
      <4>2. ListFrom(nodes2, nodes[c].next) = ListFrom(nodes, nodes[c].next)
        BY <1>4, <4>1
      <4>3. c \notin ListFrom(nodes, nodes[c].next)
        BY DEF ListsInv, Acyclic
      <4> QED BY <4>1, <4>2, <4>3, Zenon
    <3> QED BY <3>1, <3>2
  <2>3. ASSUME NEW c \in Callbacks, nodes2[c].next # nil PROVE hp2[nodes2[c].next] # "new"
    <3>1. nodes2[c].next \in Callbacks
      BY <1>2, <2>3 DEF Linked, Pointers
    <3>2. CASE c = n
      <4>1. nodes2[c].next \in ListFrom(nodes, hd[r])
        BY <1>2, <1>3, <2>3, <3>2, ListFollows
      <4> QED BY <1>3, <3>1, <4>1 DEF ListsInv, Held
    <3>3. CASE c # n
      BY <1>3, <2>3, <3>1, <3>3 DEF ListsInv
    <3> QED BY <3>2, <3>3
  <2> QED BY <2>1, <2>2, <2>3 DEF ListsInv, Acyclic
<1>8. ASSUME NEW f \in Frame, FrameInv(nodes, hp, hd, f), f.list = "value" => f.executing
      PROVE  FrameInv(nodes2, hp2, hd2, f)
  <2> DEFINE R == Rest(nodes, hd, f)  R2 == Rest(nodes2, hd2, f)
  <2>1. /\ R \subseteq Callbacks /\ n \notin R
        /\ \/ R2 = R
           \/ f.list = "start" /\ r = "start" /\ R2 = {n} \cup R
    <3>1. CASE f.list = "start"
      BY <1>5, <1>6, <3>1 DEF Rest, Ahead, Reasons
    <3>2. CASE f.list # "start"
      <4>1. f.next \in Pointers /\ R = ListFrom(nodes, f.next) /\ R2 = ListFrom(nodes2, f.next)
        BY <3>2 DEF Frame, Rest, Ahead
      <4>2. f.next # nil => f.next \in R
        BY <1>2, <4>1, ListFollows
      <4>3. f.next # nil => hp[f.next] # "new"
        BY <1>8, <4>2 DEF FrameInv, WalkInv, Held
      <4> QED BY <1>4, <4>1, <4>3
    <3> QED BY <3>1, <3>2
  <2> HIDE DEF R, R2
  <2>2. WalkInv(nodes2, hp2, hd2, f)
    <3>1. WalkInv(nodes, hp, hd, f)
      BY <1>8 DEF FrameInv
    <3>2. ASSUME NEW c \in R2 PROVE Held(nodes2, hp2, c, f.list)
      <4>1. CASE c = n
        BY <1>3, <2>1, <4>1 DEF Held
      <4>2. CASE c # n
        <5>1. c \in R /\ c \in Callbacks
          BY <2>1, <4>2
        <5> QED BY <1>3, <3>1, <4>2, <5>1 DEF WalkInv, Held, R
      <4> QED BY <4>1, <4>2
    <3>3. ASSUME f.executing
          PROVE  /\ f.cur \in Callbacks /\ f.cur # n /\ Held(nodes2, hp2, f.cur, f.list)
                 /\ f.cur \notin R2
      <4>1. f.cur \in Callbacks /\ Held(nodes, hp, f.cur, f.list) /\ f.cur \notin R
        BY <3>1, <3>3 DEF WalkInv, R
      <4>2. f.cur # n
        BY <4>1 DEF Held
      <4> QED BY <1>3, <2>1, <4>1, <4>2 DEF Held
    <3>4. ASSUME f.list = "next"
          PROVE  /\ R2 \cap ListFrom(nodes2, hd2["next"]) = {}
                 /\ f.executing => f.cur \notin ListFrom(nodes2, hd2["next"])
      <4>1. /\ R \cap ListFrom(nodes, hd["next"]) = {}
            /\ f.executing => f.cur \notin ListFrom(nodes, hd["next"])
        BY <3>1, <3>4 DEF WalkInv, R
      <4>2. R2 = R
        BY <2>1, <3>4
      <4>3. ListFrom(nodes2, hd2["next"]) \subseteq {n} \cup ListFrom(nodes, hd["next"])
        BY <1>6 DEF Reasons
      <4> QED BY <2>1, <3>3, <4>1, <4>2, <4>3
    <3>5. ASSUME f.list = "value"
          PROVE  /\ f.prev # nil => Held(nodes2, hp2, f.prev, "value")
                 /\ Last(f) # nil => /\ Last(f) \in ListFrom(nodes2, hd2["value"])
                                     /\ nodes2[Last(f)].next = f.next
                 /\ Last(f) = nil => hd2["value"] = f.next
      <4>1. f.executing /\ Last(f) = f.cur /\ f.cur \in Callbacks /\ f.cur # n
        BY <1>8, <3>3, <3>5 DEF Last
      <4>2. /\ f.prev # nil => Held(nodes, hp, f.prev, "value")
            /\ f.cur \in ListFrom(nodes, hd["value"]) /\ nodes[f.cur].next = f.next
        BY <3>1, <3>5, <4>1 DEF WalkInv
      <4>3. ListFrom(nodes, hd["value"]) \subseteq ListFrom(nodes2, hd2["value"])
        BY <1>6 DEF Reasons
      <4>4. f.prev # nil => Held(nodes2, hp2, f.prev, "value")
        <5>1. f.prev # nil => f.prev \in Callbacks /\ f.prev # n
          BY <4>2 DEF Frame, Pointers, Held
        <5> QED BY <1>3, <4>2, <5>1 DEF Held
      <4>5. nodes2[f.cur].next = f.next
        BY <1>3, <4>1, <4>2
      <4> QED BY <4>1, <4>2, <4>3, <4>4, <4>5
    <3> QED BY <3>2, <3>3, <3>4, <3>5 DEF WalkInv, R2
  <2>3. CallsInv(nodes2, hp2, hd2, f)
    <3>1. CallsInv(nodes, hp, hd, f)
      BY <1>8 DEF FrameInv
    <3>2. f.due \subseteq Callbacks /\ CalledIn(f) \subseteq Callbacks
      BY DEF Frame, CalledIn
    <3>3. n \notin CalledIn(f)
      BY <3>1 DEF CallsInv
    <3>4. \A c \in CalledIn(f) : hp2[c] # "new" /\ c \notin R2
      BY <1>3, <2>1, <3>1, <3>2, <3>3 DEF CallsInv, R
    <3>5. f.list # "start" => R2 \subseteq f.old /\ CalledIn(f) \subseteq f.old
      BY <2>1, <3>1 DEF CallsInv, R
    <3>6. \A c \in f.due : nodes2[c].cb_rtn /\ (c \in CalledIn(f) \/ c \in R2 \/ c \in Parts)
      BY <1>3, <2>1, <3>1, <3>2 DEF CallsInv, R
    <3> QED BY <3>1, <3>4, <3>5, <3>6 DEF CallsInv, R2
  <2>4. GoneInv(nodes2, hp2, hd2, f)
    <3> SUFFICES ASSUME NEW c \in f.gone
                 PROVE  /\ hp2[c] # "new" /\ ~nodes2[c].cb_rtn
                        /\ c \in R2 \/ (hp2[c] = "freed" /\ c \notin ListFrom(nodes2, hd2["value"]))
      BY DEF GoneInv, R2
    <3>1. /\ c \in Callbacks /\ hp[c] # "new" /\ ~nodes[c].cb_rtn /\ c # n
          /\ c \in R \/ (hp[c] = "freed" /\ c \notin ListFrom(nodes, hd["value"]))
      BY <1>8 DEF FrameInv, GoneInv, R, Frame
    <3>2. ListFrom(nodes2, hd2["value"]) \subseteq {n} \cup ListFrom(nodes, hd["value"])
      BY <1>6 DEF Reasons
    <3> QED BY <1>3, <2>1, <3>1, <3>2
  <2> QED BY <2>2, <2>3, <2>4 DEF FrameInv
<1> QED
  BY <1>1, <1>7, <1>8

\* vpi_remove_cb clears a function pointer, and the walks no longer owe a call.
LEMMA Removed ==
    ASSUME nil \notin Callbacks, NEW nodes, NEW hp, NEW hd, Types(nodes, hp, hd),
           ListsInv(nodes, hp, hd), NEW n \in Callbacks, hp[n] = "live",
           NEW nodes2, nodes2 = [nodes EXCEPT ![n].cb_rtn = FALSE]
    PROVE  /\ Types(nodes2, hp, hd) /\ ListsInv(nodes2, hp, hd)
           /\ \A f \in Frame : FrameInv(nodes, hp, hd, f)
                                 => FrameInv(nodes2, hp, hd, [f EXCEPT !.due = @ \ {n}])
<1>1. Types(nodes2, hp, hd)
  BY DEF Types, Pointers
<1>2. Linked(nodes) /\ Linked(nodes2) /\ (\A q \in Reasons : hd[q] \in Pointers)
  BY <1>1, TypesLinked
<1>3. /\ \A e \in Callbacks : nodes2[e].next = nodes[e].next /\ nodes2[e].reason = nodes[e].reason
      /\ \A e \in Callbacks \ {n} : nodes2[e].cb_rtn = nodes[e].cb_rtn
      /\ ~nodes2[n].cb_rtn
  BY DEF Types
<1>4. ASSUME NEW x \in Pointers
      PROVE  ListFrom(nodes2, x) = ListFrom(nodes, x) /\ ListFrom(nodes, x) \subseteq Callbacks
  <2>1. ListFrom(nodes, x) \subseteq Callbacks
    BY <1>2, ListFollows
  <2>2. \A e \in ListFrom(nodes, x) : nodes2[e].next = nodes[e].next
    BY <1>3, <2>1
  <2>3. ListFrom(nodes2, x) = ListFrom(nodes, x)
    BY <1>2, <2>2, ListKept
  <2> QED BY <2>1, <2>3
<1>5. ListsInv(nodes2, hp, hd)
  <2>1. \A q \in Reasons : ListFrom(nodes2, hd[q]) = ListFrom(nodes, hd[q])
                           /\ ListFrom(nodes, hd[q]) \subseteq Callbacks
    BY <1>2, <1>4
  <2>2. \A c \in Callbacks : ListFrom(nodes2, nodes2[c].next) = ListFrom(nodes, nodes[c].next)
    BY <1>2, <1>3, <1>4 DEF Linked
  <2>3. Acyclic(nodes2)
    BY <2>2 DEF ListsInv, Acyclic
  <2>4. ASSUME NEW q \in Reasons, NEW e \in ListFrom(nodes2, hd[q]) PROVE Held(nodes2, hp, e, q)
    <3>1. e \in ListFrom(nodes, hd[q]) /\ e \in Callbacks
      BY <2>1, <2>4
    <3>2. Held(nodes, hp, e, q)
      BY <3>1 DEF ListsInv
    <3> QED BY <1>3, <3>1, <3>2 DEF Held
  <2>5. \A e \in Callbacks : nodes2[e].next # nil => hp[nodes2[e].next] # "new"
    BY <1>3 DEF ListsInv
  <2> QED BY <2>3, <2>4, <2>5 DEF ListsInv
<1>6. ASSUME NEW f \in Frame, FrameInv(nodes, hp, hd, f)
      PROVE  FrameInv(nodes2, hp, hd, [f EXCEPT !.due = @ \ {n}])
  <2> DEFINE g == [f EXCEPT !.due = @ \ {n}]
  <2>1. /\ g.list = f.list /\ g.executing = f.executing /\ g.cur = f.cur /\ g.next = f.next
        /\ g.prev = f.prev /\ g.called = f.called /\ g.old = f.old /\ g.gone = f.gone
        /\ g.due = f.due \ {n}
    BY DEF Frame
  <2> HIDE DEF g
  <2>2. /\ Rest(nodes2, hd, g) = Rest(nodes, hd, f) /\ Rest(nodes, hd, f) \subseteq Callbacks
        /\ \A q \in Reasons : ListFrom(nodes2, hd[q]) = ListFrom(nodes, hd[q])
    <3>1. Ahead(hd, f) \in Pointers /\ Ahead(hd, g) = Ahead(hd, f)
      BY <1>2, <2>1 DEF Ahead, Frame, Reasons
    <3> QED BY <1>2, <1>4, <3>1 DEF Rest
  <2>3. Last(g) = Last(f) /\ CalledIn(g) = CalledIn(f)
    BY <2>1 DEF Last, CalledIn
  <2>4. /\ f.gone \subseteq Callbacks /\ f.due \subseteq Callbacks /\ f.prev \in Pointers
        /\ Last(f) \in Pointers
    BY DEF Frame, Last
  <2>5. WalkInv(nodes2, hp, hd, g)
    <3>1. WalkInv(nodes, hp, hd, f)
      BY <1>6 DEF FrameInv
    <3>2. \A c \in Callbacks : \A q : Held(nodes, hp, c, q) <=> Held(nodes2, hp, c, q)
      BY <1>3 DEF Held
    <3>3. \A c \in Rest(nodes, hd, f) : Held(nodes2, hp, c, f.list)
      BY <2>2, <3>1, <3>2 DEF WalkInv
    <3>4. f.executing => /\ f.cur \in Callbacks /\ Held(nodes2, hp, f.cur, f.list)
                         /\ f.cur \notin Rest(nodes, hd, f)
      BY <3>1, <3>2 DEF WalkInv
    <3>5. f.list = "next" => /\ Rest(nodes, hd, f) \cap ListFrom(nodes, hd["next"]) = {}
                             /\ f.executing => f.cur \notin ListFrom(nodes, hd["next"])
      BY <3>1 DEF WalkInv
    <3>6. f.list = "value" =>
            /\ f.prev # nil => Held(nodes2, hp, f.prev, "value")
            /\ Last(f) # nil => /\ Last(f) \in ListFrom(nodes, hd["value"])
                                /\ nodes2[Last(f)].next = f.next
            /\ Last(f) = nil => hd["value"] = f.next
      BY <1>3, <2>4, <3>1, <3>2 DEF WalkInv, Pointers
    <3>7. "next" \in Reasons /\ "value" \in Reasons
      BY DEF Reasons
    <3> QED BY <2>1, <2>2, <2>3, <3>3, <3>4, <3>5, <3>6, <3>7 DEF WalkInv
  <2>6. CallsInv(nodes2, hp, hd, g)
    <3>1. CallsInv(nodes, hp, hd, f)
      BY <1>6 DEF FrameInv
    <3>2. \A c \in g.due : nodes2[c].cb_rtn /\ (c \in CalledIn(f) \/ c \in Rest(nodes, hd, f)
                                                \/ c \in Parts)
      BY <1>3, <2>1, <2>4, <3>1 DEF CallsInv
    <3> QED BY <2>1, <2>2, <2>3, <3>1, <3>2 DEF CallsInv
  <2>7. GoneInv(nodes2, hp, hd, g)
    <3>1. GoneInv(nodes, hp, hd, f) /\ "value" \in Reasons
      BY <1>6 DEF FrameInv, Reasons
    <3>2. \A c \in f.gone : ~nodes2[c].cb_rtn
      BY <1>3, <2>4, <3>1 DEF GoneInv
    <3> QED BY <2>1, <2>2, <3>1, <3>2 DEF GoneInv
  <2> QED BY <2>5, <2>6, <2>7 DEF FrameInv, g
<1> QED
  BY <1>1, <1>5, <1>6

\* The heads of the lists when c has left a one-time list.
Left(nodes, hd, f, c) ==
    IF f.list = "start" THEN [hd EXCEPT !["start"] = nodes[c].next] ELSE hd

\* c, the first ahead of the walk, has left the list.
Departed(nodes, hp, hd, hd2, f, c) ==
    /\ Types(nodes, hp, hd2) /\ ListsInv(nodes, hp, hd2)
    /\ Rest(nodes, hd, f) = {c} \cup ListFrom(nodes, nodes[c].next)
    /\ c \notin ListFrom(nodes, nodes[c].next)
    /\ \A q \in Reasons : /\ ListFrom(nodes, hd2[q]) \subseteq ListFrom(nodes, hd[q])
                          /\ c \notin ListFrom(nodes, hd2[q])

\* The first callback ahead of a walk of a one-time list leaves the list.
LEMMA LeavesList ==
    ASSUME nil \notin Callbacks, NEW nodes, NEW hp, NEW hd, Types(nodes, hp, hd),
           ListsInv(nodes, hp, hd), NEW f \in Frame, FrameInv(nodes, hp, hd, f),
           f.list # "value", NEW c \in Callbacks, c = Ahead(hd, f),
           NEW hd2, hd2 = Left(nodes, hd, f, c)
    PROVE  Departed(nodes, hp, hd, hd2, f, c)
<1>1. Linked(nodes) /\ nodes[c].next \in Pointers
  BY TypesLinked DEF Linked
<1>2. Types(nodes, hp, hd2)
  BY <1>1 DEF Types, Reasons, Left
<1>3. /\ Rest(nodes, hd, f) = {c} \cup ListFrom(nodes, nodes[c].next)
      /\ c \notin ListFrom(nodes, nodes[c].next)
  <2>1. ListFrom(nodes, c) = {c} \cup ListFrom(nodes, nodes[c].next)
    BY <1>1, ListUnfold
  <2>2. c \notin ListFrom(nodes, nodes[c].next)
    BY DEF ListsInv, Acyclic
  <2> QED BY <2>1, <2>2 DEF Rest
<1>4. f.list \in Reasons /\ Held(nodes, hp, c, f.list)
  BY <1>3 DEF FrameInv, WalkInv, Frame
<1>5. ASSUME NEW q \in Reasons
      PROVE  /\ ListFrom(nodes, hd2[q]) \subseteq ListFrom(nodes, hd[q])
             /\ c \notin ListFrom(nodes, hd2[q])
  <2>1. CASE f.list = "start" /\ q = "start"
    <3>1. hd2[q] = nodes[c].next /\ hd[q] = c
      BY <2>1 DEF Types, Ahead, Left
    <3>2. ListFrom(nodes, c) = {c} \cup ListFrom(nodes, nodes[c].next)
      BY <1>1, ListUnfold
    <3> QED BY <1>3, <3>1, <3>2
  <2>2. CASE ~(f.list = "start" /\ q = "start")
    <3>1. hd2[q] = hd[q]
      BY <2>2 DEF Types, Left
    <3>2. CASE q # f.list
      <4>1. \A e \in ListFrom(nodes, hd[q]) : Held(nodes, hp, e, q)
        BY DEF ListsInv
      <4> QED BY <1>4, <3>1, <3>2, <4>1 DEF Held
    <3>3. CASE q = f.list
      <4>1. f.list = "next"
        BY <1>4, <2>2, <3>3 DEF Reasons
      <4>2. c \notin ListFrom(nodes, hd["next"])
        BY <1>3, <4>1 DEF FrameInv, WalkInv
      <4> QED BY <3>1, <3>3, <4>1, <4>2
    <3> QED BY <3>2, <3>3
  <2> QED BY <2>1, <2>2
<1>6. ListsInv(nodes, hp, hd2)
  BY <1>5 DEF ListsInv
<1> QED
  BY <1>2, <1>3, <1>5, <1>6 DEF Departed

\* One more callback is called.
LEMMA CalledOneMore ==
    ASSUME NEW f \in Frame, NEW g, NEW c \in Callbacks, c \notin CalledIn(f),
           Cardinality(CalledIn(f)) = Len(f.called), g.called = Append(f.called, c)
    PROVE  CalledIn(g) = CalledIn(f) \cup {c} /\ Cardinality(CalledIn(g)) = Len(g.called)
<1> DEFINE s == f.called
<1>1. s \in Seq(Callbacks) /\ Len(s) \in Nat /\ DOMAIN s = 1 .. Len(s)
  BY DEF Frame
<1>2. /\ Len(Append(s, c)) = Len(s) + 1 /\ DOMAIN Append(s, c) = 1 .. Len(s) + 1
      /\ Append(s, c)[Len(s) + 1] = c /\ \A i \in 1 .. Len(s) : Append(s, c)[i] = s[i]
  BY <1>1
<1>3. CalledIn(f) = {s[i] : i \in 1 .. Len(s)} /\ CalledIn(g) = {Append(s, c)[i] : i \in 1 .. Len(s) + 1}
  BY <1>1, <1>2 DEF CalledIn
<1> HIDE DEF s
<1>4. CalledIn(g) = CalledIn(f) \cup {c}
  <2>1. ASSUME NEW x \in CalledIn(g) PROVE x \in CalledIn(f) \cup {c}
    BY <1>1, <1>2, <1>3, <2>1
  <2>2. ASSUME NEW x \in CalledIn(f) PROVE x \in CalledIn(g)
    <3>1. PICK i \in 1 .. Len(s) : x = s[i]
      BY <1>3, <2>2
    <3>2. i \in 1 .. Len(s) + 1 /\ x = Append(s, c)[i]
      BY <1>1, <1>2, <3>1
    <3> QED BY <1>3, <3>2
  <2>3. c \in CalledIn(g)
    <3>1. Len(s) + 1 \in 1 .. Len(s) + 1
      BY <1>1
    <3> QED BY <1>2, <1>3, <3>1
  <2> QED BY <2>1, <2>2, <2>3
<1>5. IsFiniteSet(CalledIn(f))
  <2>1. IsFiniteSet(1 .. Len(s))
    BY <1>1, FS_Interval
  <2>2. s \in Surjection(1 .. Len(s), CalledIn(f))
    BY <1>1, <1>3 DEF Surjection, s
  <2> QED BY <2>1, <2>2, FS_Surjection
<1>6. Cardinality(CalledIn(f) \cup {c}) = Cardinality(CalledIn(f)) + 1
  BY <1>5, FS_AddElement
<1> QED
  BY <1>2, <1>4, <1>6 DEF s

\* Who has been called is not changed by the rest of a walk's state.
LEMMA CalledKept ==
    ASSUME NEW f, NEW g, g.called = f.called
    PROVE  CalledIn(g) = CalledIn(f)
  BY DEF CalledIn

\* The walk f when it calls c, passes it over, leaves it behind, and goes on.
WithCall(nodes, f, c) == [f EXCEPT !.executing = TRUE, !.cur = c, !.next = nodes[c].next,
                                   !.called = Append(@, c)]
WithPass(nodes, f, c) == [f EXCEPT !.cur = c, !.prev = c, !.next = nodes[c].next]
WithNext(nodes, f, c) == [f EXCEPT !.next = nodes[c].next]
WithReturn(f) == [f EXCEPT !.executing = FALSE, !.prev = f.cur]

\* VisitOnce calls the callback.
LEMMA OnceCalled ==
    ASSUME nil \notin Callbacks, NEW nodes, NEW hp, NEW hd, Types(nodes, hp, hd),
           ListsInv(nodes, hp, hd), NEW f \in Frame, FrameInv(nodes, hp, hd, f),
           f.list # "value", NEW c \in Callbacks, c = Ahead(hd, f), c \notin f.gone,
           NEW hd2, hd2 = Left(nodes, hd, f, c),
           NEW g, g = WithCall(nodes, f, c)
    PROVE  /\ Types(nodes, hp, hd2) /\ ListsInv(nodes, hp, hd2)
           /\ g \in Frame /\ FrameInv(nodes, hp, hd2, g)
<1> DEFINE d == nodes[c].next
<1>1. /\ g.list = f.list /\ g.executing = TRUE /\ g.cur = c /\ g.next = d /\ g.prev = f.prev
      /\ g.called = Append(f.called, c) /\ g.due = f.due /\ g.old = f.old /\ g.gone = f.gone
  BY DEF Frame, WithCall
<1>2. /\ Types(nodes, hp, hd2) /\ ListsInv(nodes, hp, hd2)
      /\ Rest(nodes, hd, f) = {c} \cup ListFrom(nodes, d)
      /\ c \notin ListFrom(nodes, d)
      /\ \A q \in Reasons : /\ ListFrom(nodes, hd2[q]) \subseteq ListFrom(nodes, hd[q])
                            /\ c \notin ListFrom(nodes, hd2[q])
  <2>1. Departed(nodes, hp, hd, hd2, f, c)
    BY LeavesList
  <2> QED BY <2>1 DEF Departed
<1>3. d \in Pointers
  BY TypesLinked DEF Linked
<1>4. Rest(nodes, hd2, g) = ListFrom(nodes, d)
  <2>1. Ahead(hd2, g) = d
    BY <1>1 DEF Types, Ahead, Reasons, Left
  <2> QED BY <2>1 DEF Rest
<1>5. WalkInv(nodes, hp, hd, f) /\ CallsInv(nodes, hp, hd, f) /\ GoneInv(nodes, hp, hd, f)
  BY DEF FrameInv
<1>6. g \in Frame
  <2>1. f.called \in Seq(Callbacks) /\ Append(f.called, c) \in Seq(Callbacks)
    BY DEF Frame
  <2> QED BY <1>3, <2>1 DEF Frame, Pointers, WithCall
<1> HIDE DEF d
<1>7. WalkInv(nodes, hp, hd2, g)
  <2>1. "next" \in Reasons
    BY DEF Reasons
  <2>2. Held(nodes, hp, c, f.list) /\ \A x \in ListFrom(nodes, d) : Held(nodes, hp, x, f.list)
    BY <1>2, <1>5 DEF WalkInv
  <2>3. f.list = "next" => ListFrom(nodes, d) \cap ListFrom(nodes, hd2["next"]) = {}
    BY <1>2, <1>5, <2>1 DEF WalkInv
  <2> QED BY <1>1, <1>2, <1>4, <2>1, <2>2, <2>3 DEF WalkInv
<1>8. CallsInv(nodes, hp, hd2, g)
  <2>1. c \notin CalledIn(f) /\ Cardinality(CalledIn(f)) = Len(f.called)
    BY <1>2, <1>5 DEF CallsInv
  <2>2. CalledIn(g) = CalledIn(f) \cup {c} /\ Cardinality(CalledIn(g)) = Len(g.called)
    BY <1>1, <2>1, CalledOneMore
  <2>3. hp[c] # "new"
    BY <1>2, <1>5 DEF WalkInv, Held
  <2> QED BY <1>1, <1>2, <1>4, <1>5, <2>2, <2>3 DEF CallsInv
<1>9. GoneInv(nodes, hp, hd2, g)
  <2>1. "value" \in Reasons
    BY DEF Reasons
  <2> QED BY <1>1, <1>2, <1>4, <1>5, <2>1 DEF GoneInv
<1> QED
  BY <1>2, <1>6, <1>7, <1>8, <1>9 DEF FrameInv

\* The heap without an object.
Freed(hp, c) == [hp EXCEPT ![c] = "freed"]

\* Freeing an object that is on no list.
LEMMA FreedLists ==
    ASSUME NEW nodes, NEW hp, NEW hd, Types(nodes, hp, hd), ListsInv(nodes, hp, hd),
           NEW c \in Callbacks, \A q \in Reasons : c \notin ListFrom(nodes, hd[q]),
           NEW hp2, hp2 = Freed(hp, c)
    PROVE  Types(nodes, hp2, hd) /\ ListsInv(nodes, hp2, hd)
<1>1. /\ Linked(nodes) /\ (\A q \in Reasons : hd[q] \in Pointers) /\ Types(nodes, hp2, hd)
      /\ hp2[c] = "freed" /\ \A e \in Callbacks \ {c} : hp2[e] = hp[e]
  BY TypesLinked DEF Types, Freed
<1>2. ASSUME NEW q \in Reasons, NEW e \in ListFrom(nodes, hd[q]) PROVE Held(nodes, hp2, e, q)
  <2>1. e \in Callbacks
    BY <1>1, ListFollows
  <2>2. Held(nodes, hp, e, q)
    BY DEF ListsInv
  <2> QED BY <1>1, <2>1, <2>2 DEF Held
<1>3. ASSUME NEW e \in Callbacks, nodes[e].next # nil PROVE hp2[nodes[e].next] # "new"
  <2>1. nodes[e].next \in Callbacks /\ hp[nodes[e].next] # "new"
    BY <1>1, <1>3 DEF ListsInv, Linked, Pointers
  <2> QED BY <1>1, <2>1
<1> QED
  BY <1>1, <1>2, <1>3 DEF ListsInv

\* VisitOnce frees a callback that has been removed.
LEMMA OnceSkipped ==
    ASSUME nil \notin Callbacks, NEW nodes, NEW hp, NEW hd, Types(nodes, hp, hd),
           ListsInv(nodes, hp, hd), NEW f \in Frame, FrameInv(nodes, hp, hd, f), ~f.executing,
           f.list # "value", NEW c \in Callbacks, c = Ahead(hd, f), c \notin f.due,
           NEW hd2, hd2 = Left(nodes, hd, f, c),
           NEW hp2, hp2 = Freed(hp, c),
           NEW g, g = WithNext(nodes, f, c)
    PROVE  /\ Types(nodes, hp2, hd2) /\ ListsInv(nodes, hp2, hd2)
           /\ g \in Frame /\ FrameInv(nodes, hp2, hd2, g)
<1> DEFINE d == nodes[c].next
<1>1. /\ g.list = f.list /\ g.executing = FALSE /\ g.cur = f.cur /\ g.next = d /\ g.prev = f.prev
      /\ g.called = f.called /\ g.due = f.due /\ g.old = f.old /\ g.gone = f.gone
  BY DEF Frame, WithNext
<1>2. /\ Types(nodes, hp, hd2) /\ ListsInv(nodes, hp, hd2)
      /\ Rest(nodes, hd, f) = {c} \cup ListFrom(nodes, d)
      /\ c \notin ListFrom(nodes, d)
      /\ \A q \in Reasons : /\ ListFrom(nodes, hd2[q]) \subseteq ListFrom(nodes, hd[q])
                            /\ c \notin ListFrom(nodes, hd2[q])
  <2>1. Departed(nodes, hp, hd, hd2, f, c)
    BY LeavesList
  <2> QED BY <2>1 DEF Departed
<1>3. d \in Pointers /\ ListFrom(nodes, d) \subseteq Callbacks
  BY TypesLinked, ListFollows DEF Linked
<1>4. Rest(nodes, hd2, g) = ListFrom(nodes, d)
  <2>1. Ahead(hd2, g) = d
    BY <1>1 DEF Types, Ahead, Reasons, Left
  <2> QED BY <2>1 DEF Rest
<1>5. WalkInv(nodes, hp, hd, f) /\ CallsInv(nodes, hp, hd, f) /\ GoneInv(nodes, hp, hd, f)
  BY DEF FrameInv
<1>6. g \in Frame
  BY <1>3 DEF Frame, Pointers, WithNext
<1>7. hp2[c] = "freed" /\ \A e \in Callbacks \ {c} : hp2[e] = hp[e]
  BY DEF Types, Freed
<1> HIDE DEF d
<1>8. Types(nodes, hp2, hd2) /\ ListsInv(nodes, hp2, hd2)
  BY <1>2, FreedLists
<1>9. WalkInv(nodes, hp2, hd2, g)
  <2>1. "next" \in Reasons
    BY DEF Reasons
  <2>2. \A x \in ListFrom(nodes, d) : Held(nodes, hp, x, f.list) /\ x \in Callbacks \ {c}
    BY <1>2, <1>3, <1>5 DEF WalkInv
  <2>3. \A x \in ListFrom(nodes, d) : Held(nodes, hp2, x, f.list)
    BY <1>7, <2>2 DEF Held
  <2>4. f.list = "next" => ListFrom(nodes, d) \cap ListFrom(nodes, hd2["next"]) = {}
    BY <1>2, <1>5, <2>1 DEF WalkInv
  <2> QED BY <1>1, <1>4, <2>3, <2>4 DEF WalkInv
<1>10. CalledIn(g) = CalledIn(f) /\ CalledIn(f) \subseteq Callbacks
  <2>1. CalledIn(g) = CalledIn(f)
    BY <1>1, CalledKept
  <2>2. CalledIn(f) \subseteq Callbacks
    BY DEF Frame, CalledIn
  <2> QED BY <2>1, <2>2
<1>11. CallsInv(nodes, hp2, hd2, g)
  <2>1. \A x \in CalledIn(f) : hp2[x] # "new"
    BY <1>5, <1>7, <1>10 DEF CallsInv
  <2> QED BY <1>1, <1>2, <1>4, <1>5, <1>10, <2>1 DEF CallsInv
<1>12. GoneInv(nodes, hp2, hd2, g)
  <2>1. "value" \in Reasons /\ f.gone \subseteq Callbacks
    BY DEF Reasons, Frame
  <2> QED BY <1>1, <1>2, <1>4, <1>5, <1>7, <2>1 DEF GoneInv
<1> QED
  BY <1>6, <1>8, <1>9, <1>11, <1>12 DEF FrameInv

\* The user's function returns to a one-time list, which frees the callback.
LEMMA OnceReturned ==
    ASSUME nil \notin Callbacks, NEW nodes, NEW hp, NEW hd, Types(nodes, hp, hd),
           ListsInv(nodes, hp, hd), NEW f \in Frame, FrameInv(nodes, hp, hd, f), f.executing,
           f.list # "value", NEW hp2, hp2 = Freed(hp, f.cur),
           NEW g, g = WithReturn(f)
    PROVE  /\ Types(nodes, hp2, hd) /\ ListsInv(nodes, hp2, hd)
           /\ g \in Frame /\ FrameInv(nodes, hp2, hd, g)
<1> DEFINE c == f.cur
<1>1. /\ g.list = f.list /\ g.executing = FALSE /\ g.cur = c /\ g.next = f.next /\ g.prev = c
      /\ g.called = f.called /\ g.due = f.due /\ g.old = f.old /\ g.gone = f.gone
  BY DEF Frame, WithReturn
<1>2. WalkInv(nodes, hp, hd, f) /\ CallsInv(nodes, hp, hd, f) /\ GoneInv(nodes, hp, hd, f)
  BY DEF FrameInv
<1>3. c \in Callbacks /\ Held(nodes, hp, c, f.list) /\ c \notin Rest(nodes, hd, f)
  BY <1>2 DEF WalkInv
<1>4. g \in Frame
  BY <1>3 DEF Frame, Pointers, WithReturn
<1>5. hp2[c] = "freed" /\ \A e \in Callbacks \ {c} : hp2[e] = hp[e]
  BY <1>3 DEF Types, Freed
<1>6. Rest(nodes, hd, f) \subseteq Callbacks
  <2>1. Ahead(hd, f) \in Pointers /\ Linked(nodes)
    BY TypesLinked DEF Ahead, Frame, Reasons
  <2> QED BY <2>1, ListFollows DEF Rest
<1>7. ASSUME NEW q \in Reasons PROVE c \notin ListFrom(nodes, hd[q])
  <2>1. CASE q # f.list
    BY <1>3, <2>1 DEF ListsInv, Held
  <2>2. CASE q = f.list /\ q = "next"
    BY <1>2, <2>2 DEF WalkInv
  <2>3. CASE q = f.list /\ q = "start"
    BY <1>3, <2>3 DEF Rest, Ahead
  <2> QED BY <2>1, <2>2, <2>3 DEF Reasons
<1>8. Types(nodes, hp2, hd) /\ ListsInv(nodes, hp2, hd)
  BY <1>3, <1>7, FreedLists
<1>9. Rest(nodes, hd, g) = Rest(nodes, hd, f)
  BY <1>1 DEF Rest, Ahead
<1> HIDE DEF c
<1>10. WalkInv(nodes, hp2, hd, g)
  <2>1. \A x \in Rest(nodes, hd, f) : Held(nodes, hp2, x, f.list)
    BY <1>2, <1>3, <1>5, <1>6 DEF WalkInv, Held
  <2> QED BY <1>1, <1>2, <1>9, <2>1 DEF WalkInv
<1>11. CalledIn(g) = CalledIn(f) /\ CalledIn(f) \subseteq Callbacks
  <2>1. CalledIn(g) = CalledIn(f)
    BY <1>1, CalledKept
  <2>2. CalledIn(f) \subseteq Callbacks
    BY DEF Frame, CalledIn
  <2> QED BY <2>1, <2>2
<1>12. CallsInv(nodes, hp2, hd, g)
  <2>1. \A x \in CalledIn(f) : hp2[x] # "new"
    BY <1>2, <1>5, <1>11 DEF CallsInv
  <2> QED BY <1>1, <1>2, <1>9, <1>11, <2>1 DEF CallsInv
<1>13. GoneInv(nodes, hp2, hd, g)
  <2>1. f.gone \subseteq Callbacks
    BY DEF Frame
  <2> QED BY <1>1, <1>2, <1>5, <1>9, <2>1 DEF GoneInv
<1> QED
  BY <1>4, <1>8, <1>10, <1>12, <1>13 DEF FrameInv

\* The first callback ahead of a walk of the signal's list is on it.
LEMMA ValueNext ==
    ASSUME nil \notin Callbacks, NEW nodes, NEW hp, NEW hd, Types(nodes, hp, hd),
           ListsInv(nodes, hp, hd), NEW f \in Frame, FrameInv(nodes, hp, hd, f), ~f.executing,
           f.list = "value", NEW c \in Callbacks, c = f.next
    PROVE  /\ Rest(nodes, hd, f) = {c} \cup ListFrom(nodes, nodes[c].next)
           /\ c \notin ListFrom(nodes, nodes[c].next)
           /\ c \in ListFrom(nodes, hd["value"])
           /\ Held(nodes, hp, c, "value")
<1>1. Linked(nodes) /\ hd["value"] \in Pointers /\ nodes[c].next \in Pointers
  BY TypesLinked DEF Reasons, Linked
<1>2. Rest(nodes, hd, f) = ListFrom(nodes, c)
  BY DEF Rest, Ahead
<1>3. ListFrom(nodes, c) = {c} \cup ListFrom(nodes, nodes[c].next)
  BY <1>1, ListUnfold
<1>4. c \notin ListFrom(nodes, nodes[c].next)
  BY DEF ListsInv, Acyclic
<1>5. WalkInv(nodes, hp, hd, f)
  BY DEF FrameInv
<1>6. Held(nodes, hp, c, "value")
  BY <1>2, <1>3, <1>5 DEF WalkInv
<1>7. c \in ListFrom(nodes, hd["value"])
  <2>1. Last(f) = f.prev
    BY DEF Last
  <2>2. CASE f.prev = nil
    <3>1. hd["value"] = c
      BY <1>5, <2>1, <2>2 DEF WalkInv
    <3> QED BY <1>3, <3>1
  <2>3. CASE f.prev # nil
    <3>1. f.prev \in ListFrom(nodes, hd["value"]) /\ nodes[f.prev].next = c
      BY <1>5, <2>1, <2>3 DEF WalkInv
    <3>2. Follows(nodes, ListFrom(nodes, hd["value"]))
      BY <1>1, ListFollows
    <3> QED BY <3>1, <3>2 DEF Follows
  <2> QED BY <2>2, <2>3
<1> QED
  BY <1>2, <1>3, <1>4, <1>6, <1>7

\* VisitValue calls the callback.
LEMMA ValueCalled ==
    ASSUME nil \notin Callbacks, NEW nodes, NEW hp, NEW hd, Types(nodes, hp, hd),
           ListsInv(nodes, hp, hd), NEW f \in Frame, FrameInv(nodes, hp, hd, f), ~f.executing,
           f.list = "value", NEW c \in Callbacks, c = f.next, c \notin f.gone,
           NEW g, g = WithCall(nodes, f, c)
    PROVE  g \in Frame /\ FrameInv(nodes, hp, hd, g)
<1> DEFINE d == nodes[c].next
<1>1. /\ g.list = "value" /\ g.executing = TRUE /\ g.cur = c /\ g.next = d /\ g.prev = f.prev
      /\ g.called = Append(f.called, c) /\ g.due = f.due /\ g.old = f.old /\ g.gone = f.gone
  BY DEF Frame, WithCall
<1>2. /\ Rest(nodes, hd, f) = {c} \cup ListFrom(nodes, d) /\ c \notin ListFrom(nodes, d)
      /\ c \in ListFrom(nodes, hd["value"]) /\ Held(nodes, hp, c, "value")
  BY ValueNext
<1>3. d \in Pointers
  BY TypesLinked DEF Linked
<1>4. Rest(nodes, hd, g) = ListFrom(nodes, d)
  BY <1>1 DEF Rest, Ahead
<1>5. WalkInv(nodes, hp, hd, f) /\ CallsInv(nodes, hp, hd, f) /\ GoneInv(nodes, hp, hd, f)
  BY DEF FrameInv
<1>6. g \in Frame
  <2>1. f.called \in Seq(Callbacks) /\ Append(f.called, c) \in Seq(Callbacks)
    BY DEF Frame
  <2> QED BY <1>3, <2>1 DEF Frame, Pointers, WithCall
<1>7. WalkInv(nodes, hp, hd, g)
  <2>1. \A x \in ListFrom(nodes, d) : Held(nodes, hp, x, "value")
    BY <1>2, <1>5 DEF WalkInv
  <2>2. Last(g) = c
    BY <1>1 DEF Last
  <2>3. f.prev # nil => Held(nodes, hp, f.prev, "value")
    BY <1>5 DEF WalkInv
  <2>4. c # nil /\ nodes[c].next = g.next
    BY <1>1
  <2> QED BY <1>1, <1>2, <1>4, <2>1, <2>2, <2>3, <2>4 DEF WalkInv
<1> HIDE DEF d
<1>8. CallsInv(nodes, hp, hd, g)
  <2>1. c \notin CalledIn(f) /\ Cardinality(CalledIn(f)) = Len(f.called)
    BY <1>2, <1>5 DEF CallsInv
  <2>2. CalledIn(g) = CalledIn(f) \cup {c} /\ Cardinality(CalledIn(g)) = Len(g.called)
    BY <1>1, <2>1, CalledOneMore
  <2>3. hp[c] # "new"
    BY <1>2 DEF Held
  <2> QED BY <1>1, <1>2, <1>4, <1>5, <2>2, <2>3 DEF CallsInv
<1>9. GoneInv(nodes, hp, hd, g)
  BY <1>1, <1>2, <1>4, <1>5 DEF GoneInv
<1> QED
  BY <1>6, <1>7, <1>8, <1>9 DEF FrameInv

\* VisitValue passes a callback over, on a part that did not change.
LEMMA ValuePassed ==
    ASSUME nil \notin Callbacks, NEW nodes, NEW hp, NEW hd, Types(nodes, hp, hd),
           ListsInv(nodes, hp, hd), NEW f \in Frame, FrameInv(nodes, hp, hd, f), ~f.executing,
           f.list = "value", NEW c \in Callbacks, c = f.next, c \notin f.gone, c \in Parts,
           NEW g, g = WithPass(nodes, f, c)
    PROVE  g \in Frame /\ FrameInv(nodes, hp, hd, g)
<1> DEFINE d == nodes[c].next
<1>1. /\ g.list = "value" /\ g.executing = FALSE /\ g.cur = c /\ g.next = d /\ g.prev = c
      /\ g.called = f.called /\ g.due = f.due /\ g.old = f.old /\ g.gone = f.gone
  BY DEF Frame, WithPass
<1>2. /\ Rest(nodes, hd, f) = {c} \cup ListFrom(nodes, d) /\ c \notin ListFrom(nodes, d)
      /\ c \in ListFrom(nodes, hd["value"]) /\ Held(nodes, hp, c, "value")
  BY ValueNext
<1>3. d \in Pointers
  BY TypesLinked DEF Linked
<1>4. Rest(nodes, hd, g) = ListFrom(nodes, d)
  BY <1>1 DEF Rest, Ahead
<1>5. WalkInv(nodes, hp, hd, f) /\ CallsInv(nodes, hp, hd, f) /\ GoneInv(nodes, hp, hd, f)
  BY DEF FrameInv
<1>6. g \in Frame
  BY <1>3 DEF Frame, Pointers, WithPass
<1>7. WalkInv(nodes, hp, hd, g)
  <2>1. \A x \in ListFrom(nodes, d) : Held(nodes, hp, x, "value")
    BY <1>2, <1>5 DEF WalkInv
  <2>2. Last(g) = c
    BY <1>1 DEF Last
  <2>3. c # nil /\ nodes[c].next = g.next
    BY <1>1
  <2> QED BY <1>1, <1>2, <1>4, <2>1, <2>2, <2>3 DEF WalkInv
<1> HIDE DEF d
<1>8. CallsInv(nodes, hp, hd, g)
  <2>1. CalledIn(g) = CalledIn(f)
    BY <1>1, CalledKept
  <2> QED BY <1>1, <1>2, <1>4, <1>5, <2>1 DEF CallsInv
<1>9. GoneInv(nodes, hp, hd, g)
  BY <1>1, <1>2, <1>4, <1>5 DEF GoneInv
<1> QED
  BY <1>6, <1>7, <1>8, <1>9 DEF FrameInv

\* The user's function returns to the signal's list.
LEMMA ValueReturned ==
    ASSUME nil \notin Callbacks, NEW nodes, NEW hp, NEW hd, NEW f \in Frame,
           FrameInv(nodes, hp, hd, f), f.executing, f.list = "value", NEW g, g = WithReturn(f)
    PROVE  g \in Frame /\ FrameInv(nodes, hp, hd, g)
<1>1. /\ g.list = "value" /\ g.executing = FALSE /\ g.cur = f.cur /\ g.next = f.next /\ g.prev = f.cur
      /\ g.called = f.called /\ g.due = f.due /\ g.old = f.old /\ g.gone = f.gone
  BY DEF Frame, WithReturn
<1>2. WalkInv(nodes, hp, hd, f) /\ CallsInv(nodes, hp, hd, f) /\ GoneInv(nodes, hp, hd, f)
  BY DEF FrameInv
<1>3. g \in Frame
  BY DEF Frame, WithReturn
<1>4. Rest(nodes, hd, g) = Rest(nodes, hd, f) /\ Last(g) = f.cur /\ Last(f) = f.cur
  BY <1>1 DEF Rest, Ahead, Last
<1>5. CalledIn(g) = CalledIn(f)
  BY <1>1, CalledKept
<1>6. WalkInv(nodes, hp, hd, g)
  BY <1>1, <1>2, <1>4 DEF WalkInv
<1>7. CallsInv(nodes, hp, hd, g)
  BY <1>1, <1>2, <1>4, <1>5 DEF CallsInv
<1>8. GoneInv(nodes, hp, hd, g)
  BY <1>1, <1>2, <1>4 DEF GoneInv
<1> QED
  BY <1>3, <1>6, <1>7, <1>8 DEF FrameInv

\* The objects and the heads when the signal's list goes round c, which comes after p.
NodesRound(nodes, p, c) ==
    IF p = nil THEN [nodes EXCEPT ![c].next = nil]
    ELSE [nodes EXCEPT ![p].next = nodes[c].next, ![c].next = nil]
HeadsRound(nodes, hd, p, c) ==
    IF p = nil THEN [hd EXCEPT !["value"] = nodes[c].next] ELSE hd
WithUnlink(nodes, f, c) == [f EXCEPT !.cur = c, !.next = nodes[c].next]

\* What that changes, and what it keeps.
Unlinked(nodes, hp, hd, nodes2, hd2, f, c) ==
    /\ Types(nodes2, hp, hd2) /\ Acyclic(nodes2)
    /\ \A q \in Reasons \ {"value"} : hd2[q] = hd[q]
    /\ \A e \in Callbacks : nodes2[e].cb_rtn = nodes[e].cb_rtn /\ nodes2[e].reason = nodes[e].reason
    /\ \A e \in Callbacks : \/ nodes2[e].next = nodes[e].next
                            \/ Held(nodes, hp, e, "value") /\ nodes2[e].next \in {nil, nodes[c].next}
    /\ ListFrom(nodes2, hd2["value"]) \subseteq ListFrom(nodes, hd["value"]) \ {c}
    /\ ListFrom(nodes2, nodes[c].next) = ListFrom(nodes, nodes[c].next)
    /\ f.prev # nil => f.prev \in ListFrom(nodes2, hd2["value"]) /\ nodes2[f.prev].next = nodes[c].next
    /\ f.prev = nil => hd2["value"] = nodes[c].next

\* At the head of the list.
LEMMA UnlinksFirst ==
    ASSUME nil \notin Callbacks, NEW nodes, NEW hp, NEW hd, Types(nodes, hp, hd),
           ListsInv(nodes, hp, hd), NEW f \in Frame, FrameInv(nodes, hp, hd, f), ~f.executing,
           f.list = "value", NEW c \in Callbacks, c = f.next, f.prev = nil,
           NEW nodes2, nodes2 = NodesRound(nodes, f.prev, c),
           NEW hd2, hd2 = HeadsRound(nodes, hd, f.prev, c)
    PROVE  Unlinked(nodes, hp, hd, nodes2, hd2, f, c)
<1>1. /\ Linked(nodes) /\ nodes[c].next \in Pointers /\ c # nil
      /\ c \notin ListFrom(nodes, nodes[c].next) /\ Acyclic(nodes)
  BY TypesLinked DEF Linked, ListsInv, Acyclic
<1>2. Types(nodes2, hp, hd2)
  BY <1>1 DEF Types, NodesRound, HeadsRound, Pointers, Reasons
<1>3. Linked(nodes2)
  BY <1>2, TypesLinked
<1>4. /\ \A e \in Callbacks : nodes2[e].cb_rtn = nodes[e].cb_rtn /\ nodes2[e].reason = nodes[e].reason
      /\ \A e \in Callbacks \ {c} : nodes2[e].next = nodes[e].next
      /\ nodes2[c].next = nil
  BY DEF Types, NodesRound
<1>5. hd2["value"] = nodes[c].next /\ \A q \in Reasons \ {"value"} : hd2[q] = hd[q]
  BY DEF Types, HeadsRound, Reasons
<1>6. Held(nodes, hp, c, "value")
  BY ValueNext
<1>7. hd["value"] = c
  <2>1. Last(f) = nil
    BY DEF Last
  <2> QED BY <2>1 DEF FrameInv, WalkInv
<1>8. ListFrom(nodes2, nodes[c].next) = ListFrom(nodes, nodes[c].next)
  <2>1. ListFrom(nodes, nodes[c].next) \subseteq Callbacks \ {c}
    BY <1>1, ListFollows
  <2>2. \A e \in ListFrom(nodes, nodes[c].next) : nodes2[e].next = nodes[e].next
    BY <1>4, <2>1
  <2> QED BY <1>1, <1>3, <2>2, ListKept
<1>9. ListFrom(nodes, c) = {c} \cup ListFrom(nodes, nodes[c].next)
  BY <1>1, ListUnfold
<1>10. ListFrom(nodes2, hd2["value"]) \subseteq ListFrom(nodes, hd["value"]) \ {c}
  BY <1>1, <1>5, <1>7, <1>8, <1>9
<1>11. Acyclic(nodes2)
  <2> SUFFICES ASSUME NEW e \in Callbacks PROVE e \notin ListFrom(nodes2, nodes2[e].next)
    BY DEF Acyclic
  <2>1. CASE e = c
    BY <1>4, <2>1, ListEmpty
  <2>2. CASE e # c
    <3>1. nodes2[e].next = nodes[e].next /\ nodes[e].next \in Pointers
      BY <1>1, <1>4, <2>2 DEF Linked
    <3>2. \A x \in Callbacks : nodes2[x].next \in {nil, nodes[x].next}
      BY <1>4
    <3>3. ListFrom(nodes2, nodes[e].next) \subseteq ListFrom(nodes, nodes[e].next)
      BY <1>1, <1>3, <3>1, <3>2, ListShorter
    <3> QED BY <1>1, <3>1, <3>3 DEF Acyclic
  <2> QED BY <2>1, <2>2
<1> QED
  BY <1>2, <1>4, <1>5, <1>6, <1>8, <1>10, <1>11 DEF Unlinked

\* After a callback that stays.
LEMMA UnlinksLater ==
    ASSUME nil \notin Callbacks, NEW nodes, NEW hp, NEW hd, Types(nodes, hp, hd),
           ListsInv(nodes, hp, hd), NEW f \in Frame, FrameInv(nodes, hp, hd, f), ~f.executing,
           f.list = "value", NEW c \in Callbacks, c = f.next, f.prev # nil,
           NEW nodes2, nodes2 = NodesRound(nodes, f.prev, c),
           NEW hd2, hd2 = HeadsRound(nodes, hd, f.prev, c)
    PROVE  Unlinked(nodes, hp, hd, nodes2, hd2, f, c)
<1> DEFINE p == f.prev  h == hd["value"]
<1>1. /\ Linked(nodes) /\ nodes[c].next \in Pointers /\ c # nil /\ h \in Pointers
      /\ c \notin ListFrom(nodes, nodes[c].next) /\ Acyclic(nodes)
  BY TypesLinked DEF Linked, ListsInv, Acyclic, Reasons
<1>2. p \in Callbacks /\ Held(nodes, hp, p, "value") /\ p \in ListFrom(nodes, h) /\ nodes[p].next = c
  <2>1. Last(f) = p /\ p \in Callbacks
    BY DEF Last, Frame, Pointers
  <2> QED BY <2>1 DEF FrameInv, WalkInv
<1>3. hd2 = hd /\ p # c
  BY <1>1, <1>2, ListUnfold DEF HeadsRound, Acyclic
<1>4. Types(nodes2, hp, hd2)
  BY <1>1, <1>2, <1>3 DEF Types, NodesRound, Pointers
<1>5. Linked(nodes2)
  BY <1>4, TypesLinked
<1>6. /\ \A e \in Callbacks : nodes2[e].cb_rtn = nodes[e].cb_rtn /\ nodes2[e].reason = nodes[e].reason
      /\ \A e \in Callbacks \ {p, c} : nodes2[e].next = nodes[e].next
      /\ nodes2[c].next = nil /\ nodes2[p].next = nodes[c].next
  BY <1>2, <1>3 DEF Types, NodesRound
<1>7. Held(nodes, hp, c, "value")
  BY ValueNext
<1>8. h \in Callbacks
  BY <1>1, <1>2, ListEmpty DEF Pointers
<1> HIDE DEF p, h
<1>9. /\ ListFrom(nodes2, h) \subseteq ListFrom(nodes, h) \ {c}
      /\ p \in ListFrom(nodes2, h)
      /\ ListFrom(nodes2, nodes[c].next) = ListFrom(nodes, nodes[c].next)
  BY <1>1, <1>2, <1>5, <1>6, <1>8, ListUnlink
<1>10. Acyclic(nodes2)
  <2> SUFFICES ASSUME NEW e \in Callbacks PROVE e \notin ListFrom(nodes2, nodes2[e].next)
    BY DEF Acyclic
  <2>1. CASE e = c
    BY <1>6, <2>1, ListEmpty
  <2>2. CASE e = p
    <3>1. ListFrom(nodes, c) = {c} \cup ListFrom(nodes, nodes[c].next)
      BY <1>1, ListUnfold
    <3>2. p \notin ListFrom(nodes, c)
      BY <1>1, <1>2 DEF Acyclic
    <3> QED BY <1>6, <1>9, <2>2, <3>1, <3>2
  <2>3. CASE e # c /\ e # p
    <3>1. nodes2[e].next = nodes[e].next /\ nodes[e].next \in Pointers
      BY <1>1, <1>6, <2>3 DEF Linked
    <3>2. \A x \in Callbacks : \/ nodes2[x].next \in {nil, nodes[x].next}
                               \/ nodes[x].next # nil /\ nodes2[x].next = nodes[nodes[x].next].next
      BY <1>1, <1>2, <1>6
    <3>3. ListFrom(nodes2, nodes[e].next) \subseteq ListFrom(nodes, nodes[e].next)
      BY <1>1, <1>5, <3>1, <3>2, ListShorter
    <3> QED BY <1>1, <3>1, <3>3 DEF Acyclic
  <2> QED BY <2>1, <2>2, <2>3
<1>11. \A e \in Callbacks : \/ nodes2[e].next = nodes[e].next
                            \/ Held(nodes, hp, e, "value") /\ nodes2[e].next \in {nil, nodes[c].next}
  BY <1>2, <1>6, <1>7
<1> QED
  BY <1>3, <1>4, <1>6, <1>9, <1>10, <1>11 DEF Unlinked, p, h

\* A walk of another list does not notice.
LEMMA OnceUndisturbed ==
    ASSUME nil \notin Callbacks, NEW nodes, NEW hp, NEW hd, Types(nodes, hp, hd),
           NEW f, NEW c \in Callbacks, Held(nodes, hp, c, "value"), NEW nodes2, NEW hd2,
           Unlinked(nodes, hp, hd, nodes2, hd2, f, c),
           NEW hp2, hp2 = Freed(hp, c),
           NEW g \in Frame, g.list # "value", FrameInv(nodes, hp, hd, g),
           ListsInv(nodes, hp, hd)
    PROVE  FrameInv(nodes2, hp2, hd2, g)
<1>1. WalkInv(nodes, hp, hd, g) /\ CallsInv(nodes, hp, hd, g) /\ GoneInv(nodes, hp, hd, g)
  BY DEF FrameInv
<1>2. /\ Types(nodes2, hp, hd2)
      /\ \A q \in Reasons \ {"value"} : hd2[q] = hd[q]
      /\ \A e \in Callbacks : nodes2[e].cb_rtn = nodes[e].cb_rtn /\ nodes2[e].reason = nodes[e].reason
      /\ \A e \in Callbacks : nodes2[e].next = nodes[e].next \/ Held(nodes, hp, e, "value")
      /\ ListFrom(nodes2, hd2["value"]) \subseteq ListFrom(nodes, hd["value"]) \ {c}
  BY DEF Unlinked
<1>3. hp2[c] = "freed" /\ \A e \in Callbacks \ {c} : hp2[e] = hp[e]
  BY DEF Types, Freed
<1>4. Linked(nodes) /\ Linked(nodes2) /\ \A q \in Reasons : hd[q] \in Pointers
  BY <1>2, TypesLinked
<1>5. /\ g.list \in Reasons \ {"value"} /\ g.due \subseteq Callbacks /\ g.gone \subseteq Callbacks
      /\ Ahead(hd, g) \in Pointers /\ Ahead(hd2, g) = Ahead(hd, g)
  BY <1>2, <1>4 DEF Frame, Ahead, Reasons
<1>6. ASSUME NEW x \in Pointers, NEW q \in Reasons \ {"value"},
             \A e \in ListFrom(nodes, x) : Held(nodes, hp, e, q)
      PROVE  ListFrom(nodes2, x) = ListFrom(nodes, x)
  <2>1. \A e \in ListFrom(nodes, x) : e \in Callbacks /\ ~Held(nodes, hp, e, "value")
    BY <1>4, <1>6, ListFollows DEF Held
  <2>2. \A e \in ListFrom(nodes, x) : nodes2[e].next = nodes[e].next
    BY <1>2, <2>1
  <2> QED BY <1>4, <2>2, ListKept
<1>7. ASSUME NEW e \in Callbacks, NEW q \in Reasons \ {"value"}, Held(nodes, hp, e, q)
      PROVE  Held(nodes2, hp2, e, q)
  BY <1>2, <1>3, <1>7 DEF Held
<1>8. Rest(nodes2, hd2, g) = Rest(nodes, hd, g) /\ Rest(nodes, hd, g) \subseteq Callbacks
  <2>1. \A e \in ListFrom(nodes, Ahead(hd, g)) : Held(nodes, hp, e, g.list)
    BY <1>1 DEF WalkInv, Rest
  <2>2. ListFrom(nodes2, Ahead(hd, g)) = ListFrom(nodes, Ahead(hd, g))
    BY <1>5, <1>6, <2>1
  <2>3. ListFrom(nodes, Ahead(hd, g)) \subseteq Callbacks
    BY <1>4, <1>5, ListFollows
  <2> QED BY <1>5, <2>2, <2>3 DEF Rest
<1>9. ListFrom(nodes2, hd2["next"]) = ListFrom(nodes, hd["next"])
  <2>1. "next" \in Reasons \ {"value"} /\ hd2["next"] = hd["next"] /\ hd["next"] \in Pointers
    BY <1>2, <1>4 DEF Reasons
  <2>2. \A e \in ListFrom(nodes, hd["next"]) : Held(nodes, hp, e, "next")
    BY DEF ListsInv, Reasons
  <2> QED BY <1>6, <2>1, <2>2
<1>10. WalkInv(nodes2, hp2, hd2, g)
  <2>1. \A x \in Rest(nodes, hd, g) : Held(nodes2, hp2, x, g.list)
    BY <1>1, <1>5, <1>7, <1>8 DEF WalkInv
  <2>2. g.executing => /\ g.cur \in Callbacks /\ Held(nodes2, hp2, g.cur, g.list)
                       /\ g.cur \notin Rest(nodes, hd, g)
    BY <1>1, <1>5, <1>7 DEF WalkInv
  <2>3. g.list = "next" => /\ Rest(nodes, hd, g) \cap ListFrom(nodes, hd["next"]) = {}
                           /\ g.executing => g.cur \notin ListFrom(nodes, hd["next"])
    BY <1>1 DEF WalkInv
  <2> QED BY <1>8, <1>9, <2>1, <2>2, <2>3 DEF WalkInv
<1>11. CallsInv(nodes2, hp2, hd2, g)
  <2>1. CalledIn(g) \subseteq Callbacks
    BY DEF CalledIn, Frame
  <2>2. \A x \in CalledIn(g) : hp2[x] # "new"
    BY <1>1, <1>3, <2>1 DEF CallsInv
  <2>3. \A x \in g.due : nodes2[x].cb_rtn
    BY <1>1, <1>2, <1>5 DEF CallsInv
  <2> QED BY <1>1, <1>8, <2>2, <2>3 DEF CallsInv
<1>12. GoneInv(nodes2, hp2, hd2, g)
  BY <1>1, <1>2, <1>3, <1>5, <1>8 DEF GoneInv
<1> QED
  BY <1>10, <1>11, <1>12 DEF FrameInv

\* The walk that unlinks c and frees it.
LEMMA ValueUnlinked ==
    ASSUME nil \notin Callbacks, NEW nodes, NEW hp, NEW hd, Types(nodes, hp, hd),
           ListsInv(nodes, hp, hd), NEW f \in Frame, FrameInv(nodes, hp, hd, f), ~f.executing,
           f.list = "value", NEW c \in Callbacks, c = f.next, ~nodes[c].cb_rtn,
           NEW nodes2, NEW hd2, Unlinked(nodes, hp, hd, nodes2, hd2, f, c),
           NEW hp2, hp2 = Freed(hp, c), NEW g, g = WithUnlink(nodes, f, c)
    PROVE  /\ Types(nodes2, hp2, hd2) /\ ListsInv(nodes2, hp2, hd2)
           /\ g \in Frame /\ FrameInv(nodes2, hp2, hd2, g)
<1> DEFINE d == nodes[c].next
<1>1. /\ g.list = "value" /\ g.executing = FALSE /\ g.cur = c /\ g.next = d /\ g.prev = f.prev
      /\ g.called = f.called /\ g.due = f.due /\ g.old = f.old /\ g.gone = f.gone
  BY DEF Frame, WithUnlink
<1>2. /\ Rest(nodes, hd, f) = {c} \cup ListFrom(nodes, d) /\ c \notin ListFrom(nodes, d)
      /\ c \in ListFrom(nodes, hd["value"]) /\ Held(nodes, hp, c, "value")
  BY ValueNext
<1>3. WalkInv(nodes, hp, hd, f) /\ CallsInv(nodes, hp, hd, f) /\ GoneInv(nodes, hp, hd, f)
  BY DEF FrameInv
<1>4. /\ Types(nodes2, hp, hd2) /\ Acyclic(nodes2)
      /\ \A q \in Reasons \ {"value"} : hd2[q] = hd[q]
      /\ \A e \in Callbacks : nodes2[e].cb_rtn = nodes[e].cb_rtn /\ nodes2[e].reason = nodes[e].reason
      /\ \A e \in Callbacks : nodes2[e].next = nodes[e].next \/ nodes2[e].next \in {nil, d}
      /\ \A e \in Callbacks : nodes2[e].next = nodes[e].next \/ Held(nodes, hp, e, "value")
      /\ ListFrom(nodes2, hd2["value"]) \subseteq ListFrom(nodes, hd["value"]) \ {c}
      /\ ListFrom(nodes2, d) = ListFrom(nodes, d)
      /\ f.prev # nil => f.prev \in ListFrom(nodes2, hd2["value"]) /\ nodes2[f.prev].next = d
      /\ f.prev = nil => hd2["value"] = d
  BY DEF Unlinked
<1>5. hp2[c] = "freed" /\ \A e \in Callbacks \ {c} : hp2[e] = hp[e]
  BY DEF Types, Freed
<1>6. /\ Linked(nodes) /\ Linked(nodes2) /\ d \in Pointers
      /\ \A q \in Reasons : hd[q] \in Pointers /\ hd2[q] \in Pointers
  BY <1>4, TypesLinked DEF Linked
<1>7. Types(nodes2, hp2, hd2)
  BY <1>4 DEF Types, Freed
<1>8. g \in Frame
  BY <1>6 DEF Frame, Pointers, WithUnlink
<1>9. /\ ListFrom(nodes, d) \subseteq Callbacks /\ f.gone \subseteq Callbacks /\ f.due \subseteq Callbacks
      /\ f.prev \in Pointers
  BY <1>6, ListFollows DEF Frame
<1> HIDE DEF d
<1>10. ASSUME NEW e \in Callbacks, NEW q, Held(nodes, hp, e, q), e # c PROVE Held(nodes2, hp2, e, q)
  BY <1>4, <1>5, <1>10 DEF Held
<1>11. ListsInv(nodes2, hp2, hd2)
  <2>1. ASSUME NEW q \in Reasons, NEW e \in ListFrom(nodes2, hd2[q]) PROVE Held(nodes2, hp2, e, q)
    <3>1. CASE q = "value"
      <4>1. e \in ListFrom(nodes, hd["value"]) /\ e # c
        BY <1>4, <2>1, <3>1
      <4>2. Held(nodes, hp, e, "value") /\ e \in Callbacks
        BY <1>6, <3>1, <4>1, ListFollows DEF ListsInv
      <4> QED BY <1>10, <3>1, <4>1, <4>2
    <3>2. CASE q # "value"
      <4>1. \A x \in ListFrom(nodes, hd[q]) : Held(nodes, hp, x, q) /\ x \in Callbacks
        BY <1>6, ListFollows DEF ListsInv
      <4>2. \A x \in ListFrom(nodes, hd[q]) : nodes2[x].next = nodes[x].next
        BY <1>4, <3>2, <4>1 DEF Held
      <4>3. ListFrom(nodes2, hd[q]) = ListFrom(nodes, hd[q])
        BY <1>6, <4>2, ListKept
      <4>4. e \in ListFrom(nodes, hd[q])
        BY <1>4, <2>1, <3>2, <4>3
      <4>5. Held(nodes, hp, e, q) /\ e \in Callbacks /\ e # c
        BY <1>2, <3>2, <4>1, <4>4 DEF Held
      <4> QED BY <1>10, <4>5
    <3> QED BY <3>1, <3>2
  <2>2. ASSUME NEW e \in Callbacks, nodes2[e].next # nil PROVE hp2[nodes2[e].next] # "new"
    <3>1. nodes2[e].next \in Callbacks
      BY <1>6, <2>2 DEF Linked, Pointers
    <3>2. hp[nodes2[e].next] # "new"
      <4>1. \A x \in Callbacks : nodes[x].next # nil => hp[nodes[x].next] # "new"
        BY DEF ListsInv
      <4>2. nodes2[e].next = nodes[e].next \/ nodes2[e].next = nodes[c].next
        BY <1>4, <2>2 DEF d
      <4> QED BY <2>2, <4>1, <4>2
    <3> QED BY <1>5, <3>1, <3>2
  <2> QED BY <1>4, <2>1, <2>2 DEF ListsInv
<1>12. Rest(nodes2, hd2, g) = ListFrom(nodes, d)
  BY <1>1, <1>4 DEF Rest, Ahead
<1>13. WalkInv(nodes2, hp2, hd2, g)
  <2>1. \A x \in ListFrom(nodes, d) : Held(nodes, hp, x, "value") /\ x \in Callbacks /\ x # c
    BY <1>2, <1>3, <1>9 DEF WalkInv
  <2>2. \A x \in ListFrom(nodes, d) : Held(nodes2, hp2, x, "value")
    BY <1>10, <2>1
  <2>3. Last(g) = f.prev
    BY <1>1 DEF Last
  <2>4. f.prev # nil => f.prev \in Callbacks /\ Held(nodes, hp, f.prev, "value") /\ f.prev # c
    BY <1>3, <1>4, <1>9 DEF WalkInv, Pointers
  <2>5. f.prev # nil => Held(nodes2, hp2, f.prev, "value")
    BY <1>10, <2>4
  <2> QED BY <1>1, <1>4, <1>12, <2>2, <2>3, <2>5 DEF WalkInv
<1>14. CallsInv(nodes2, hp2, hd2, g)
  <2>1. CalledIn(g) = CalledIn(f)
    BY <1>1, CalledKept
  <2>2. CalledIn(f) \subseteq Callbacks
    BY DEF CalledIn, Frame
  <2>3. \A x \in CalledIn(f) : hp2[x] # "new"
    BY <1>3, <1>5, <2>2 DEF CallsInv
  <2>4. \A x \in f.due : nodes2[x].cb_rtn /\ x # c
    BY <1>3, <1>4, <1>9 DEF CallsInv
  <2> QED BY <1>1, <1>2, <1>3, <1>12, <2>1, <2>3, <2>4 DEF CallsInv
<1>15. GoneInv(nodes2, hp2, hd2, g)
  BY <1>1, <1>2, <1>3, <1>4, <1>5, <1>9, <1>12 DEF GoneInv
<1> QED
  BY <1>7, <1>8, <1>11, <1>13, <1>14, <1>15 DEF FrameInv

\* A walk as it begins, and the heads of the lists then.
NewWalk(nodes, hd, r) ==
    [list |-> r, executing |-> FALSE, cur |-> nil, next |-> hd[r], prev |-> nil, called |-> <<>>,
     due |-> {c \in ListFrom(nodes, hd[r]) : nodes[c].cb_rtn}, old |-> ListFrom(nodes, hd[r]),
     gone |-> {c \in ListFrom(nodes, hd[r]) : ~nodes[c].cb_rtn}]
HeadsTaken(hd, r) == IF r = "next" THEN [hd EXCEPT !["next"] = nil] ELSE hd

\* vpiStartOfSim, vpiNextSimTime and run_vpi_callbacks begin.
LEMMA WalkBegins ==
    ASSUME nil \notin Callbacks, NEW nodes, NEW hp, NEW hd, Types(nodes, hp, hd),
           ListsInv(nodes, hp, hd), NEW r \in Reasons,
           NEW hd2, hd2 = HeadsTaken(hd, r), NEW g, g = NewWalk(nodes, hd, r)
    PROVE  /\ Types(nodes, hp, hd2) /\ ListsInv(nodes, hp, hd2)
           /\ g \in Frame /\ FrameInv(nodes, hp, hd2, g)
<1> DEFINE l == ListFrom(nodes, hd[r])
<1>1. /\ g.list = r /\ g.executing = FALSE /\ g.cur = nil /\ g.next = hd[r] /\ g.prev = nil
      /\ g.called = <<>> /\ g.due = {c \in l : nodes[c].cb_rtn} /\ g.old = l
      /\ g.gone = {c \in l : ~nodes[c].cb_rtn}
  BY DEF NewWalk
<1>2. Linked(nodes) /\ hd[r] \in Pointers
  BY TypesLinked
<1>3. l \subseteq Callbacks /\ \A c \in l : Held(nodes, hp, c, r)
  BY <1>2, ListFollows DEF ListsInv
<1>4. g \in Frame
  BY <1>2, <1>3 DEF Frame, NewWalk, Pointers
<1>5. Types(nodes, hp, hd2)
  BY DEF Types, HeadsTaken, Pointers
<1>6. /\ \A q \in Reasons \ {"next"} : hd2[q] = hd[q]
      /\ r # "next" => hd2["next"] = hd["next"]
      /\ r = "next" => hd2["next"] = nil
  BY DEF Types, HeadsTaken, Reasons
<1>7. ListsInv(nodes, hp, hd2)
  <2>1. ASSUME NEW q \in Reasons, NEW c \in ListFrom(nodes, hd2[q]) PROVE Held(nodes, hp, c, q)
    <3>1. CASE hd2[q] = hd[q]
      BY <2>1, <3>1 DEF ListsInv
    <3>2. CASE hd2[q] = nil
      BY <2>1, <3>2, ListEmpty
    <3> QED BY <1>6, <3>1, <3>2
  <2> QED BY <2>1 DEF ListsInv
<1>8. Rest(nodes, hd2, g) = l
  BY <1>1, <1>6 DEF Rest, Ahead, Reasons
<1>9. WalkInv(nodes, hp, hd2, g)
  <2>1. r = "next" => ListFrom(nodes, hd2["next"]) = {}
    BY <1>6, ListEmpty
  <2>2. r = "value" => Last(g) = nil /\ hd2["value"] = g.next
    BY <1>1, <1>6 DEF Last, Reasons
  <2> QED BY <1>1, <1>3, <1>8, <2>1, <2>2 DEF WalkInv
<1>10. CalledIn(g) = {} /\ Cardinality(CalledIn(g)) = Len(g.called)
  <2>1. CalledIn(g) = {}
    BY <1>1 DEF CalledIn
  <2>2. Cardinality({}) = 0
    BY FS_EmptySet
  <2> QED BY <1>1, <2>1, <2>2
<1> HIDE DEF l
<1>11. CallsInv(nodes, hp, hd2, g)
  BY <1>1, <1>8, <1>10 DEF CallsInv
<1>12. GoneInv(nodes, hp, hd2, g)
  BY <1>1, <1>3, <1>8 DEF GoneInv, Held
<1> QED
  BY <1>4, <1>5, <1>7, <1>9, <1>11, <1>12 DEF FrameInv

-----------------------------------------------------------------------------
(* The walks in progress. *)

\* The innermost walk is another.
LEMMA TopChanged ==
    ASSUME NEW s \in Seq(Frame), s # <<>>, NEW g \in Frame,
           NEW s2, s2 = [s EXCEPT ![Len(s)] = g]
    PROVE  /\ s2 \in Seq(Frame) /\ Len(s2) = Len(s) /\ s2[Len(s)] = g /\ Len(s) \in DOMAIN s
           /\ DOMAIN s2 = DOMAIN s /\ \A i \in DOMAIN s \ {Len(s)} : s2[i] = s[i]
  OBVIOUS

\* The objects, the heap and the heads of a step that changes the innermost walk only.
TopStep(g) ==
    /\ stack # <<>> /\ stack' = [stack EXCEPT ![Len(stack)] = g] /\ g \in Frame
    /\ g.list = Top.list
    /\ Types(node', heap', head') /\ ListsInv(node', heap', head')
    /\ FrameInv(node', heap', head', g)
    /\ \A i \in DOMAIN stack \ {Len(stack)} : FrameInv(node', heap', head', stack[i])

\* Such a step keeps the invariant.
LEMMA TopStepKeeps ==
    ASSUME IInv, NEW g, TopStep(g)
    PROVE  IInv'
<1>1. stack \in Seq(Frame)
  BY DEF IInv, TypeOK
<1>2. stack' = [stack EXCEPT ![Len(stack)] = g] /\ stack # <<>> /\ g \in Frame
  BY DEF TopStep
<1>3. /\ stack' \in Seq(Frame) /\ Len(stack') = Len(stack) /\ stack'[Len(stack)] = g
      /\ Len(stack) \in DOMAIN stack
      /\ DOMAIN stack' = DOMAIN stack /\ \A i \in DOMAIN stack \ {Len(stack)} : stack'[i] = stack[i]
  BY <1>1, <1>2, TopChanged
<1>4. TypeOK'
  BY <1>3 DEF TypeOK, TopStep
<1>5. StackInv'
  BY <1>1, <1>3 DEF IInv, StackInv, TopStep, Top
<1>6. ListsInv(node, heap, head)'
  BY DEF TopStep
<1>7. \A i \in DOMAIN stack' : FrameInv(node', heap', head', stack'[i])
  BY <1>3 DEF TopStep
<1> QED
  BY <1>4, <1>5, <1>6, <1>7 DEF IInv

\* The invariant of the innermost walk.
LEMMA TopInv ==
    ASSUME IInv, stack # <<>>
    PROVE  /\ Top \in Frame /\ FrameInv(node, heap, head, Top) /\ Len(stack) \in DOMAIN stack
           /\ Types(node, heap, head) /\ ListsInv(node, heap, head) /\ stack \in Seq(Frame)
           /\ Following = Ahead(head, Top)
           /\ Top.list # "value" => DOMAIN stack = {Len(stack)}
           /\ \A i \in DOMAIN stack \ {Len(stack)} :
                 stack[i].list # "value" /\ stack[i] \in Frame /\ FrameInv(node, heap, head, stack[i])
<1>1. /\ Types(node, heap, head) /\ ListsInv(node, heap, head) /\ stack \in Seq(Frame)
      /\ \A i \in DOMAIN stack : FrameInv(node, heap, head, stack[i])
  BY DEF IInv, TypeOK
<1>2. Len(stack) \in DOMAIN stack /\ DOMAIN stack = 1 .. Len(stack) /\ Len(stack) \in Nat
  BY <1>1
<1>3. Len(stack) = 1 \/ (Len(stack) = 2 /\ stack[1].list # "value" /\ stack[2].list = "value")
  BY <1>2 DEF IInv, StackInv
<1>4. Top \in Frame /\ FrameInv(node, heap, head, Top)
  BY <1>1, <1>2 DEF Top
<1>5. Following = Ahead(head, Top)
  BY DEF Following, Ahead
<1>6. Top.list # "value" => DOMAIN stack = {Len(stack)}
  BY <1>2, <1>3 DEF Top
<1>7. ASSUME NEW i \in DOMAIN stack \ {Len(stack)}
      PROVE  stack[i].list # "value" /\ stack[i] \in Frame /\ FrameInv(node, heap, head, stack[i])
  BY <1>1, <1>2, <1>3
<1> QED
  BY <1>1, <1>2, <1>4, <1>5, <1>6, <1>7

-----------------------------------------------------------------------------
(* The steps.  A callback does not change the signal whose change called it. *)

NotNested == MaxDepth \in {0, 1}

\* Before anything is registered.
LEMMA InitKeeps ==
    ASSUME CallbackAssumption, CallbacksInit
    PROVE  IInv
<1>1. Types(node, heap, head) /\ stack = <<>>
  BY DEF CallbacksInit, Types, Pointers, Reasons
<1>2. \A c \in Callbacks : node[c].next = nil
  BY DEF CallbacksInit
<1>3. \A r \in Reasons : head[r] = nil
  BY DEF CallbacksInit
<1>4. ListFrom(node, nil) = {}
  BY ListEmpty
<1>5. ListsInv(node, heap, head)
  BY <1>2, <1>3, <1>4 DEF ListsInv, Acyclic
<1>6. TypeOK /\ StackInv
  BY <1>1 DEF TypeOK, StackInv
<1> QED
  BY <1>1, <1>5, <1>6 DEF IInv

\* vpi_register_cb, in user code: the walk of the signal's list, if any, is in a call.
LEMMA RegisterKeeps ==
    ASSUME CallbackAssumption, IInv, NEW c \in Callbacks, NEW r \in Reasons, vpi_register_cb(c, r)
    PROVE  IInv'
<1>1. Types(node, heap, head) /\ ListsInv(node, heap, head) /\ stack \in Seq(Frame)
  BY DEF IInv, TypeOK
<1>2. nil \notin Callbacks /\ heap[c] = "new" /\ stack' = stack
  BY DEF CallbackAssumption, vpi_register_cb
<1>3. /\ node' = NodesWith(node, head, c, r) /\ heap' = Allocated(heap, c)
      /\ head' = HeadsWith(head, c, r)
  BY DEF vpi_register_cb, NodesWith, Allocated, HeadsWith
<1>4. /\ Types(node', heap', head') /\ ListsInv(node', heap', head')
      /\ \A f \in Frame : FrameInv(node, heap, head, f) /\ (f.list = "value" => f.executing)
                            => FrameInv(node', heap', head', f)
  BY <1>1, <1>2, <1>3, Registered
<1>5. ASSUME NEW i \in DOMAIN stack PROVE FrameInv(node', heap', head', stack[i])
  <2>1. stack # <<>> /\ stack[i] \in Frame /\ FrameInv(node, heap, head, stack[i])
    BY <1>1, <1>5 DEF IInv
  <2>2. Top.executing
    BY <2>1 DEF vpi_register_cb, InUserCode
  <2>3. stack[i].list = "value" => stack[i].executing
    BY <2>1, <2>2, TopInv DEF Top
  <2> QED BY <1>4, <2>1, <2>3
<1>6. TypeOK' /\ StackInv'
  BY <1>1, <1>2, <1>4 DEF IInv, TypeOK, StackInv
<1> QED
  BY <1>2, <1>4, <1>5, <1>6 DEF IInv

\* vpi_remove_cb.
LEMMA RemoveKeeps ==
    ASSUME CallbackAssumption, IInv, NEW c \in Callbacks, vpi_remove_cb(c)
    PROVE  IInv'
<1>1. Types(node, heap, head) /\ ListsInv(node, heap, head) /\ stack \in Seq(Frame)
  BY DEF IInv, TypeOK
<1>2. /\ nil \notin Callbacks /\ heap[c] = "live" /\ heap' = heap /\ head' = head
      /\ node' = [node EXCEPT ![c].cb_rtn = FALSE]
      /\ stack' = [i \in DOMAIN stack |-> [stack[i] EXCEPT !.due = @ \ {c}]]
  BY DEF CallbackAssumption, vpi_remove_cb
<1>3. /\ Types(node', heap, head) /\ ListsInv(node', heap, head)
      /\ \A f \in Frame : FrameInv(node, heap, head, f)
                            => FrameInv(node', heap, head, [f EXCEPT !.due = @ \ {c}])
  BY <1>1, <1>2, Removed
<1>4. DOMAIN stack' = DOMAIN stack /\ DOMAIN stack = 1 .. Len(stack) /\ Len(stack) \in Nat
  BY <1>1, <1>2
<1>5. ASSUME NEW i \in DOMAIN stack
      PROVE  /\ stack'[i] \in Frame /\ FrameInv(node', heap', head', stack'[i])
             /\ stack'[i].list = stack[i].list /\ stack'[i].executing = stack[i].executing
  <2>1. stack[i] \in Frame /\ FrameInv(node, heap, head, stack[i])
    BY <1>1, <1>5 DEF IInv
  <2>2. stack'[i] = [stack[i] EXCEPT !.due = @ \ {c}]
    BY <1>2
  <2>3. FrameInv(node', heap', head', stack'[i])
    BY <1>2, <1>3, <2>1, <2>2
  <2>4. /\ stack'[i] \in Frame
        /\ stack'[i].list = stack[i].list /\ stack'[i].executing = stack[i].executing
    BY <2>1, <2>2 DEF Frame
  <2> QED BY <2>3, <2>4
<1>6. stack' \in Seq(Frame) /\ Len(stack') = Len(stack)
  BY <1>2, <1>4, <1>5
<1>7. TypeOK' /\ StackInv'
  <2>1. TypeOK'
    BY <1>2, <1>3, <1>6 DEF TypeOK
  <2>2. Len(stack) = 2 => 1 \in DOMAIN stack /\ 2 \in DOMAIN stack
    BY <1>4
  <2> QED BY <1>5, <1>6, <2>1, <2>2 DEF IInv, StackInv
<1> QED
  BY <1>2, <1>3, <1>4, <1>5, <1>7 DEF IInv

\* A walk begins when no other is in progress, or, of the signal's list, in a callback
\* of a one-time list.
LEMMA WalkKeeps ==
    ASSUME CallbackAssumption, IInv, NEW r \in Reasons, Walk(r), head' = HeadsTaken(head, r),
           stack # <<>> => Len(stack) = 1 /\ stack[1].list # "value" /\ stack[1].executing
                           /\ r = "value"
    PROVE  IInv'
<1> DEFINE g == NewWalk(node, head, r)
<1>1. Types(node, heap, head) /\ ListsInv(node, heap, head) /\ stack \in Seq(Frame)
  BY DEF IInv, TypeOK
<1>2. nil \notin Callbacks /\ node' = node /\ heap' = heap /\ stack' = Append(stack, g)
  BY DEF CallbackAssumption, Walk, NewWalk, OnList
<1> HIDE DEF g
<1>3. /\ Types(node', heap', head') /\ ListsInv(node', heap', head')
      /\ g \in Frame /\ FrameInv(node', heap', head', g)
  BY <1>1, <1>2, WalkBegins DEF g
<1>4. g.list = r
  BY DEF g, NewWalk
<1>5. stack = <<>> \/ head' = head
  BY DEF HeadsTaken
<1>6. /\ stack' \in Seq(Frame) /\ Len(stack') = Len(stack) + 1 /\ stack'[Len(stack) + 1] = g
      /\ DOMAIN stack' = 1 .. Len(stack) + 1 /\ DOMAIN stack = 1 .. Len(stack) /\ Len(stack) \in Nat
      /\ \A i \in DOMAIN stack : stack'[i] = stack[i]
  BY <1>1, <1>2, <1>3
<1>7. StackInv'
  BY <1>1, <1>4, <1>6 DEF StackInv
<1>8. ASSUME NEW i \in DOMAIN stack' PROVE FrameInv(node', heap', head', stack'[i])
  <2>1. CASE i = Len(stack) + 1
    BY <1>3, <1>6, <2>1
  <2>2. CASE i \in DOMAIN stack
    <3>1. stack # <<>> /\ FrameInv(node, heap, head, stack[i])
      BY <1>1, <2>2 DEF IInv
    <3> QED BY <1>2, <1>5, <1>6, <2>2, <3>1
  <2> QED BY <1>6, <2>1, <2>2
<1>9. TypeOK'
  BY <1>3, <1>6 DEF TypeOK
<1> QED
  BY <1>3, <1>7, <1>8, <1>9 DEF IInv

\* vpiStartOfSim and vpiNextSimTime.
LEMMA StartKeeps ==
    ASSUME CallbackAssumption, IInv, vpiStartOfSim \/ vpiNextSimTime
    PROVE  IInv'
<1>1. stack = <<>> /\ "start" \in Reasons /\ "next" \in Reasons
  BY DEF vpiStartOfSim, vpiNextSimTime, Reasons
<1>2. CASE vpiStartOfSim
  <2>1. Walk("start") /\ head' = HeadsTaken(head, "start")
    BY <1>2 DEF vpiStartOfSim, HeadsTaken
  <2> QED BY <1>1, <2>1, WalkKeeps
<1>3. CASE vpiNextSimTime
  <2>1. Walk("next") /\ head' = HeadsTaken(head, "next")
    BY <1>3 DEF vpiNextSimTime, HeadsTaken
  <2> QED BY <1>1, <2>1, WalkKeeps
<1> QED
  BY <1>2, <1>3

\* run_vpi_callbacks, which is not in a walk of the same list.
LEMMA ChangeKeeps ==
    ASSUME CallbackAssumption, NotNested, IInv, run_vpi_callbacks
    PROVE  IInv'
<1> DEFINE V == {i \in DOMAIN stack : stack[i].list = "value"}
<1>1. /\ stack \in Seq(Frame) /\ DOMAIN stack = 1 .. Len(stack) /\ Len(stack) \in Nat
      /\ Len(stack) <= 2 /\ (Len(stack) = 2 => stack[2].list = "value")
  BY DEF IInv, TypeOK, StackInv
<1>2. Walk("value") /\ head' = HeadsTaken(head, "value") /\ "value" \in Reasons
  BY DEF run_vpi_callbacks, HeadsTaken, Reasons
<1>3. V = {}
  <2>1. IsFiniteSet(V)
    <3>1. IsFiniteSet(1 .. Len(stack))
      BY <1>1, FS_Interval
    <3> QED BY <1>1, <3>1, FS_Subset
  <2>2. Cardinality(V) \in Nat /\ (Cardinality(V) = 0 => V = {})
    <3> HIDE DEF V
    <3> QED BY <2>1, FS_CardinalityType, FS_EmptySet
  <2>3. Cardinality(V) < MaxDepth
    BY DEF run_vpi_callbacks, Depth
  <2> QED BY <2>2, <2>3 DEF NotNested
<1>4. stack # <<>> => Len(stack) = 1 /\ stack[1].list # "value" /\ stack[1].executing
  <2> SUFFICES ASSUME stack # <<>>
               PROVE  Len(stack) = 1 /\ stack[1].list # "value" /\ stack[1].executing
    OBVIOUS
  <2>1. \A i \in 1 .. Len(stack) : stack[i].list # "value"
    BY <1>1, <1>3
  <2>2. Len(stack) = 1
    BY <1>1, <2>1
  <2>3. Top.executing
    BY DEF run_vpi_callbacks, InUserCode
  <2> QED BY <2>1, <2>2, <2>3 DEF Top
<1> QED
  BY <1>2, <1>4, WalkKeeps

\* A visit of a one-time list.
LEMMA VisitOnceKeeps ==
    ASSUME CallbackAssumption, IInv, VisitOnce
    PROVE  IInv'
<1> DEFINE c == Following
<1>1. /\ stack # <<>> /\ ~Top.executing /\ Top.list # "value" /\ c # nil
      /\ head' = Left(node, head, Top, c) /\ node' = node
      /\ \/ node[c].cb_rtn /\ stack' = SetTop(WithCall(node, Top, c)) /\ heap' = heap
         \/ /\ ~node[c].cb_rtn /\ stack' = SetTop(WithNext(node, Top, c))
            /\ heap' = Freed(heap, c)
  BY DEF VisitOnce, Left, callback_execute, Free, Freed, WithCall, WithNext
<1>2. /\ Top \in Frame /\ FrameInv(node, heap, head, Top)
      /\ Types(node, heap, head) /\ ListsInv(node, heap, head)
      /\ c = Ahead(head, Top) /\ DOMAIN stack = {Len(stack)}
  BY <1>1, TopInv
<1>3. nil \notin Callbacks /\ c \in Callbacks
  <2>1. nil \notin Callbacks /\ \A q \in Reasons : head[q] \in Pointers
    BY <1>2, TypesLinked DEF CallbackAssumption
  <2>2. Ahead(head, Top) \in Pointers
    BY <1>2, <2>1 DEF Ahead, Frame, Reasons
  <2> QED BY <1>1, <1>2, <2>1, <2>2 DEF Pointers
<1> HIDE DEF c
<1>4. CASE node[c].cb_rtn /\ stack' = SetTop(WithCall(node, Top, c)) /\ heap' = heap
  <2>1. c \notin Top.gone
    BY <1>2, <1>4 DEF FrameInv, GoneInv
  <2>2. /\ Types(node, heap, head') /\ ListsInv(node, heap, head')
        /\ WithCall(node, Top, c) \in Frame /\ FrameInv(node, heap, head', WithCall(node, Top, c))
    BY <1>1, <1>2, <1>3, <2>1, OnceCalled
  <2>3. WithCall(node, Top, c).list = Top.list
    BY <1>2 DEF Frame, WithCall
  <2>4. TopStep(WithCall(node, Top, c))
    BY <1>1, <1>2, <1>4, <2>2, <2>3 DEF TopStep, SetTop
  <2> QED BY <2>4, TopStepKeeps
<1>5. CASE /\ ~node[c].cb_rtn /\ stack' = SetTop(WithNext(node, Top, c))
           /\ heap' = Freed(heap, c)
  <2>0. c \notin Top.due /\ heap' = Freed(heap, c)
    BY <1>2, <1>5 DEF FrameInv, CallsInv
  <2>1. /\ Types(node, heap', head') /\ ListsInv(node, heap', head')
        /\ WithNext(node, Top, c) \in Frame /\ FrameInv(node, heap', head', WithNext(node, Top, c))
    BY <1>1, <1>2, <1>3, <2>0, OnceSkipped
  <2>2. WithNext(node, Top, c).list = Top.list
    BY <1>2 DEF Frame, WithNext
  <2>3. TopStep(WithNext(node, Top, c))
    BY <1>1, <1>2, <1>5, <2>1, <2>2 DEF TopStep, SetTop
  <2> QED BY <2>3, TopStepKeeps
<1> QED
  BY <1>1, <1>4, <1>5

\* A visit of the signal's list: call, pass over, or unlink and free.
LEMMA VisitValueKeeps ==
    ASSUME CallbackAssumption, IInv, VisitValue
    PROVE  IInv'
<1> DEFINE c == Following
<1>1. /\ stack # <<>> /\ ~Top.executing /\ Top.list = "value" /\ c # nil
      /\ \/ /\ node[c].cb_rtn /\ stack' = SetTop(WithCall(node, Top, c))
            /\ node' = node /\ heap' = heap /\ head' = head
         \/ /\ node[c].cb_rtn /\ c \in Parts /\ stack' = SetTop(WithPass(node, Top, c))
            /\ node' = node /\ heap' = heap /\ head' = head
         \/ /\ ~node[c].cb_rtn /\ stack' = SetTop(WithUnlink(node, Top, c))
            /\ node' = NodesRound(node, Top.prev, c) /\ head' = HeadsRound(node, head, Top.prev, c)
            /\ heap' = Freed(heap, c)
  BY DEF VisitValue, callback_execute, Free, Freed, PassOver, Unlink, WithCall, WithPass, WithUnlink, NodesRound, HeadsRound
<1>2. /\ Top \in Frame /\ FrameInv(node, heap, head, Top)
      /\ Types(node, heap, head) /\ ListsInv(node, heap, head)
      /\ c = Ahead(head, Top)
      /\ \A i \in DOMAIN stack \ {Len(stack)} :
            stack[i].list # "value" /\ stack[i] \in Frame /\ FrameInv(node, heap, head, stack[i])
  BY <1>1, TopInv
<1>3. nil \notin Callbacks /\ c \in Callbacks /\ c = Top.next
  <2>1. c = Top.next
    BY <1>1, <1>2 DEF Ahead
  <2>2. Top.next \in Pointers
    BY <1>2 DEF Frame
  <2> QED BY <1>1, <2>1, <2>2 DEF Pointers, CallbackAssumption
<1> HIDE DEF c
<1>4. CASE /\ node[c].cb_rtn /\ stack' = SetTop(WithCall(node, Top, c))
           /\ node' = node /\ heap' = heap /\ head' = head
  <2>1. c \notin Top.gone
    BY <1>2, <1>4 DEF FrameInv, GoneInv
  <2>2. WithCall(node, Top, c) \in Frame /\ FrameInv(node, heap, head, WithCall(node, Top, c))
    BY <1>1, <1>2, <1>3, <2>1, ValueCalled
  <2>3. WithCall(node, Top, c).list = Top.list
    BY <1>2 DEF Frame, WithCall
  <2>4. TopStep(WithCall(node, Top, c))
    BY <1>1, <1>2, <1>4, <2>2, <2>3 DEF TopStep, SetTop
  <2> QED BY <2>4, TopStepKeeps
<1>5. CASE /\ node[c].cb_rtn /\ c \in Parts /\ stack' = SetTop(WithPass(node, Top, c))
           /\ node' = node /\ heap' = heap /\ head' = head
  <2>1. c \notin Top.gone
    BY <1>2, <1>5 DEF FrameInv, GoneInv
  <2>2. WithPass(node, Top, c) \in Frame /\ FrameInv(node, heap, head, WithPass(node, Top, c))
    BY <1>1, <1>2, <1>3, <1>5, <2>1, ValuePassed
  <2>3. WithPass(node, Top, c).list = Top.list
    BY <1>2 DEF Frame, WithPass
  <2>4. TopStep(WithPass(node, Top, c))
    BY <1>1, <1>2, <1>5, <2>2, <2>3 DEF TopStep, SetTop
  <2> QED BY <2>4, TopStepKeeps
<1>6. CASE /\ ~node[c].cb_rtn /\ stack' = SetTop(WithUnlink(node, Top, c))
           /\ node' = NodesRound(node, Top.prev, c) /\ head' = HeadsRound(node, head, Top.prev, c)
           /\ heap' = Freed(heap, c)
  <2>1. Unlinked(node, heap, head, node', head', Top, c)
    <3>1. CASE Top.prev = nil
      BY <1>1, <1>2, <1>3, <1>6, <3>1, UnlinksFirst
    <3>2. CASE Top.prev # nil
      BY <1>1, <1>2, <1>3, <1>6, <3>2, UnlinksLater
    <3> QED BY <3>1, <3>2
  <2>2. /\ Types(node', heap', head') /\ ListsInv(node', heap', head')
        /\ WithUnlink(node, Top, c) \in Frame
        /\ FrameInv(node', heap', head', WithUnlink(node, Top, c))
    BY <1>1, <1>2, <1>3, <1>6, <2>1, ValueUnlinked
  <2>3. WithUnlink(node, Top, c).list = Top.list
    BY <1>2 DEF Frame, WithUnlink
  <2>4. Held(node, heap, c, "value")
    BY <1>1, <1>2, <1>3, ValueNext
  <2>5. ASSUME NEW i \in DOMAIN stack \ {Len(stack)} PROVE FrameInv(node', heap', head', stack[i])
    <3>1. stack[i].list # "value" /\ stack[i] \in Frame /\ FrameInv(node, heap, head, stack[i])
      BY <1>2
    <3> QED BY <1>2, <1>3, <1>6, <2>1, <2>4, <3>1, OnceUndisturbed
  <2>6. TopStep(WithUnlink(node, Top, c))
    BY <1>1, <1>6, <2>2, <2>3, <2>5 DEF TopStep, SetTop
  <2> QED BY <2>6, TopStepKeeps
<1> QED
  BY <1>1, <1>4, <1>5, <1>6

\* The user's function returns.
LEMMA ReturnKeeps ==
    ASSUME CallbackAssumption, IInv, CallbackReturns
    PROVE  IInv'
<1>1. /\ stack # <<>> /\ Top.executing /\ node' = node /\ head' = head
      /\ stack' = SetTop(WithReturn(Top))
      /\ heap' = IF Top.list = "value" THEN heap ELSE Freed(heap, Top.cur)
  BY DEF CallbackReturns, Free, Freed, WithReturn
<1>2. /\ Top \in Frame /\ FrameInv(node, heap, head, Top)
      /\ Types(node, heap, head) /\ ListsInv(node, heap, head)
      /\ Top.list # "value" => DOMAIN stack = {Len(stack)}
      /\ \A i \in DOMAIN stack \ {Len(stack)} : FrameInv(node, heap, head, stack[i])
  BY <1>1, TopInv
<1>3. nil \notin Callbacks
  BY DEF CallbackAssumption
<1>4. WithReturn(Top).list = Top.list
  BY <1>2 DEF Frame, WithReturn
<1>5. CASE Top.list = "value"
  <2>1. WithReturn(Top) \in Frame /\ FrameInv(node, heap, head, WithReturn(Top))
    BY <1>1, <1>2, <1>3, <1>5, ValueReturned
  <2>2. TopStep(WithReturn(Top))
    BY <1>1, <1>2, <1>4, <1>5, <2>1 DEF TopStep, SetTop
  <2> QED BY <2>2, TopStepKeeps
<1>6. CASE Top.list # "value"
  <2>1. heap' = Freed(heap, Top.cur)
    BY <1>1, <1>6
  <2>2. /\ Types(node, heap', head) /\ ListsInv(node, heap', head)
        /\ WithReturn(Top) \in Frame /\ FrameInv(node, heap', head, WithReturn(Top))
    BY <1>1, <1>2, <1>3, <1>6, <2>1, OnceReturned
  <2>3. TopStep(WithReturn(Top))
    BY <1>1, <1>2, <1>4, <1>6, <2>2 DEF TopStep, SetTop
  <2> QED BY <2>3, TopStepKeeps
<1> QED
  BY <1>5, <1>6

\* Without its last element.
LEMMA Shorter ==
    ASSUME NEW s \in Seq(Frame), s # <<>>, NEW t, t = SubSeq(s, 1, Len(s) - 1)
    PROVE  /\ t \in Seq(Frame) /\ Len(t) = Len(s) - 1 /\ Len(s) \in Nat
           /\ \A i \in DOMAIN t : i \in DOMAIN s /\ t[i] = s[i]
<1>1. Len(s) \in Nat /\ Len(s) >= 1 /\ DOMAIN s = 1 .. Len(s) /\ \A i \in 1 .. Len(s) : s[i] \in Frame
  OBVIOUS
<1>2. t = [i \in 1 .. (Len(s) - 1) |-> s[i]]
  BY <1>1
<1>3. Len(s) - 1 \in Nat /\ \A i \in 1 .. (Len(s) - 1) : i \in 1 .. Len(s)
  BY <1>1
<1>4. t \in Seq(Frame) /\ Len(t) = Len(s) - 1
  BY <1>1, <1>2, <1>3
<1> QED
  BY <1>1, <1>2, <1>3, <1>4

\* A walk ends.
LEMMA EndKeeps ==
    ASSUME IInv, EndOfWalk
    PROVE  IInv'
<1>1. /\ stack # <<>> /\ stack' = SubSeq(stack, 1, Len(stack) - 1)
      /\ node' = node /\ heap' = heap /\ head' = head
  BY DEF EndOfWalk
<1>2. /\ stack \in Seq(Frame) /\ Types(node, heap, head) /\ ListsInv(node, heap, head)
      /\ \A i \in DOMAIN stack : FrameInv(node, heap, head, stack[i])
  BY DEF IInv, TypeOK
<1>3. /\ stack' \in Seq(Frame) /\ Len(stack') = Len(stack) - 1 /\ Len(stack) \in Nat
      /\ \A i \in DOMAIN stack' : i \in DOMAIN stack /\ stack'[i] = stack[i]
  BY <1>1, <1>2, Shorter
<1>4. TypeOK'
  BY <1>1, <1>2, <1>3 DEF TypeOK
<1>5. StackInv'
  <2>1. Len(stack) <= 2
    BY DEF IInv, StackInv
  <2> QED BY <1>3, <2>1 DEF StackInv
<1> QED
  BY <1>1, <1>2, <1>3, <1>4, <1>5 DEF IInv

\* Every step keeps the invariant.
LEMMA StepKeeps ==
    ASSUME CallbackAssumption, NotNested, IInv, [CallbacksNext]_callbackVars
    PROVE  IInv'
<1>1. CASE UNCHANGED callbackVars
  BY <1>1 DEF callbackVars, IInv, TypeOK, StackInv
<1>2. CASE CallbacksNext
  BY <1>2, RegisterKeeps, RemoveKeeps, StartKeeps, ChangeKeeps, VisitOnceKeeps, VisitValueKeeps,
     ReturnKeeps, EndKeeps DEF CallbacksNext
<1> QED
  BY <1>1, <1>2

\* No list and no walk in progress leads to a freed callback.
LEMMA ListsInvImplies ==
    ASSUME CallbackAssumption, IInv
    PROVE  ListsIntact
<1>1. /\ stack \in Seq(Frame) /\ Types(node, heap, head) /\ ListsInv(node, heap, head)
      /\ \A i \in DOMAIN stack : stack[i] \in Frame /\ FrameInv(node, heap, head, stack[i])
  BY DEF IInv, TypeOK
<1>2. ASSUME NEW i \in DOMAIN stack, stack[i].list # "start", stack[i].next # nil
      PROVE  heap[stack[i].next] = "live"
  <2>1. stack[i].next \in Pointers /\ Linked(node)
    BY <1>1, TypesLinked DEF Frame
  <2>2. stack[i].next \in Rest(node, head, stack[i])
    BY <1>2, <2>1, ListFollows DEF Rest, Ahead
  <2> QED BY <1>1, <2>2 DEF FrameInv, WalkInv, Held
<1>3. ASSUME NEW i \in DOMAIN stack, stack[i].list = "value", stack[i].prev # nil
      PROVE  heap[stack[i].prev] = "live"
  BY <1>1, <1>3 DEF FrameInv, WalkInv, Held
<1>4. NoDanglingPointer
  <2>1. \A r \in Reasons : \A c \in OnList(head[r]) : heap[c] = "live"
    BY <1>1 DEF ListsInv, Held, OnList
  <2> QED BY <1>2, <1>3, <2>1 DEF NoDanglingPointer
<1>5. PrevPrecedesCur
  <2> SUFFICES ASSUME stack # <<>>, ~Top.executing, Top.list = "value", Top.prev # nil
               PROVE  node[Top.prev].next = Top.next
    BY DEF PrevPrecedesCur
  <2>1. FrameInv(node, heap, head, Top) /\ Last(Top) = Top.prev
    BY TopInv DEF Last
  <2> QED BY <2>1 DEF FrameInv, WalkInv
<1> QED
  BY <1>4, <1>5 DEF ListsIntact

\* Nothing is ahead of a walk that is over.
LEMMA NothingAhead ==
    ASSUME IInv, WalkOver
    PROVE  Rest(node, head, Top) = {} /\ FrameInv(node, heap, head, Top) /\ Top \in Frame
<1>1. stack # <<>> /\ Following = nil
  BY DEF WalkOver
<1>2. Following = Ahead(head, Top) /\ FrameInv(node, heap, head, Top) /\ Top \in Frame
  BY <1>1, TopInv
<1>3. ListFrom(node, nil) = {}
  BY ListEmpty
<1> QED
  BY <1>1, <1>2, <1>3 DEF Rest

\* What a walk that is over has called is what was due.
LEMMA CallsInvImplies ==
    ASSUME IInv
    PROVE  CalledOnce
<1>1. \A i \in DOMAIN stack : CallsInv(node, heap, head, stack[i])
  BY DEF IInv, FrameInv
<1>2. WalkOver => Top.due \ Parts \subseteq CalledIn(Top)
  BY NothingAhead DEF FrameInv, CallsInv
<1>3. DueAreCalled
  BY <1>1, <1>2 DEF DueAreCalled, CallsInv
<1>4. NewOnesWait
  BY <1>1 DEF NewOnesWait, CallsInv
<1> QED
  BY <1>3, <1>4 DEF CalledOnce

\* What was removed before a walk that is over is freed and off the list.
LEMMA GoneInvImplies ==
    ASSUME IInv
    PROVE  RemovedIsReaped
  BY NothingAhead DEF FrameInv, GoneInv, RemovedIsReaped, OnList

\* The invariant of the lists and of the walks in progress (run_vpi_callbacks,
\* vpiNextSimTime, vpiStartOfSim, vpi_register_cb, vpi_remove_cb).
THEOREM CallbackInvariant ==
    ASSUME CallbackAssumption, NotNested
    PROVE  CallbacksSpec => []IInv
<1>1. CallbacksInit => IInv
  BY InitKeeps
<1>2. IInv /\ [CallbacksNext]_callbackVars => IInv'
  BY StepKeeps
<1> QED
  BY <1>1, <1>2, PTL DEF CallbacksSpec

\* run_vpi_callbacks, vpi_remove_cb: no pointer that will be followed leads to a freed
\* callback, and where a removed callback is unlinked prev->next == cur holds, whatever
\* callbacks register and remove meanwhile.
THEOREM CallbackListsIntact ==
    ASSUME CallbackAssumption, NotNested
    PROVE  CallbacksSpec => []ListsIntact
<1>1. IInv => ListsIntact
  BY ListsInvImplies
<1> QED
  BY <1>1, CallbackInvariant, PTL

\* run_vpi_callbacks, vpiNextSimTime: each callback that is due is called, once, and
\* none that was registered during the walk.
THEOREM CallbacksCalledOnce ==
    ASSUME CallbackAssumption, NotNested
    PROVE  CallbacksSpec => []CalledOnce
<1>1. IInv => CalledOnce
  BY CallsInvImplies
<1> QED
  BY <1>1, CallbackInvariant, PTL

\* run_vpi_callbacks: a callback that was removed before a walk began is freed and off
\* the list when the walk is over.
THEOREM RemovedCallbacksAreReaped ==
    ASSUME CallbackAssumption, NotNested
    PROVE  CallbacksSpec => []RemovedIsReaped
<1>1. IInv => RemovedIsReaped
  BY GoneInvImplies
<1> QED
  BY <1>1, CallbackInvariant, PTL
=============================================================================
