------------------------ MODULE ReclaimingStacksProofs ------------------------
(***************************************************************************)
(* The properties of ReclaimingStacks, for every value of the constants.   *)
(*                                                                         *)
(* Each program keeps an invariant of its own while it takes steps.        *)
(*                                                                         *)
(* - 7.4: threads_in_pop counts the pops under way (PendingStart).  So a   *)
(*   pop that finds itself alone there knows that no other looks at the    *)
(*   node it has taken out, and one that finds itself alone again after    *)
(*   its exchange of to_be_deleted knows the same of the nodes it has got: *)
(*   these are Licensed to it, and no pop looks at what another has a      *)
(*   license for (PendingLooks).                                           *)
(* - 7.6: only the first slot is ever taken, which leaves one thread in    *)
(*   the loops of pop (HazardSlots); so the node it has announced stays in *)
(*   the list until it takes the node itself.                              *)
(* - 7.10, with one pop at a time: the nodes that the pop looks at stay in *)
(*   the list (CountPop), where no internal count rises above zero.        *)
(***************************************************************************)
EXTENDS ReclaimingStacks, TLAPS, SequenceTheorems, FiniteSetTheorems

(* The lemmas on linked lists are those about the stack of 7.3. *)
Facts == INSTANCE LockFreeStackProofs

LEMMA Constants ==
  /\ Facts!ConstantsAssumption
  /\ MaxPush \in Nat /\ MaxPop \in Nat /\ Wrap \in Nat \ {0}
  /\ Null \notin Node /\ Wild \notin Node \cup {Null}
  /\ max_hazard_pointers \in Nat \ {0} /\ NoThread \notin Thread
BY ConstantsAssumption
DEF Facts!ConstantsAssumption, Pending!ConstantsAssumption, Hazards!ConstantsAssumption

LEMMA Ranges ==
  \A o : Facts!Range(o) = Range(o) /\ Pending!Range(o) = Range(o) /\ Hazards!Range(o) = Range(o)
BY DEF Facts!Range, Pending!Range, Hazards!Range, Range

-----------------------------------------------------------------------------
(* Linked lists *)

Linked(h, nx, o, e) == Facts!Linked(h, nx, o, e)

LEMMA RangeMembers ==
  ASSUME NEW N, NEW o \in Seq(N)
  PROVE  /\ Range(o) \subseteq N
         /\ \A i \in 1 .. Len(o) : o[i] \in Range(o)
         /\ \A n \in Range(o) : \E i \in 1 .. Len(o) : o[i] = n
         /\ o # <<>> => Len(o) \in 1 .. Len(o) /\ o[1] \in Range(o) /\ o[Len(o)] \in Range(o)
         /\ o = <<>> <=> Range(o) = {}
<1>1. Len(o) \in Nat /\ DOMAIN o = 1 .. Len(o) /\ (o = <<>> <=> Len(o) = 0)
      /\ \A i \in 1 .. Len(o) : o[i] \in N
  OBVIOUS
<1>2. o # <<>> => 1 \in 1 .. Len(o) /\ Len(o) \in 1 .. Len(o)
  BY <1>1
<1>3. /\ Range(o) \subseteq N
      /\ \A i \in 1 .. Len(o) : o[i] \in Range(o)
      /\ \A n \in Range(o) : \E i \in 1 .. Len(o) : o[i] = n
  BY <1>1 DEF Range
<1>4. o # <<>> => o[1] \in Range(o) /\ o[Len(o)] \in Range(o)
  BY <1>2, <1>3
<1>5. o = <<>> => Range(o) = {}
  BY <1>1, <1>3
<1> QED
  BY <1>2, <1>3, <1>4, <1>5

(* The next of nodes outside the list may change. *)
LEMMA LinkedSame ==
  ASSUME NEW N, NEW o \in Seq(N), NEW h, NEW nx, NEW mx, NEW e, Linked(h, nx, o, e),
         \A n \in Range(o) : mx[n] = nx[n]
  PROVE  Linked(h, mx, o, e)
BY RangeMembers DEF Linked, Facts!Linked

(* The list ends after the node that leads to its end. *)
LEMMA LinkedNext ==
  ASSUME NEW N, NEW o \in Seq(N), NEW h, NEW nx, NEW e, e \notin N, Linked(h, nx, o, e),
         NEW n \in Range(o)
  PROVE  /\ nx[n] = e => n = o[Len(o)]
         /\ nx[n] # e => nx[n] \in Range(o)
<1>1. PICK i \in 1 .. Len(o) : o[i] = n
  BY RangeMembers
<1>2. nx[n] = IF i = Len(o) THEN e ELSE o[i + 1]
  BY <1>1 DEF Linked, Facts!Linked
<1>3. i # Len(o) => i + 1 \in 1 .. Len(o)
  OBVIOUS
<1> QED
  BY <1>1, <1>2, <1>3, RangeMembers

(* The last node is given another next. *)
LEMMA LinkedLast ==
  ASSUME NEW N, NEW o \in Seq(N), NEW P, NEW nx \in [N -> P], NEW h, NEW e, NEW p,
         Linked(h, nx, o, e), o # <<>>
  PROVE  Linked(h, [nx EXCEPT ![o[Len(o)]] = p], o, p)
<1> DEFINE mx == [nx EXCEPT ![o[Len(o)]] = p]
<1>1. /\ Len(o) \in 1 .. Len(o) /\ \A i \in 1 .. Len(o) : o[i] \in N
      /\ \A i \in 1 .. Len(o) : i # Len(o) => o[i] # o[Len(o)]
  BY RangeMembers DEF Linked, Facts!Linked, Facts!NoTwice
<1>2. \A i \in 1 .. Len(o) : mx[o[i]] = IF i = Len(o) THEN p ELSE nx[o[i]]
  BY <1>1
<1> HIDE DEF mx
<1>3. Linked(h, mx, o, p)
  BY <1>1, <1>2 DEF Linked, Facts!Linked
<1> QED
  BY <1>3 DEF mx

(* One list continues in another. *)
LEMMA LinkedConcat ==
  ASSUME NEW N, NEW o \in Seq(N), NEW p \in Seq(N), NEW h, NEW nx, NEW q, NEW e,
         Linked(h, nx, o, q), Linked(q, nx, p, e), o # <<>>, Range(o) \cap Range(p) = {}
  PROVE  /\ o \o p \in Seq(N) /\ Linked(h, nx, o \o p, e)
         /\ Range(o \o p) = Range(o) \cup Range(p)
<1> DEFINE l == o \o p
<1>1. /\ l \in Seq(N) /\ Len(o) \in Nat /\ Len(p) \in Nat /\ Len(l) = Len(o) + Len(p)
      /\ \A i \in 1 .. Len(o) : l[i] = o[i]
      /\ \A i \in 1 .. Len(p) : l[i + Len(o)] = p[i]
      /\ Len(o) # 0 /\ (p = <<>> <=> Len(p) = 0)
  BY ConcatProperties
<1> HIDE DEF l
<1>2. \A i \in 1 .. Len(l) :
        \/ i \in 1 .. Len(o) /\ l[i] = o[i]
        \/ i - Len(o) \in 1 .. Len(p) /\ l[i] = p[i - Len(o)] /\ i \notin 1 .. Len(o)
  <2> SUFFICES ASSUME NEW i \in 1 .. Len(l), i \notin 1 .. Len(o)
               PROVE  i - Len(o) \in 1 .. Len(p) /\ l[i] = p[i - Len(o)]
    BY <1>1
  <2>1. i - Len(o) \in 1 .. Len(p) /\ (i - Len(o)) + Len(o) = i
    BY <1>1
  <2> QED
    BY <1>1, <2>1
<1>3. \A i \in 1 .. Len(l) : nx[l[i]] = IF i = Len(l) THEN e ELSE l[i + 1]
  <2> SUFFICES ASSUME NEW i \in 1 .. Len(l)
               PROVE  nx[l[i]] = IF i = Len(l) THEN e ELSE l[i + 1]
    OBVIOUS
  <2>1. CASE i \in 1 .. Len(o) /\ i # Len(o)
    <3>1. i + 1 \in 1 .. Len(o) /\ i # Len(l)
      BY <1>1, <2>1
    <3>2. nx[o[i]] = o[i + 1]
      BY <2>1 DEF Linked, Facts!Linked
    <3> QED
      BY <1>1, <2>1, <3>1, <3>2
  <2>2. CASE i = Len(o)
    <3>1. nx[l[i]] = q
      BY <1>1, <2>2 DEF Linked, Facts!Linked
    <3>2. CASE Len(p) = 0
      <4>1. i = Len(l) /\ q = e
        BY <1>1, <2>2, <3>2 DEF Linked, Facts!Linked
      <4> QED
        BY <3>1, <4>1
    <3>3. CASE Len(p) # 0
      <4>1. i # Len(l) /\ 1 \in 1 .. Len(p) /\ 1 + Len(o) = i + 1
        BY <1>1, <2>2, <3>3
      <4>2. l[i + 1] = p[1] /\ q = p[1]
        BY <1>1, <3>3, <4>1 DEF Linked, Facts!Linked
      <4> QED
        BY <3>1, <4>1, <4>2
    <3> QED
      BY <3>2, <3>3
  <2>3. CASE i \notin 1 .. Len(o)
    <3>1. i - Len(o) \in 1 .. Len(p) /\ l[i] = p[i - Len(o)]
      BY <1>2, <2>3
    <3>2. nx[l[i]] = IF i - Len(o) = Len(p) THEN e ELSE p[i - Len(o) + 1]
      BY <3>1 DEF Linked, Facts!Linked
    <3>3. i - Len(o) = Len(p) <=> i = Len(l)
      BY <1>1
    <3>4. i # Len(l) => i - Len(o) + 1 \in 1 .. Len(p) /\ i - Len(o) + 1 + Len(o) = i + 1
      <4>1. /\ Len(o) \in Nat /\ Len(p) \in Nat /\ Len(l) = Len(o) + Len(p)
            /\ i \in 1 .. Len(l)
        BY <1>1
      <4>2. \A a, b \in Nat : \A k \in 1 .. a + b :
              k - a \in 1 .. b /\ k # a + b => k - a + 1 \in 1 .. b /\ k - a + 1 + a = k + 1
        OBVIOUS
      <4> QED
        BY ONLY <3>1, <4>1, <4>2
    <3>5. i # Len(l) => l[i + 1] = p[i - Len(o) + 1]
      <4> DEFINE k == i - Len(o) + 1
      <4>1. i # Len(l) => k \in 1 .. Len(p) /\ l[k + Len(o)] = p[k] /\ k + Len(o) = i + 1
        BY <1>1, <3>4
      <4> QED
        BY <4>1
    <3> QED
      BY <3>1, <3>2, <3>3, <3>5
  <2> QED
    BY <2>1, <2>2, <2>3
<1>4. \A i, j \in 1 .. Len(l) : l[i] = l[j] => i = j
  <2> SUFFICES ASSUME NEW i \in 1 .. Len(l), NEW j \in 1 .. Len(l), l[i] = l[j]
               PROVE  i = j
    OBVIOUS
  <2>1. CASE i \in 1 .. Len(o) /\ j \in 1 .. Len(o)
    BY <1>1, <2>1 DEF Linked, Facts!Linked, Facts!NoTwice
  <2>2. CASE i \notin 1 .. Len(o) /\ j \notin 1 .. Len(o)
    <3>1. /\ i - Len(o) \in 1 .. Len(p) /\ j - Len(o) \in 1 .. Len(p)
          /\ p[i - Len(o)] = p[j - Len(o)]
      BY <1>2, <2>2
    <3>2. i - Len(o) = j - Len(o)
      BY <3>1 DEF Linked, Facts!Linked, Facts!NoTwice
    <3> QED
      BY <1>1, <3>2
  <2>3. CASE ~(i \in 1 .. Len(o) <=> j \in 1 .. Len(o))
    <3>1. \/ l[i] \in Range(o) /\ l[j] \in Range(p)
          \/ l[i] \in Range(p) /\ l[j] \in Range(o)
      BY <1>2, <2>3, RangeMembers
    <3> QED
      BY <3>1
  <2> QED
    BY <2>1, <2>2, <2>3
<1>5. l # <<>> /\ l[1] = o[1]
  <2>1. Len(l) # 0 /\ 1 \in 1 .. Len(o)
    BY <1>1
  <2> QED
    BY <1>1, <2>1
<1>6. Linked(h, nx, l, e)
  BY <1>3, <1>4, <1>5 DEF Linked, Facts!Linked, Facts!NoTwice
<1>7. Range(l) = Range(o) \cup Range(p)
  <2>1. Range(l) \subseteq Range(o) \cup Range(p)
    <3>1. \A i \in 1 .. Len(l) : l[i] \in Range(o) \cup Range(p)
      <4> TAKE i \in 1 .. Len(l)
      <4>1. CASE i \in 1 .. Len(o) /\ l[i] = o[i]
        BY <4>1, RangeMembers
      <4>2. CASE i - Len(o) \in 1 .. Len(p) /\ l[i] = p[i - Len(o)]
        BY <4>2, RangeMembers
      <4> QED
        BY <1>2, <4>1, <4>2
    <3>2. \A n \in Range(l) : \E i \in 1 .. Len(l) : l[i] = n
      BY <1>1, RangeMembers
    <3> QED
      BY <3>1, <3>2
  <2>2. \A i \in 1 .. Len(o) : i \in 1 .. Len(l)
    BY <1>1
  <2>3. \A i \in 1 .. Len(p) : i + Len(o) \in 1 .. Len(l)
    BY <1>1
  <2>4. Range(o) \subseteq Range(l)
    <3>1. \A i \in 1 .. Len(o) : o[i] \in Range(l)
      BY <1>1, <2>2, RangeMembers
    <3> QED
      BY <3>1, RangeMembers
  <2>5. Range(p) \subseteq Range(l)
    <3>1. \A i \in 1 .. Len(p) : p[i] \in Range(l)
      BY <1>1, <2>3, RangeMembers
    <3> QED
      BY <3>1, RangeMembers
  <2> QED
    BY <2>1, <2>4, <2>5
<1> QED
  BY <1>1, <1>6, <1>7 DEF l

-----------------------------------------------------------------------------
(* The stack of 7.4 *)

PendingChain == {"deciding", "deleting", "walking"}
PendingJoin == {"chaining", "attaching"}

PendingOwning ==
  {"linking", "publishing", "returning", "checking", "claiming", "disposing"}
    \cup PendingChain \cup PendingJoin

(* The pops that threads_in_pop counts. *)
Counted ==
  {t \in Thread :
     \/ pc[t] \in {"loading", "reading", "popping", "returning", "checking", "claiming",
                   "deciding", "leaving"}
     \/ pc[t] \in PendingJoin /\ first[t] = node[t]}

(* Each node alive is in the list, in the chain of to_be_deleted or with   *)
(* one thread.                                                             *)
PendingPlaces ==
  /\ \A n : n \in allocated <=>
       \/ n \in Range(order) \/ n \in Range(pending)
       \/ \E t \in Thread : n \in Pending!Owned(t)
  /\ Range(order) \cap Range(pending) = {}
  /\ \A t \in Thread : Pending!Owned(t) \cap (Range(order) \cup Range(pending)) = {}
  /\ \A t, u \in Thread : t # u => Pending!Owned(t) \cap Pending!Owned(u) = {}

(* The chain that a thread has got. *)
ChainOf(t) ==
  /\ chain[t] # <<>> => pc[t] \in {"claiming"} \cup PendingChain \cup PendingJoin
  /\ pc[t] = "claiming" => Range(chain[t]) \subseteq {node[t]}
  /\ pc[t] \in PendingChain =>
       Linked(first[t], next, chain[t], Null) /\ node[t] \notin Range(chain[t])
  /\ pc[t] = "deciding" => last[t] = first[t]
  /\ pc[t] = "walking" => last[t] \in Range(chain[t])
  /\ pc[t] \in PendingJoin =>
       IF last[t] = Null
         THEN pc[t] = "chaining" /\ first[t] = Null /\ node[t] = Null /\ chain[t] = <<>>
         ELSE /\ chain[t] # <<>> /\ last[t] = chain[t][Len(chain[t])]
              /\ Linked(first[t], next, chain[t], next[last[t]])
              /\ node[t] \in Range(chain[t]) <=> first[t] = node[t]

(* The nodes that only one thread may use: new ones, and those taken out   *)
(* that no other pop has seen.                                             *)
Licensed(t) ==
  {n \in Pending!Owned(t) :
     \/ n = node[t] /\ \/ pc[t] \in {"linking", "publishing", "claiming", "disposing"}
                       \/ pc[t] \in PendingChain
                       \/ pc[t] \in PendingJoin /\ first[t] # node[t]
     \/ pc[t] = "deleting"}

Looking(t) == pc[t] \in {"reading", "popping"}

(* What a pop has seen of the node that it looks at. *)
LookOf(t) ==
  Looking(t) =>
    /\ node[t] \in allocated
    /\ \A u \in Thread \ {t} : node[t] \notin Licensed(u)
    /\ pc[t] = "popping" /\ node[t] \in Range(order) => nxt[t] = next[node[t]]

Pushing(t) == pc[t] \in {"linking", "publishing"}

(* The item of a push under way. *)
PushOf(t) ==
  Pushing(t) =>
    node[t] \in Node /\ data[node[t]] = <<t, sent[t] + 1>> /\ sent[t] < MaxPush

ListInv == Linked(head, next, order, Null)

(* What threads_in_pop was at first, and what ends the chain of            *)
(* to_be_deleted.                                                          *)
PendingStart(b, q) ==
  /\ b \in Nat /\ q \in {Null, Wild} /\ b + Cardinality(Thread) <= Wrap
  /\ b = 0 => q = Null
  /\ threads_in_pop = (b + Cardinality(Counted)) % Wrap
  /\ \A t \in Thread : pc[t] = "claiming" => b = 0
  /\ Linked(to_be_deleted, next, pending, q)

PendingInv ==
  /\ Pending!TypeOK /\ PendingPlaces /\ ListInv
  /\ \A t \in Thread : ChainOf(t) /\ LookOf(t) /\ PushOf(t)
  /\ \E b \in 0 .. Wrap, q \in {Null, Wild} : PendingStart(b, q)

-----------------------------------------------------------------------------
(* What a step of one thread leaves to the others *)

LEMMA PendingPointers ==
  /\ Pending!Pointer = Node \cup {Null, Wild}
  /\ Null \in Pending!Pointer /\ Null \notin Node /\ Wild # Null /\ Wild \notin Node
  /\ \A n \in Node : n \in Pending!Pointer
BY Constants DEF Pending!Pointer

LEMMA OwnedNodes ==
  ASSUME PendingInv, NEW t \in Thread
  PROVE  /\ Pending!Owned(t) \subseteq allocated /\ Pending!Owned(t) \subseteq Node
         /\ pc[t] \in PendingOwning =>
              Pending!Owned(t) = ({node[t]} \ {Null}) \cup Range(chain[t])
         /\ pc[t] \notin PendingOwning => Pending!Owned(t) = {}
         /\ Range(chain[t]) \subseteq Pending!Owned(t)
         /\ Licensed(t) \subseteq Pending!Owned(t)
         /\ Range(order) \subseteq allocated /\ Range(pending) \subseteq allocated
         /\ chain[t] \in Seq(Node) /\ order \in Seq(Node) /\ pending \in Seq(Node)
         /\ allocated \subseteq Node
<1>1. Pending!TypeOK /\ PendingPlaces /\ ChainOf(t)
  BY DEF PendingInv
<1>2. /\ pc[t] \in PendingOwning =>
           Pending!Owned(t) = ({node[t]} \ {Null}) \cup Range(chain[t])
      /\ pc[t] \notin PendingOwning => Pending!Owned(t) = {}
  BY Ranges DEF Pending!Owned, PendingOwning, PendingChain, PendingJoin
<1>3. chain[t] \in Seq(Node) /\ order \in Seq(Node) /\ pending \in Seq(Node)
      /\ allocated \subseteq Node
  BY <1>1 DEF Pending!TypeOK
<1>4. Range(chain[t]) \subseteq Pending!Owned(t)
  <2>1. CASE chain[t] = <<>>
    BY <2>1, <1>3, RangeMembers
  <2>2. CASE chain[t] # <<>>
    BY <2>2, <1>1, <1>2 DEF ChainOf, PendingOwning
  <2> QED
    BY <2>1, <2>2
<1>5. /\ Pending!Owned(t) \subseteq allocated
      /\ Range(order) \subseteq allocated /\ Range(pending) \subseteq allocated
  BY <1>1 DEF PendingPlaces
<1>6. Licensed(t) \subseteq Pending!Owned(t)
  BY DEF Licensed
<1> QED
  BY <1>2, <1>3, <1>4, <1>5, <1>6

(* A step of t changes what is its own: its variables, its nodes and new   *)
(* ones, and deletes what it has a license for.                            *)
Frame(t) ==
  /\ \A u \in Thread \ {t} :
       /\ pc'[u] = pc[u] /\ node'[u] = node[u] /\ nxt'[u] = nxt[u]
       /\ first'[u] = first[u] /\ last'[u] = last[u] /\ chain'[u] = chain[u]
       /\ sent'[u] = sent[u]
  /\ \A n \in allocated \ Pending!Owned(t) : next'[n] = next[n] /\ data'[n] = data[n]
  /\ allocated \ Licensed(t) \subseteq allocated'

LEMMA OthersKept ==
  ASSUME PendingInv, NEW t \in Thread, Frame(t), NEW u \in Thread \ {t}
  PROVE  /\ Pending!Owned(u)' = Pending!Owned(u) /\ Licensed(u)' = Licensed(u)
         /\ ChainOf(u)' /\ PushOf(u)'
<1>1. /\ pc'[u] = pc[u] /\ node'[u] = node[u] /\ first'[u] = first[u] /\ last'[u] = last[u]
      /\ chain'[u] = chain[u] /\ sent'[u] = sent[u]
  BY DEF Frame
<1>2. Pending!Owned(u)' = Pending!Owned(u)
  BY <1>1 DEF Pending!Owned
<1>3. Licensed(u)' = Licensed(u)
  BY <1>1, <1>2 DEF Licensed
<1>4. \A n \in Pending!Owned(u) : next'[n] = next[n] /\ data'[n] = data[n]
  <2>1. Pending!Owned(u) \subseteq allocated \ Pending!Owned(t)
    BY OwnedNodes DEF PendingInv, PendingPlaces
  <2> QED
    BY <2>1 DEF Frame
<1>5. ChainOf(u)'
  <2>1. ChainOf(u)
    BY DEF PendingInv
  <2>2. chain[u] \in Seq(Node) /\ \A n \in Range(chain[u]) : next'[n] = next[n]
    BY <1>4, OwnedNodes
  <2>3. \A h, e : Linked(h, next, chain[u], e) => Linked(h, next', chain[u], e)
    BY <2>2, LinkedSame
  <2>4. chain[u] # <<>> /\ last[u] = chain[u][Len(chain[u])] => next'[last[u]] = next[last[u]]
    BY <2>2, RangeMembers
  <2> QED
    BY <1>1, <2>1, <2>3, <2>4 DEF ChainOf
<1>6. PushOf(u)'
  <2>1. Pushing(u) /\ node[u] \in Node => node[u] \in Pending!Owned(u)
    BY OwnedNodes, PendingPointers DEF Pushing, PendingOwning
  <2>2. PushOf(u)
    BY DEF PendingInv
  <2> QED
    BY <1>1, <1>4, <2>1, <2>2 DEF PushOf, Pushing
<1> QED
  BY <1>2, <1>3, <1>5, <1>6

(* Others go on looking at what t has no license for. *)
LEMMA LooksKept ==
  ASSUME PendingInv, NEW t \in Thread, Frame(t), NEW u \in Thread \ {t}, Looking(u),
         Licensed(t)' \cap allocated \subseteq Licensed(t),
         Range(order') \subseteq Range(order) \cup Licensed(t)
  PROVE  LookOf(u)'
<1>1. LookOf(u) /\ node[u] \in allocated
  BY DEF PendingInv, LookOf
<1>2. pc'[u] = pc[u] /\ node'[u] = node[u] /\ nxt'[u] = nxt[u]
  BY DEF Frame
<1>3. node[u] \notin Licensed(t) /\ node[u] \notin Licensed(t)'
  BY <1>1 DEF LookOf
<1>4. node'[u] \in allocated'
  BY <1>1, <1>2, <1>3 DEF Frame
<1>5. \A v \in Thread \ {u} : node'[u] \notin Licensed(v)'
  BY <1>1, <1>2, <1>3, OthersKept DEF LookOf
<1>6. node'[u] \in Range(order') => node[u] \in Range(order) /\ next'[node[u]] = next[node[u]]
  <2>1. node'[u] \in Range(order') => node[u] \in Range(order)
    BY <1>2, <1>3
  <2>2. Range(order) \subseteq allocated \ Pending!Owned(t)
    BY OwnedNodes DEF PendingInv, PendingPlaces
  <2> QED
    BY <2>1, <2>2 DEF Frame
<1> QED
  BY <1>1, <1>2, <1>4, <1>5, <1>6 DEF LookOf

(* Nodes move between the list, to_be_deleted and one thread. *)
Movable(t) == Range(order) \cup Range(pending) \cup Pending!Owned(t)

LEMMA PlacesKept ==
  ASSUME PendingInv, NEW t \in Thread, Frame(t),
         allocated' = (allocated \ Movable(t)) \cup Movable(t)',
         Movable(t)' \cap allocated \subseteq Movable(t),
         Range(order') \cap Range(pending') = {},
         Pending!Owned(t)' \cap (Range(order') \cup Range(pending')) = {}
  PROVE  PendingPlaces'
<1> DEFINE Mine == Movable(t)
           Mine2 == Movable(t)'
<1>a. /\ Mine = Range(order) \cup Range(pending) \cup Pending!Owned(t)
      /\ Mine2 = Range(order') \cup Range(pending') \cup Pending!Owned(t)'
      /\ allocated' = (allocated \ Mine) \cup Mine2 /\ Mine2 \cap allocated \subseteq Mine
  BY DEF Movable
<1> HIDE DEF Mine, Mine2
<1>1. \A u \in Thread \ {t} : Pending!Owned(u)' = Pending!Owned(u)
  BY OthersKept
<1>2. PendingPlaces
  BY DEF PendingInv
<1>3. \A u \in Thread \ {t} :
        Pending!Owned(u) \subseteq allocated /\ Pending!Owned(u) \cap Mine = {}
  BY <1>a, <1>2 DEF PendingPlaces
<1>4. \A u \in Thread \ {t} : Pending!Owned(u) \cap Mine2 = {}
  BY <1>a, <1>3
<1> HIDE DEF Frame, PendingInv
<1>5. \A n : n \in allocated' <=>
        \/ n \in Range(order') \/ n \in Range(pending')
        \/ \E u \in Thread : n \in Pending!Owned(u)'
  <2> TAKE n
  <2>1. CASE n \in Mine2
    BY <1>a, <2>1
  <2>2. CASE n \notin Mine2
    <3>1. n \in allocated' <=> n \in allocated /\ n \notin Mine
      BY <1>a, <2>2
    <3>2. (\E u \in Thread : n \in Pending!Owned(u)') <=>
            \E u \in Thread \ {t} : n \in Pending!Owned(u)
      BY <1>a, <1>1, <2>2
    <3>3. n \in allocated /\ n \notin Mine <=> \E u \in Thread \ {t} : n \in Pending!Owned(u)
      BY <1>a, <1>2, <1>3 DEF PendingPlaces
    <3> QED
      BY <1>a, <2>2, <3>1, <3>2, <3>3
  <2> QED
    BY <2>1, <2>2
<1>6. \A u \in Thread : Pending!Owned(u)' \cap (Range(order') \cup Range(pending')) = {}
  BY <1>a, <1>1, <1>4
<1>7. \A u, v \in Thread : u # v => Pending!Owned(u)' \cap Pending!Owned(v)' = {}
  <2> SUFFICES ASSUME NEW u \in Thread, NEW v \in Thread, u # v
               PROVE  Pending!Owned(u)' \cap Pending!Owned(v)' = {}
    OBVIOUS
  <2>1. CASE u # t /\ v # t
    BY <1>1, <1>2, <2>1 DEF PendingPlaces
  <2>2. CASE u = t \/ v = t
    BY <1>a, <1>1, <1>4, <2>2
  <2> QED
    BY <2>1, <2>2
<1> QED
  BY <1>5, <1>6, <1>7 DEF PendingPlaces

(* Nothing moves. *)
LEMMA PlacesSame ==
  ASSUME PendingInv, NEW t \in Thread, Frame(t), UNCHANGED <<order, pending, allocated>>,
         Pending!Owned(t)' = Pending!Owned(t)
  PROVE  PendingPlaces'
<1>1. \A u \in Thread : Pending!Owned(u)' = Pending!Owned(u)
  BY OthersKept
<1> QED
  BY <1>1 DEF PendingInv, PendingPlaces

LEMMA ListSame ==
  ASSUME PendingInv, NEW t \in Thread, Frame(t), UNCHANGED <<head, order>>
  PROVE  ListInv'
<1>1. order \in Seq(Node) /\ Range(order) \subseteq allocated \ Pending!Owned(t)
  BY OwnedNodes DEF PendingInv, PendingPlaces
<1>2. \A n \in Range(order) : next'[n] = next[n]
  BY <1>1 DEF Frame
<1> QED
  BY <1>1, <1>2, LinkedSame DEF PendingInv, ListInv

(* The chain of to_be_deleted stays. *)
LEMMA PendingSame ==
  ASSUME PendingInv, NEW t \in Thread, Frame(t), UNCHANGED pending, NEW h, NEW e,
         Linked(h, next, pending, e)
  PROVE  Linked(h, next', pending', e)
<1>1. pending \in Seq(Node) /\ Range(pending) \subseteq allocated \ Pending!Owned(t)
  BY OwnedNodes DEF PendingInv, PendingPlaces
<1>2. \A n \in Range(pending) : next'[n] = next[n]
  BY <1>1 DEF Frame
<1> QED
  BY <1>1, <1>2, LinkedSame

-----------------------------------------------------------------------------
(* The counter *)

LEMMA Modulo ==
  ASSUME NEW w \in Nat \ {0}
  PROVE  /\ \A x \in 0 .. w - 1 : x % w = x
         /\ w % w = 0
         /\ \A x \in 1 .. w : ((x % w) + w - 1) % w = x - 1
         /\ \A x \in 0 .. w - 1 : ((x % w) + 1) % w = (x + 1) % w
<1>1. \A x \in 0 .. w - 1 : x % w = x
  OBVIOUS
<1>2. w % w = 0
  OBVIOUS
<1>3. ASSUME NEW x \in 1 .. w
      PROVE  ((x % w) + w - 1) % w = x - 1
  <2>1. CASE x = w
    <3>1. (0 + w - 1) % w = w - 1
      OBVIOUS
    <3> QED
      BY <1>2, <2>1, <3>1
  <2>2. CASE x # w
    <3>1. x \in 1 .. w - 1 /\ x % w = x
      BY <1>1, <2>2
    <3>2. (x + w - 1) % w = x - 1
      BY <3>1
    <3> QED
      BY <3>1, <3>2
  <2> QED
    BY <2>1, <2>2
<1> QED
  BY <1>1, <1>2, <1>3

(* The counter is that of its start and the pops under way. *)
LEMMA StartFacts ==
  ASSUME NEW b \in 0 .. Wrap, NEW q, PendingStart(b, q)
  PROVE  LET k == b + Cardinality(Counted)
         IN  /\ IsFiniteSet(Counted) /\ Cardinality(Counted) \in Nat
             /\ k \in 0 .. Wrap /\ threads_in_pop = k % Wrap
             /\ \A t \in Thread \ Counted : k + 1 \in 1 .. Wrap
             /\ \A t \in Counted : k \in 1 .. Wrap
             /\ \A t \in Counted : k = 1 => b = 0 /\ Counted = {t}
<1> DEFINE k == b + Cardinality(Counted)
<1>1. IsFiniteSet(Thread) /\ Cardinality(Thread) \in Nat
  BY StartsAssumption, FS_CardinalityType
<1>2. /\ IsFiniteSet(Counted) /\ Cardinality(Counted) \in Nat
      /\ Cardinality(Counted) <= Cardinality(Thread)
      /\ Cardinality(Counted) = Cardinality(Thread) => Counted = Thread
  <2>1. Counted \in SUBSET Thread
    BY DEF Counted
  <2> QED
    BY <1>1, <2>1, FS_Subset, FS_CardinalityType
<1>3. Wrap \in Nat /\ b \in Nat /\ b + Cardinality(Thread) <= Wrap /\ threads_in_pop = k % Wrap
  BY Constants DEF PendingStart
<1>4. ASSUME NEW t \in Thread \ Counted
      PROVE  Cardinality(Counted) + 1 <= Cardinality(Thread)
  BY <1>1, <1>2
<1>5. ASSUME NEW t \in Counted
      PROVE  Cardinality(Counted) # 0 /\ (Cardinality(Counted) = 1 => Counted = {t})
  BY <1>2, FS_EmptySet, FS_Singleton
<1>6. k \in 0 .. Wrap
  BY <1>1, <1>2, <1>3
<1>7. \A t \in Thread \ Counted : k + 1 \in 1 .. Wrap
  BY <1>1, <1>2, <1>3, <1>4
<1>8. \A t \in Counted : k \in 1 .. Wrap /\ (k = 1 => b = 0 /\ Counted = {t})
  BY <1>1, <1>2, <1>3, <1>5
<1> QED
  BY <1>2, <1>3, <1>6, <1>7, <1>8

LEMMA CountedKept ==
  ASSUME PendingInv, NEW t \in Thread, Frame(t)
  PROVE  /\ t \in Counted' => Counted' = Counted \cup {t}
         /\ t \notin Counted' => Counted' = Counted \ {t}
<1>1. \A u \in Thread \ {t} : u \in Counted' <=> u \in Counted
  BY DEF Frame, Counted
<1>2. Counted \subseteq Thread /\ Counted' \subseteq Thread
  BY DEF Counted
<1> QED
  BY <1>1, <1>2

(* The counter is left alone. *)
LEMMA StartSame ==
  ASSUME PendingInv, NEW t \in Thread, Frame(t),
         UNCHANGED <<threads_in_pop, to_be_deleted, pending>>,
         t \in Counted' <=> t \in Counted, pc'[t] # "claiming"
  PROVE  \E b \in 0 .. Wrap, q \in {Null, Wild} : PendingStart(b, q)'
<1>1. PICK b \in 0 .. Wrap, q \in {Null, Wild} : PendingStart(b, q)
  BY DEF PendingInv
<1>2. Counted' = Counted
  BY CountedKept
<1>3. \A u \in Thread : pc'[u] = "claiming" => pc[u] = "claiming"
  BY DEF Frame
<1>4. Linked(to_be_deleted', next', pending', q)
  BY <1>1, PendingSame DEF PendingStart
<1>5. PendingStart(b, q)'
  BY <1>1, <1>2, <1>3, <1>4 DEF PendingStart
<1> QED
  BY <1>5

(* ++threads_in_pop *)
LEMMA StartUp ==
  ASSUME PendingInv, NEW t \in Thread, Frame(t), UNCHANGED <<to_be_deleted, pending>>,
         t \notin Counted, t \in Counted', pc'[t] # "claiming",
         threads_in_pop' = (threads_in_pop + 1) % Wrap
  PROVE  \E b \in 0 .. Wrap, q \in {Null, Wild} : PendingStart(b, q)'
<1>1. PICK b \in 0 .. Wrap, q \in {Null, Wild} : PendingStart(b, q)
  BY DEF PendingInv
<1> DEFINE k == b + Cardinality(Counted)
<1>2. /\ Cardinality(Counted) \in Nat /\ Cardinality(Counted') = Cardinality(Counted) + 1
      /\ k \in 0 .. Wrap - 1 /\ threads_in_pop = k % Wrap
  <2>1. Counted' = Counted \cup {t}
    BY CountedKept
  <2>2. IsFiniteSet(Counted) /\ k + 1 \in 1 .. Wrap /\ k \in 0 .. Wrap
        /\ Cardinality(Counted) \in Nat /\ threads_in_pop = k % Wrap
    BY <1>1, StartFacts
  <2>3. Cardinality(Counted \cup {t}) = Cardinality(Counted) + 1
    BY <2>2, FS_AddElement
  <2>4. k \in 0 .. Wrap - 1
    BY <2>2, Constants
  <2> QED
    BY <2>1, <2>2, <2>3, <2>4
<1>3. threads_in_pop' = (b + Cardinality(Counted')) % Wrap
  <2>1. threads_in_pop' = (k + 1) % Wrap
    BY <1>2, Modulo, Constants
  <2>2. k + 1 = b + Cardinality(Counted')
    BY <1>2
  <2> QED
    BY <2>1, <2>2
<1>4. \A u \in Thread : pc'[u] = "claiming" => pc[u] = "claiming"
  BY DEF Frame
<1>5. Linked(to_be_deleted', next', pending', q)
  BY <1>1, PendingSame DEF PendingStart
<1>6. PendingStart(b, q)'
  BY <1>1, <1>3, <1>4, <1>5 DEF PendingStart
<1> QED
  BY <1>6

(* --threads_in_pop, and what a result of zero says *)
LEMMA StartDown ==
  ASSUME PendingInv, NEW t \in Thread, t \in Counted
  PROVE  /\ (threads_in_pop + Wrap - 1) % Wrap = 0 => Counted = {t}
         /\ (threads_in_pop + Wrap - 1) % Wrap \in 0 .. Wrap - 1
         /\ Frame(t) /\ UNCHANGED <<to_be_deleted, pending>> /\ t \notin Counted'
              /\ pc'[t] # "claiming" /\ threads_in_pop' = (threads_in_pop + Wrap - 1) % Wrap
            => \E b \in 0 .. Wrap, q \in {Null, Wild} : PendingStart(b, q)'
<1>1. PICK b \in 0 .. Wrap, q \in {Null, Wild} : PendingStart(b, q)
  BY DEF PendingInv
<1> DEFINE k == b + Cardinality(Counted)
<1>2. /\ IsFiniteSet(Counted) /\ Cardinality(Counted) \in Nat
      /\ k \in 1 .. Wrap /\ threads_in_pop = k % Wrap
      /\ k = 1 => b = 0 /\ Counted = {t}
  BY <1>1, StartFacts
<1>3. (threads_in_pop + Wrap - 1) % Wrap = k - 1
  BY <1>2, Modulo, Constants
<1>4. k - 1 \in 0 .. Wrap - 1 /\ (k - 1 = 0 => k = 1)
  BY <1>2, Constants
<1>5. ASSUME Frame(t), UNCHANGED <<to_be_deleted, pending>>, t \notin Counted',
             pc'[t] # "claiming", threads_in_pop' = k - 1
      PROVE  PendingStart(b, q)'
  <2>1. Cardinality(Counted') = Cardinality(Counted) - 1
    <3>1. Counted' = Counted \ {t}
      BY <1>5, CountedKept
    <3>2. Cardinality(Counted \ {t}) = Cardinality(Counted) - 1
      BY <1>2, FS_RemoveElement
    <3> QED
      BY <3>1, <3>2
  <2>2. threads_in_pop' = (b + Cardinality(Counted')) % Wrap
    <3>1. b + Cardinality(Counted') = k - 1
      BY <1>2, <2>1
    <3>2. (k - 1) % Wrap = k - 1
      BY <1>4, Modulo, Constants
    <3> QED
      BY <1>5, <3>1, <3>2
  <2>3. \A u \in Thread : pc'[u] = "claiming" => pc[u] = "claiming"
    BY <1>5 DEF Frame
  <2>4. Linked(to_be_deleted', next', pending', q)
    BY <1>1, <1>5, PendingSame DEF PendingStart
  <2> QED
    BY <1>1, <2>2, <2>3, <2>4 DEF PendingStart
<1> QED
  BY <1>2, <1>3, <1>4, <1>5

(* threads_in_pop == 1 *)
LEMMA CountOne ==
  ASSUME PendingInv, NEW t \in Counted, threads_in_pop = 1,
         NEW b \in 0 .. Wrap, NEW q, PendingStart(b, q)
  PROVE  b = 0 /\ Counted = {t}
<1> DEFINE k == b + Cardinality(Counted)
<1>1. k \in 1 .. Wrap /\ k % Wrap = 1 /\ (k = 1 => b = 0 /\ Counted = {t})
  BY StartFacts
<1>2. k = 1
  <2>1. k # Wrap
    BY <1>1, Modulo, Constants
  <2>2. k \in 0 .. Wrap - 1
    BY <1>1, <2>1, Constants
  <2> QED
    BY <1>1, <2>2, Modulo, Constants
<1> QED
  BY <1>1, <1>2

-----------------------------------------------------------------------------
(* The steps of push *)

(* What is left to show of a step. *)
LEMMA Closing ==
  ASSUME PendingInv, NEW t \in Thread, Frame(t), Pending!TypeOK', PendingPlaces', ListInv',
         \E b \in 0 .. Wrap, q \in {Null, Wild} : PendingStart(b, q)',
         ChainOf(t)', LookOf(t)', PushOf(t)',
         \/ \A u \in Thread \ {t} : ~Looking(u)
         \/ /\ Licensed(t)' \cap allocated \subseteq Licensed(t)
            /\ Range(order') \subseteq Range(order) \cup Licensed(t)
  PROVE  PendingInv'
<1>1. \A u \in Thread \ {t} : ChainOf(u)' /\ PushOf(u)'
  BY OthersKept
<1>2. \A u \in Thread \ {t} : LookOf(u)'
  <2> TAKE u \in Thread \ {t}
  <2>1. Looking(u)' <=> Looking(u)
    BY DEF Looking, Frame
  <2>2. Looking(u) => LookOf(u)'
    BY LooksKept
  <2> QED
    BY <2>1, <2>2 DEF LookOf
<1> QED
  BY <1>1, <1>2 DEF PendingInv

(* Nothing moves. *)
LEMMA Quiet ==
  ASSUME PendingInv, NEW t \in Thread, Frame(t), Pending!TypeOK',
         UNCHANGED <<head, order, pending, allocated, to_be_deleted, threads_in_pop>>,
         Pending!Owned(t)' = Pending!Owned(t), Licensed(t)' \subseteq Licensed(t),
         t \in Counted' <=> t \in Counted, pc'[t] # "claiming",
         ChainOf(t)', LookOf(t)', PushOf(t)'
  PROVE  PendingInv'
<1>1. PendingPlaces' /\ ListInv'
  BY PlacesSame, ListSame
<1>2. \E b \in 0 .. Wrap, q \in {Null, Wild} : PendingStart(b, q)'
  BY StartSame
<1>3. Range(order') \subseteq Range(order) \cup Licensed(t)
  OBVIOUS
<1> QED
  BY <1>1, <1>2, <1>3, Closing

LEMMA AllocateInv ==
  ASSUME PendingInv, NEW t \in Thread, Pending!Listing!Allocate(t), UNCHANGED Pending!reclaim
  PROVE  PendingInv'
<1> USE DEF Pending!Listing!Allocate, Pending!Listing!Goto, Pending!reclaim
<1>1. PICK n \in Node \ allocated :
        /\ allocated' = allocated \cup {n}
        /\ data' = [data EXCEPT ![n] = <<t, sent[t] + 1>>]
        /\ next' = [next EXCEPT ![n] = Null]
        /\ node' = [node EXCEPT ![t] = n]
  OBVIOUS
<1>2. Pending!TypeOK /\ pc[t] = "idle" /\ pc' = [pc EXCEPT ![t] = "linking"]
      /\ UNCHANGED <<head, nxt, sent, pops, result, order>>
  BY DEF PendingInv
<1>3. Pending!TypeOK'
  <2>1. sent[t] \in Nat /\ <<t, sent[t] + 1>> \in Pending!Listing!Answer
    BY <1>2, Constants DEF Pending!TypeOK, Pending!Listing!Answer, Pending!Listing!Item
  <2> QED
    BY <1>1, <1>2, <2>1, PendingPointers DEF Pending!TypeOK
<1>4. /\ pc'[t] = "linking" /\ node'[t] = n /\ data'[n] = <<t, sent[t] + 1>>
      /\ \A u \in Thread \ {t} : pc'[u] = pc[u] /\ node'[u] = node[u]
      /\ \A m \in Node \ {n} : next'[m] = next[m] /\ data'[m] = data[m]
  BY <1>1, <1>2 DEF Pending!TypeOK
<1>5. chain[t] = <<>> /\ Range(chain[t]) = {} /\ Pending!Owned(t) = {}
  <2>1. chain[t] = <<>>
    BY <1>2 DEF PendingInv, ChainOf, PendingChain, PendingJoin
  <2> QED
    BY <1>2, <2>1, OwnedNodes, RangeMembers DEF PendingOwning, PendingChain, PendingJoin
<1>6. Frame(t)
  BY <1>1, <1>4, OwnedNodes DEF Frame
<1>7. Pending!Owned(t)' = {n} /\ Licensed(t)' \subseteq {n}
  <2>1. Pending!Owned(t)' = ({node'[t]} \ {Null}) \cup Range(chain'[t])
    BY <1>4, Ranges DEF Pending!Owned
  <2>2. n # Null
    BY Constants
  <2> QED
    BY <1>4, <1>5, <2>1, <2>2 DEF Licensed
<1>8. PendingPlaces'
  <2>1. n \notin Range(order) /\ n \notin Range(pending) /\ Range(order) \cap Range(pending) = {}
        /\ Range(order) \subseteq allocated /\ Range(pending) \subseteq allocated
    BY OwnedNodes DEF PendingInv, PendingPlaces
  <2>2. Movable(t)' = Movable(t) \cup {n} /\ Movable(t) \subseteq allocated
    BY <1>2, <1>5, <1>7, <2>1 DEF Movable
  <2>3. allocated' = (allocated \ Movable(t)) \cup Movable(t)'
    BY <1>1, <2>2
  <2> QED
    BY <1>2, <1>6, <1>7, <2>1, <2>2, <2>3, PlacesKept
<1>9. ListInv' /\ \E b \in 0 .. Wrap, q \in {Null, Wild} : PendingStart(b, q)'
  <2>1. t \notin Counted /\ t \notin Counted'
    BY <1>2, <1>4 DEF Counted, PendingJoin
  <2> QED
    BY <1>2, <1>4, <1>6, <2>1, ListSame, StartSame
<1>10. ChainOf(t)' /\ LookOf(t)' /\ PushOf(t)'
  BY <1>1, <1>2, <1>4, <1>5
  DEF ChainOf, LookOf, Looking, PushOf, Pushing, PendingChain, PendingJoin
<1>11. Licensed(t)' \cap allocated \subseteq Licensed(t)
  BY <1>7
<1> QED
  BY <1>2, <1>3, <1>6, <1>8, <1>9, <1>10, <1>11, Closing

LEMMA LinkInv ==
  ASSUME PendingInv, NEW t \in Thread,
         Pending!Listing!Link(t) \/ Pending!Listing!PublishFails(t), UNCHANGED Pending!reclaim
  PROVE  PendingInv'
<1>1. /\ Pending!TypeOK /\ Pushing(t)
      /\ pc' = [pc EXCEPT ![t] = "publishing"]
      /\ next' = [next EXCEPT ![node[t]] = head]
      /\ UNCHANGED <<head, data, allocated, node, nxt, sent, pops, result, order>>
      /\ UNCHANGED <<to_be_deleted, threads_in_pop, first, last, broken, pending, chain>>
  BY DEF PendingInv, Pending!TypeOK, Pending!Listing!Link, Pending!Listing!PublishFails,
         Pending!Listing!Goto, Pushing, Pending!reclaim
<1>2. PushOf(t) /\ ChainOf(t) /\ node[t] \in Node /\ node[t] \in Pending!Owned(t)
  <2>1. PushOf(t) /\ ChainOf(t)
    BY DEF PendingInv
  <2>2. node[t] \in Node /\ pc[t] \in PendingOwning
    BY <1>1, <2>1 DEF PushOf, Pushing, PendingOwning
  <2> QED
    BY <2>1, <2>2, OwnedNodes, PendingPointers
<1>3. /\ \A u \in Thread : pc'[u] = IF u = t THEN "publishing" ELSE pc[u]
      /\ \A m \in Node \ {node[t]} : next'[m] = next[m]
      /\ next' \in [Node -> Pending!Pointer]
  <2>1. head \in Pending!Pointer
    BY <1>1, PendingPointers DEF Pending!TypeOK
  <2> QED
    BY <1>1, <1>2, <2>1 DEF Pending!TypeOK
<1>4. Pending!TypeOK'
  BY <1>1, <1>3 DEF Pending!TypeOK
<1>5. Frame(t)
  BY <1>1, <1>2, <1>3, OwnedNodes DEF Frame
<1>6. Pending!Owned(t)' = Pending!Owned(t) /\ Licensed(t)' \subseteq Licensed(t)
  <2>1. Pending!Owned(t)' = Pending!Owned(t)
    BY <1>1, <1>3 DEF Pending!Owned, Pushing
  <2> QED
    BY <1>1, <1>3, <2>1 DEF Licensed, Pushing, PendingChain, PendingJoin
<1>7. t \notin Counted /\ t \notin Counted'
  BY <1>1, <1>3 DEF Counted, Pushing, PendingJoin
<1>8. ChainOf(t)' /\ LookOf(t)' /\ PushOf(t)'
  BY <1>1, <1>2, <1>3 DEF ChainOf, LookOf, Looking, PushOf, Pushing, PendingChain, PendingJoin
<1> QED
  BY <1>1, <1>3, <1>4, <1>5, <1>6, <1>7, <1>8, Quiet

LEMMA PublishInv ==
  ASSUME PendingInv, NEW t \in Thread, Pending!Listing!Publish(t), UNCHANGED Pending!reclaim
  PROVE  PendingInv'
<1>1. /\ Pending!TypeOK /\ pc[t] = "publishing"
      /\ pc' = [pc EXCEPT ![t] = "idle"] /\ sent' = [sent EXCEPT ![t] = @ + 1]
      /\ head = next[node[t]] /\ head' = node[t] /\ order' = <<node[t]>> \o order
      /\ UNCHANGED <<data, next, allocated, node, nxt, pops, result>>
      /\ UNCHANGED <<to_be_deleted, threads_in_pop, first, last, broken, pending, chain>>
  BY DEF PendingInv, Pending!Listing!Publish, Pending!Listing!Goto, Pending!reclaim
<1>2. /\ node[t] \in Node /\ sent[t] < MaxPush /\ chain[t] = <<>> /\ Range(chain[t]) = {}
      /\ Pending!Owned(t) = {node[t]} /\ Licensed(t) = {node[t]}
  <2>1. PushOf(t) /\ ChainOf(t)
    BY DEF PendingInv
  <2>2. node[t] \in Node /\ sent[t] < MaxPush /\ pc[t] \in PendingOwning /\ chain[t] = <<>>
    BY <1>1, <2>1 DEF PushOf, Pushing, PendingOwning, ChainOf, PendingChain, PendingJoin
  <2>3. Pending!Owned(t) = {node[t]} /\ Range(chain[t]) = {}
    BY <2>2, OwnedNodes, PendingPointers, RangeMembers
  <2> QED
    BY <1>1, <2>2, <2>3 DEF Licensed
<1>3. /\ \A u \in Thread : pc'[u] = IF u = t THEN "idle" ELSE pc[u]
      /\ \A u \in Thread \ {t} : sent'[u] = sent[u]
  BY <1>1 DEF Pending!TypeOK
<1>4. /\ order \in Seq(Node) /\ order' \in Seq(Node) /\ Range(order') = {node[t]} \cup Range(order)
      /\ node[t] \notin Range(order) /\ node[t] \notin Range(pending)
  <2>1. order \in Seq(Node)
    BY <1>1 DEF Pending!TypeOK
  <2>2. Range(order') = {node[t]} \cup Range(order)
    BY <1>1, <1>2, <2>1, Constants, Facts!RangePush, Ranges
  <2>3. order' \in Seq(Node)
    BY <1>1, <1>2, <2>1, Constants, Facts!PushFront
  <2> QED
    BY <1>2, <2>1, <2>2, <2>3 DEF PendingInv, PendingPlaces
<1>5. Pending!TypeOK'
  <2>1. sent' \in [Thread -> 0 .. MaxPush]
    BY <1>1, <1>2, Constants DEF Pending!TypeOK
  <2> QED
    BY <1>1, <1>2, <1>3, <1>4, <2>1 DEF Pending!TypeOK
<1>6. Frame(t)
  BY <1>1, <1>3 DEF Frame
<1>7. Pending!Owned(t)' = {} /\ Licensed(t)' = {}
  <2>1. Pending!Owned(t)' = {}
    BY <1>3 DEF Pending!Owned
  <2> QED
    BY <2>1 DEF Licensed
<1>8. PendingPlaces'
  <2>1. Range(order) \cap Range(pending) = {} /\ Range(order) \subseteq allocated
        /\ Range(pending) \subseteq allocated /\ Pending!Owned(t) \subseteq allocated
    BY OwnedNodes DEF PendingInv, PendingPlaces
  <2>2. Movable(t)' = Movable(t) /\ Movable(t) \subseteq allocated
    BY <1>1, <1>2, <1>4, <1>7, <2>1 DEF Movable
  <2>3. Range(order') \cap Range(pending') = {} /\ allocated' = allocated
    BY <1>1, <1>4, <2>1
  <2> QED
    BY <1>6, <1>7, <2>2, <2>3, PlacesKept
<1>9. ListInv'
  <2>1. node[t] \notin Facts!Range(order) /\ Facts!Linked(head, next, order, Null)
    BY <1>4, Ranges DEF PendingInv, ListInv, Linked
  <2> QED
    BY <1>1, <1>2, <1>4, <2>1, Constants, Facts!LinkedPush DEF ListInv, Linked
<1>10. \E b \in 0 .. Wrap, q \in {Null, Wild} : PendingStart(b, q)'
  <2>1. t \notin Counted /\ t \notin Counted'
    BY <1>1, <1>3 DEF Counted, PendingJoin
  <2> QED
    BY <1>1, <1>3, <1>6, <2>1, StartSame
<1>11. ChainOf(t)' /\ LookOf(t)' /\ PushOf(t)'
  BY <1>1, <1>2, <1>3 DEF ChainOf, LookOf, Looking, PushOf, Pushing, PendingChain, PendingJoin
<1>12. Range(order') \subseteq Range(order) \cup Licensed(t)
  BY <1>2, <1>4
<1> QED
  BY <1>5, <1>6, <1>7, <1>8, <1>9, <1>10, <1>11, <1>12, Closing

-----------------------------------------------------------------------------
(* The steps of pop *)

LEMMA HeadListed ==
  ASSUME PendingInv
  PROVE  /\ head = Null => order = <<>>
         /\ head # Null => order # <<>> /\ head = order[1] /\ head \in Range(order)
<1>1. order \in Seq(Node) /\ Facts!Linked(head, next, order, Null)
  BY DEF PendingInv, Pending!TypeOK, ListInv, Linked
<1> QED
  BY <1>1, Facts!LinkedHead, Ranges, Constants

(* A thread outside the steps that hold nodes. *)
LEMMA OwnsNone ==
  ASSUME PendingInv, NEW t \in Thread, pc[t] \notin PendingOwning
  PROVE  chain[t] = <<>> /\ Range(chain[t]) = {} /\ Pending!Owned(t) = {} /\ Licensed(t) = {}
<1>1. chain[t] = <<>>
  BY DEF PendingInv, ChainOf, PendingOwning
<1> QED
  BY <1>1, OwnedNodes, RangeMembers

(* A thread that holds the one node it has taken out. *)
LEMMA OwnsNode ==
  ASSUME PendingInv, NEW t \in Thread, pc[t] \in {"returning", "checking", "claiming", "disposing"}
  PROVE  /\ Pending!Owned(t) = {node[t]} \ {Null}
         /\ pc[t] # "claiming" => chain[t] = <<>> /\ Range(chain[t]) = {}
         /\ pc[t] \in {"claiming", "disposing"} => Licensed(t) = {node[t]} \ {Null}
<1>1. ChainOf(t) /\ pc[t] \in PendingOwning /\ chain[t] \in Seq(Node)
  BY OwnedNodes DEF PendingInv, PendingOwning
<1>2. Pending!Owned(t) = ({node[t]} \ {Null}) \cup Range(chain[t])
  BY <1>1, OwnedNodes
<1>3. Range(chain[t]) \subseteq {node[t]} \ {Null}
  <2>1. CASE pc[t] = "claiming"
    BY <1>1, <2>1, RangeMembers, Constants DEF ChainOf
  <2>2. CASE pc[t] # "claiming"
    BY <1>1, <2>2, RangeMembers DEF ChainOf, PendingChain, PendingJoin
  <2> QED
    BY <2>1, <2>2
<1>4. pc[t] # "claiming" => chain[t] = <<>> /\ Range(chain[t]) = {}
  BY <1>1, RangeMembers DEF ChainOf, PendingChain, PendingJoin
<1>5. pc[t] \in {"claiming", "disposing"} => Licensed(t) = {node[t]} \ {Null}
  BY <1>2, <1>3 DEF Licensed
<1> QED
  BY <1>2, <1>3, <1>4, <1>5

LEMMA EnterInv ==
  ASSUME PendingInv, NEW t \in Thread, Pending!Enter(t)
  PROVE  PendingInv'
<1>1. /\ Pending!TypeOK /\ pops[t] < MaxPop /\ pc[t] = "idle" /\ pc' = [pc EXCEPT ![t] = "loading"]
      /\ pops' = [pops EXCEPT ![t] = @ + 1] /\ threads_in_pop' = (threads_in_pop + 1) % Wrap
      /\ UNCHANGED <<head, data, next, allocated, node, nxt, sent, result, order>>
      /\ UNCHANGED <<to_be_deleted, first, last, broken, pending, chain>>
  BY DEF PendingInv, Pending!Enter, Pending!Goto
<1>2. \A u \in Thread : pc'[u] = IF u = t THEN "loading" ELSE pc[u]
  BY <1>1 DEF Pending!TypeOK
<1>3. Pending!TypeOK'
  <2>1. pops' \in [Thread -> 0 .. MaxPop]
    BY <1>1, Constants DEF Pending!TypeOK
  <2>2. threads_in_pop' \in 0 .. Wrap - 1
    BY <1>1, Constants DEF Pending!TypeOK
  <2> QED
    BY <1>1, <1>2, <2>1, <2>2 DEF Pending!TypeOK
<1>4. Frame(t)
  BY <1>1, <1>2 DEF Frame
<1>5. chain[t] = <<>> /\ Pending!Owned(t) = {}
  BY <1>1, OwnsNone DEF PendingOwning, PendingChain, PendingJoin
<1>6. Pending!Owned(t)' = {} /\ Licensed(t)' = {}
  <2>1. Pending!Owned(t)' = {}
    BY <1>2 DEF Pending!Owned
  <2> QED
    BY <2>1 DEF Licensed
<1>7. PendingPlaces' /\ ListInv'
  BY <1>1, <1>4, <1>5, <1>6, PlacesSame, ListSame
<1>8. \E b \in 0 .. Wrap, q \in {Null, Wild} : PendingStart(b, q)'
  <2>1. t \notin Counted /\ t \in Counted'
    BY <1>1, <1>2 DEF Counted, PendingJoin
  <2> QED
    BY <1>1, <1>2, <1>4, <2>1, StartUp
<1>9. ChainOf(t)' /\ LookOf(t)' /\ PushOf(t)'
  BY <1>1, <1>2, <1>5 DEF ChainOf, LookOf, Looking, PushOf, Pushing, PendingChain, PendingJoin
<1>10. Range(order') \subseteq Range(order) \cup Licensed(t)
  BY <1>1
<1> QED
  BY <1>3, <1>4, <1>6, <1>7, <1>8, <1>9, <1>10, Closing

LEMMA LoadHeadInv ==
  ASSUME PendingInv, NEW t \in Thread, Pending!LoadHead(t)
  PROVE  PendingInv'
<1>1. /\ Pending!TypeOK /\ pc[t] \in {"loading", "popping"}
      /\ node' = [node EXCEPT ![t] = head]
      /\ UNCHANGED <<head, data, next, allocated, nxt, sent, pops, order>>
      /\ UNCHANGED <<to_be_deleted, threads_in_pop, first, last, broken, pending, chain>>
      /\ \/ /\ head = Null /\ pc' = [pc EXCEPT ![t] = "checking"]
            /\ result' = [result EXCEPT ![t] = Nothing]
         \/ head # Null /\ pc' = [pc EXCEPT ![t] = "reading"] /\ result' = result
  BY DEF PendingInv, Pending!LoadHead, Pending!Examine, Pending!reclaim
<1>2. \A u \in Thread : /\ pc'[u] = IF u = t THEN IF head = Null THEN "checking" ELSE "reading"
                                             ELSE pc[u]
                        /\ node'[u] = IF u = t THEN head ELSE node[u]
  BY <1>1 DEF Pending!TypeOK
<1>3. Pending!TypeOK'
  <2>1. Nothing \in Pending!Listing!Answer
    BY DEF Pending!Listing!Answer
  <2>2. /\ node' \in [Thread -> Node \cup {Null}]
        /\ result' \in [Thread -> Pending!Listing!Answer]
    BY <1>1, <2>1 DEF Pending!TypeOK
  <2>3. \A u \in Thread : pc'[u] \in {"reading", "popping", "returning"} => node'[u] \in Node
    <3> TAKE u \in Thread
    <3>1. CASE u = t
      BY <1>1, <1>2, <3>1 DEF Pending!TypeOK
    <3>2. CASE u # t
      BY <1>1, <1>2, <3>2 DEF Pending!TypeOK
    <3> QED
      BY <3>1, <3>2
  <2>4. CASE head = Null
    <3>1. pc' = [pc EXCEPT ![t] = "checking"]
      BY <1>1, <2>4
    <3> QED
      BY <1>1, <2>2, <2>3, <3>1 DEF Pending!TypeOK
  <2>5. CASE head # Null
    <3>1. pc' = [pc EXCEPT ![t] = "reading"]
      BY <1>1, <2>5
    <3> QED
      BY <1>1, <2>2, <2>3, <3>1 DEF Pending!TypeOK
  <2> QED
    BY <2>4, <2>5
<1>4. Frame(t)
  BY <1>1, <1>2 DEF Frame
<1>5. chain[t] = <<>> /\ Range(chain[t]) = {} /\ Pending!Owned(t) = {} /\ Licensed(t) = {}
  BY <1>1, OwnsNone DEF PendingOwning, PendingChain, PendingJoin
<1>6. Pending!Owned(t)' = {} /\ Licensed(t)' = {}
  <2>1. Pending!Owned(t)' = {}
    <3>1. head = Null => ({node'[t]} \ {Null}) \cup Range(chain'[t]) = {}
      BY <1>1, <1>2, <1>5
    <3> QED
      BY <1>2, <3>1, Ranges DEF Pending!Owned
  <2> QED
    BY <2>1 DEF Licensed
<1>7. t \in Counted /\ t \in Counted'
  BY <1>1, <1>2 DEF Counted
<1>8. LookOf(t)'
  <2> SUFFICES ASSUME Looking(t)'
               PROVE  /\ node'[t] \in allocated'
                      /\ \A u \in Thread \ {t} : node'[t] \notin Licensed(u)'
                      /\ pc'[t] # "popping"
    BY DEF LookOf
  <2>1. head # Null /\ node'[t] = head /\ pc'[t] = "reading"
    BY <1>2 DEF Looking
  <2>2. head \in Range(order)
    BY <2>1, HeadListed
  <2>3. head \in allocated /\ \A u \in Thread : head \notin Pending!Owned(u)
    BY <2>2, OwnedNodes DEF PendingInv, PendingPlaces
  <2>4. \A u \in Thread \ {t} :
          Licensed(u)' = Licensed(u) /\ Licensed(u) \subseteq Pending!Owned(u)
    BY <1>4, OthersKept, OwnedNodes
  <2> QED
    BY <1>1, <2>1, <2>3, <2>4
<1>9. ChainOf(t)' /\ PushOf(t)'
  BY <1>1, <1>2, <1>5 DEF ChainOf, PushOf, Pushing, PendingChain, PendingJoin
<1>10. pc'[t] # "claiming"
  BY <1>2
<1> QED
  BY <1>1, <1>3, <1>4, <1>5, <1>6, <1>7, <1>8, <1>9, <1>10, Quiet

LEMMA ReadNextInv ==
  ASSUME PendingInv, NEW t \in Thread, Pending!Listing!ReadNext(t), UNCHANGED Pending!reclaim
  PROVE  PendingInv'
<1>1. /\ Pending!TypeOK /\ pc[t] = "reading" /\ pc' = [pc EXCEPT ![t] = "popping"]
      /\ nxt' = [nxt EXCEPT ![t] = next[node[t]]]
      /\ UNCHANGED <<head, data, next, allocated, node, sent, pops, result, order>>
      /\ UNCHANGED <<to_be_deleted, threads_in_pop, first, last, broken, pending, chain>>
  BY DEF PendingInv, Pending!Listing!ReadNext, Pending!Listing!Goto, Pending!reclaim
<1>2. \A u \in Thread : /\ pc'[u] = IF u = t THEN "popping" ELSE pc[u]
                        /\ nxt'[u] = IF u = t THEN next[node[t]] ELSE nxt[u]
  BY <1>1 DEF Pending!TypeOK
<1>3. Pending!TypeOK'
  <2>1. node[t] \in Node
    BY <1>1 DEF Pending!TypeOK
  <2> QED
    BY <1>1, <1>2, <2>1 DEF Pending!TypeOK
<1>4. Frame(t)
  BY <1>1, <1>2 DEF Frame
<1>5. chain[t] = <<>> /\ Pending!Owned(t) = {} /\ Licensed(t) = {}
  BY <1>1, OwnsNone DEF PendingOwning, PendingChain, PendingJoin
<1>6. Pending!Owned(t)' = {} /\ Licensed(t)' = {}
  <2>1. Pending!Owned(t)' = {}
    BY <1>2 DEF Pending!Owned
  <2> QED
    BY <2>1 DEF Licensed
<1>7. t \in Counted /\ t \in Counted'
  BY <1>1, <1>2 DEF Counted
<1>8. LookOf(t)'
  <2>1. LookOf(t) /\ Looking(t)
    BY <1>1 DEF PendingInv, Looking
  <2>2. \A u \in Thread \ {t} : Licensed(u)' = Licensed(u)
    BY <1>4, OthersKept
  <2> QED
    BY <1>1, <1>2, <2>1, <2>2 DEF LookOf
<1>9. ChainOf(t)' /\ PushOf(t)' /\ pc'[t] # "claiming"
  BY <1>1, <1>2, <1>5 DEF ChainOf, PushOf, Pushing, PendingChain, PendingJoin
<1> QED
  BY <1>1, <1>3, <1>4, <1>5, <1>6, <1>7, <1>8, <1>9, Quiet

(* The node that a pop takes is the top one, and it has its next. *)
LEMMA TopTaken ==
  ASSUME PendingInv, NEW t \in Thread, pc[t] = "popping", head = node[t]
  PROVE  /\ order \in Seq(Node) /\ order # <<>> /\ order[1] = node[t] /\ node[t] \in Node
         /\ nxt[t] = next[order[1]] /\ node[t] \in Range(order)
         /\ Tail(order) \in Seq(Node) /\ Range(Tail(order)) = Range(order) \ {node[t]}
         /\ Linked(nxt[t], next, Tail(order), Null)
         /\ nxt[t] \in Node \cup {Null}
<1>1. order \in Seq(Node) /\ Facts!Linked(head, next, order, Null) /\ node[t] \in Node
  BY DEF PendingInv, Pending!TypeOK, ListInv, Linked
<1>2. order # <<>> /\ order[1] = node[t] /\ node[t] \in Range(order)
  BY <1>1, HeadListed, Constants
<1>3. nxt[t] = next[order[1]]
  BY <1>2 DEF PendingInv, LookOf, Looking
<1>4. Tail(order) \in Seq(Node)
  BY <1>1, <1>2
<1>5. Facts!Linked(nxt[t], next, Tail(order), Null)
  BY <1>1, <1>2, <1>3, Facts!LinkedPop, Constants
<1>6. Range(Tail(order)) = Range(order) \ {node[t]}
  <2>1. Facts!NoTwice(order)
    BY <1>1 DEF Facts!Linked
  <2> QED
    BY <1>1, <1>2, <2>1, Facts!RangePop, Constants, Ranges
<1>7. nxt[t] \in Node \cup {Null}
  <2>1. Tail(order) # <<>> => Tail(order)[1] \in Node
    BY <1>4, RangeMembers
  <2> QED
    BY <1>5, <2>1 DEF Facts!Linked
<1> QED
  BY <1>1, <1>2, <1>3, <1>4, <1>5, <1>6, <1>7 DEF Linked

LEMMA PopTopInv ==
  ASSUME PendingInv, NEW t \in Thread, Pending!Listing!PopTop(t), UNCHANGED Pending!reclaim
  PROVE  PendingInv'
<1>1. /\ Pending!TypeOK /\ pc[t] = "popping" /\ pc' = [pc EXCEPT ![t] = "returning"]
      /\ head = node[t] /\ head' = nxt[t] /\ order' = Tail(order)
      /\ UNCHANGED <<data, next, allocated, node, nxt, sent, pops, result>>
      /\ UNCHANGED <<to_be_deleted, threads_in_pop, first, last, broken, pending, chain>>
  BY DEF PendingInv, Pending!Listing!PopTop, Pending!Listing!Goto, Pending!reclaim
<1>2. \A u \in Thread : pc'[u] = IF u = t THEN "returning" ELSE pc[u]
  BY <1>1 DEF Pending!TypeOK
<1>3. /\ order' \in Seq(Node) /\ Range(order') = Range(order) \ {node[t]}
      /\ node[t] \in Range(order) /\ node[t] \in Node /\ nxt[t] \in Node \cup {Null}
      /\ ListInv'
  BY <1>1, TopTaken DEF ListInv
<1>4. Pending!TypeOK'
  BY <1>1, <1>2, <1>3 DEF Pending!TypeOK
<1>5. Frame(t)
  BY <1>1, <1>2 DEF Frame
<1>6. chain[t] = <<>> /\ Range(chain[t]) = {} /\ Pending!Owned(t) = {} /\ Licensed(t) = {}
  BY <1>1, OwnsNone DEF PendingOwning, PendingChain, PendingJoin
<1>7. Pending!Owned(t)' = {node[t]} /\ Licensed(t)' = {}
  <2>1. Pending!Owned(t)' = ({node'[t]} \ {Null}) \cup Range(chain'[t])
    BY <1>2, Ranges DEF Pending!Owned
  <2> QED
    BY <1>1, <1>2, <1>3, <1>6, <2>1, Constants DEF Licensed, PendingChain, PendingJoin
<1>8. PendingPlaces'
  <2>1. Range(order) \cap Range(pending) = {} /\ Range(order) \subseteq allocated
        /\ Range(pending) \subseteq allocated
    BY OwnedNodes DEF PendingInv, PendingPlaces
  <2>2. Movable(t)' = Movable(t) /\ Movable(t) \subseteq allocated
    BY <1>1, <1>3, <1>6, <1>7, <2>1 DEF Movable
  <2>3. /\ Range(order') \cap Range(pending') = {} /\ allocated' = allocated
        /\ Pending!Owned(t)' \cap (Range(order') \cup Range(pending')) = {}
    BY <1>1, <1>3, <1>7, <2>1
  <2> QED
    BY <1>5, <2>2, <2>3, PlacesKept
<1>9. \E b \in 0 .. Wrap, q \in {Null, Wild} : PendingStart(b, q)'
  <2>1. t \in Counted /\ t \in Counted'
    BY <1>1, <1>2 DEF Counted
  <2> QED
    BY <1>1, <1>2, <1>5, <2>1, StartSame
<1>10. ChainOf(t)' /\ LookOf(t)' /\ PushOf(t)'
  BY <1>1, <1>2, <1>6 DEF ChainOf, LookOf, Looking, PushOf, Pushing, PendingChain, PendingJoin
<1>11. Range(order') \subseteq Range(order) \cup Licensed(t)
  BY <1>3
<1> QED
  BY <1>3, <1>4, <1>5, <1>7, <1>8, <1>9, <1>10, <1>11, Closing

LEMMA SwapDataInv ==
  ASSUME PendingInv, NEW t \in Thread, Pending!SwapData(t)
  PROVE  PendingInv'
<1>1. /\ Pending!TypeOK /\ pc[t] = "returning" /\ pc' = [pc EXCEPT ![t] = "checking"]
      /\ result' = [result EXCEPT ![t] = data[node[t]]]
      /\ data' = [data EXCEPT ![node[t]] = Nothing]
      /\ UNCHANGED <<head, next, allocated, node, nxt, sent, pops, order>>
      /\ UNCHANGED <<to_be_deleted, threads_in_pop, first, last, broken, pending, chain>>
  BY DEF PendingInv, Pending!SwapData, Pending!Goto, Pending!reclaim
<1>2. \A u \in Thread : pc'[u] = IF u = t THEN "checking" ELSE pc[u]
  BY <1>1 DEF Pending!TypeOK
<1>3. node[t] \in Node /\ Pending!Owned(t) = {node[t]} /\ chain[t] = <<>> /\ Range(chain[t]) = {}
  <2>1. node[t] \in Node
    BY <1>1 DEF Pending!TypeOK
  <2> QED
    BY <1>1, <2>1, OwnsNode, Constants
<1>4. Pending!TypeOK'
  <2>1. Nothing \in Pending!Listing!Answer
    BY DEF Pending!Listing!Answer
  <2> QED
    BY <1>1, <1>2, <1>3, <2>1 DEF Pending!TypeOK
<1>5. Frame(t)
  <2>1. \A n \in Node \ {node[t]} : data'[n] = data[n]
    BY <1>1 DEF Pending!TypeOK
  <2> QED
    BY <1>1, <1>2, <1>3, <2>1, OwnedNodes DEF Frame
<1>6. Pending!Owned(t)' = Pending!Owned(t) /\ Licensed(t)' = {}
  <2>1. Pending!Owned(t)' = Pending!Owned(t)
    BY <1>1, <1>2 DEF Pending!Owned
  <2> QED
    BY <1>2, <2>1 DEF Licensed, PendingChain, PendingJoin
<1>7. t \in Counted /\ t \in Counted'
  BY <1>1, <1>2 DEF Counted
<1>8. ChainOf(t)' /\ LookOf(t)' /\ PushOf(t)' /\ pc'[t] # "claiming"
  BY <1>1, <1>2, <1>3 DEF ChainOf, LookOf, Looking, PushOf, Pushing, PendingChain, PendingJoin
<1> QED
  BY <1>1, <1>4, <1>5, <1>6, <1>7, <1>8, Quiet

-----------------------------------------------------------------------------
(* The steps of try_reclaim *)

LEMMA Single ==
  ASSUME NEW N, NEW n \in N, NEW nx
  PROVE  /\ <<n>> \in Seq(N) /\ <<n>> # <<>> /\ Len(<<n>>) = 1 /\ <<n>>[1] = n
         /\ Range(<<n>>) = {n} /\ Linked(n, nx, <<n>>, nx[n])
<1> DEFINE o == <<n>>
<1>1. o \in Seq(N) /\ o # <<>> /\ Len(o) = 1 /\ o[1] = n /\ DOMAIN o = {1} /\ 1 .. Len(o) = {1}
  OBVIOUS
<1> HIDE DEF o
<1>2. Range(o) = {n}
  BY <1>1 DEF Range
<1>3. Linked(n, nx, o, nx[n])
  BY <1>1 DEF Linked, Facts!Linked, Facts!NoTwice
<1> QED
  BY <1>1, <1>2, <1>3 DEF o

LEMMA CheckCountInv ==
  ASSUME PendingInv, NEW t \in Thread, Pending!CheckCount(t)
  PROVE  PendingInv'
<1> DEFINE to == IF threads_in_pop = 1 THEN "claiming" ELSE "chaining"
           own == IF node[t] = Null THEN <<>> ELSE <<node[t]>>
<1>1. /\ Pending!TypeOK /\ pc[t] = "checking" /\ pc' = [pc EXCEPT ![t] = to]
      /\ first' = [first EXCEPT ![t] = node[t]] /\ last' = [last EXCEPT ![t] = node[t]]
      /\ chain' = [chain EXCEPT ![t] = own]
      /\ UNCHANGED <<head, data, node, nxt, sent, pops, result, order, broken>>
      /\ UNCHANGED <<next, allocated, to_be_deleted, threads_in_pop, pending>>
  BY DEF PendingInv, Pending!CheckCount, Pending!Goto, Pending!rest
<1>2. /\ node[t] \in Node \cup {Null} /\ own \in Seq(Node) /\ Range(own) = {node[t]} \ {Null}
      /\ node[t] # Null => /\ own # <<>> /\ own[Len(own)] = node[t]
                           /\ Linked(node[t], next, own, next[node[t]])
  <2>1. node[t] \in Node \cup {Null}
    BY <1>1 DEF Pending!TypeOK
  <2>2. CASE node[t] = Null
    BY <2>1, <2>2 DEF Range
  <2>3. CASE node[t] # Null
    <3>1. own = <<node[t]>> /\ node[t] \in Node
      BY <2>1, <2>3
    <3> QED
      BY <3>1, <2>3, Single
  <2> QED
    BY <2>1, <2>2, <2>3
<1>3. /\ pc'[t] = to /\ first'[t] = node[t] /\ last'[t] = node[t] /\ chain'[t] = own
      /\ node'[t] = node[t]
      /\ \A u \in Thread \ {t} :
           pc'[u] = pc[u] /\ first'[u] = first[u] /\ last'[u] = last[u] /\ chain'[u] = chain[u]
  BY <1>1 DEF Pending!TypeOK
<1> HIDE DEF own
<1>4. Pending!TypeOK'
  <2>1. node[t] \in Pending!Pointer
    BY <1>2, PendingPointers
  <2>2. /\ first' \in [Thread -> Pending!Pointer] /\ last' \in [Thread -> Pending!Pointer]
        /\ chain' \in [Thread -> Seq(Node)]
    BY <1>1, <1>2, <2>1 DEF Pending!TypeOK
  <2> QED
    BY <1>1, <1>3, <2>2 DEF Pending!TypeOK
<1>5. Frame(t)
  BY <1>1, <1>3 DEF Frame
<1>6. Pending!Owned(t) = {node[t]} \ {Null} /\ Pending!Owned(t)' = Pending!Owned(t)
  <2>1. Pending!Owned(t)' = ({node'[t]} \ {Null}) \cup Range(chain'[t])
    BY <1>3, Ranges DEF Pending!Owned
  <2> QED
    BY <1>1, <1>2, <1>3, <2>1, OwnsNode
<1>7. PendingPlaces' /\ ListInv'
  BY <1>1, <1>5, <1>6, PlacesSame, ListSame
<1>8. t \in Counted /\ Counted' = Counted
  <2>1. t \in Counted /\ t \in Counted'
    BY <1>1, <1>3 DEF Counted, PendingJoin
  <2> QED
    BY <1>5, <2>1, CountedKept
<1>9. ChainOf(t)' /\ LookOf(t)' /\ PushOf(t)'
  <2>1. pc'[t] \in {"claiming", "chaining"}
    BY <1>3
  <2>2. LookOf(t)' /\ PushOf(t)'
    BY <2>1 DEF LookOf, Looking, PushOf, Pushing
  <2>3. CASE node[t] = Null
    <3>1. own = <<>>
      BY <2>3 DEF own
    <3> QED
      BY <1>2, <1>3, <2>1, <2>2, <2>3, <3>1 DEF ChainOf, PendingChain, PendingJoin
  <2>4. CASE node[t] # Null
    <3>1. Linked(first'[t], next', chain'[t], next'[last'[t]])
      BY <1>1, <1>2, <1>3, <2>4
    <3> QED
      BY <1>1, <1>2, <1>3, <2>1, <2>2, <2>4, <3>1 DEF ChainOf, PendingChain, PendingJoin
  <2> QED
    BY <2>3, <2>4
<1>10. PICK b \in 0 .. Wrap, q \in {Null, Wild} : PendingStart(b, q)
  BY DEF PendingInv
<1>11. Linked(to_be_deleted', next', pending', q)
  BY <1>1, <1>10 DEF PendingStart
<1>12. CASE threads_in_pop = 1
  <2>1. b = 0 /\ Counted = {t}
    BY <1>8, <1>10, <1>12, CountOne
  <2>2. PendingStart(b, q)'
    BY <1>1, <1>8, <1>10, <1>11, <2>1 DEF PendingStart
  <2>3. \A u \in Thread \ {t} : ~Looking(u)
    BY <2>1 DEF Looking, Counted
  <2> QED
    BY <1>4, <1>5, <1>7, <1>9, <2>2, <2>3, Closing
<1>13. CASE threads_in_pop # 1
  <2>1. pc'[t] = "chaining"
    BY <1>3, <1>13
  <2>2. PendingStart(b, q)'
    BY <1>1, <1>3, <1>8, <1>10, <1>11, <2>1 DEF PendingStart
  <2>3. Licensed(t)' = {}
    BY <1>3, <2>1 DEF Licensed, PendingChain
  <2>4. Range(order') \subseteq Range(order) \cup Licensed(t)
    BY <1>1
  <2> QED
    BY <1>4, <1>5, <1>7, <1>9, <2>2, <2>3, <2>4, Closing
<1> QED
  BY <1>12, <1>13

LEMMA ClaimInv ==
  ASSUME PendingInv, NEW t \in Thread, Pending!Claim(t)
  PROVE  PendingInv'
<1>1. /\ Pending!TypeOK /\ pc[t] = "claiming" /\ pc' = [pc EXCEPT ![t] = "deciding"]
      /\ first' = [first EXCEPT ![t] = to_be_deleted] /\ last' = [last EXCEPT ![t] = to_be_deleted]
      /\ chain' = [chain EXCEPT ![t] = pending] /\ to_be_deleted' = Null /\ pending' = <<>>
      /\ UNCHANGED <<head, data, node, nxt, sent, pops, result, order, broken>>
      /\ UNCHANGED <<next, allocated, threads_in_pop>>
  BY DEF PendingInv, Pending!Claim, Pending!Goto, Pending!rest
<1>2. /\ pc'[t] = "deciding" /\ first'[t] = to_be_deleted /\ last'[t] = to_be_deleted
      /\ chain'[t] = pending /\ node'[t] = node[t]
      /\ \A u \in Thread \ {t} :
           pc'[u] = pc[u] /\ first'[u] = first[u] /\ last'[u] = last[u] /\ chain'[u] = chain[u]
  BY <1>1 DEF Pending!TypeOK
<1>3. Pending!TypeOK'
  <2>1. Null \in Pending!Pointer /\ <<>> \in Seq(Node)
    BY PendingPointers
  <2>2. /\ first' \in [Thread -> Pending!Pointer] /\ last' \in [Thread -> Pending!Pointer]
        /\ chain' \in [Thread -> Seq(Node)]
    BY <1>1 DEF Pending!TypeOK
  <2> QED
    BY <1>1, <1>2, <2>1, <2>2 DEF Pending!TypeOK
<1>4. Frame(t)
  BY <1>1, <1>2 DEF Frame
<1>5. Pending!Owned(t) = {node[t]} \ {Null} /\ Licensed(t) = {node[t]} \ {Null}
  BY <1>1, OwnsNode
<1>6. /\ Pending!Owned(t)' = ({node[t]} \ {Null}) \cup Range(pending)
      /\ Licensed(t)' \subseteq {node[t]} /\ Null \notin Range(pending)
      /\ Null \notin Licensed(t)'
  <2>1. Pending!Owned(t)' = ({node'[t]} \ {Null}) \cup Range(chain'[t])
    BY <1>2, Ranges DEF Pending!Owned
  <2>2. Range(pending) \subseteq Node
    BY OwnedNodes
  <2> QED
    BY <1>1, <1>2, <2>1, <2>2, Constants DEF Licensed
<1>7. Range(pending') = {}
  BY <1>1 DEF Range
<1>8. PendingPlaces'
  <2>1. /\ Range(order) \cap Range(pending) = {} /\ Range(order) \subseteq allocated
        /\ Range(pending) \subseteq allocated /\ Pending!Owned(t) \subseteq allocated
        /\ Pending!Owned(t) \cap (Range(order) \cup Range(pending)) = {}
    BY OwnedNodes DEF PendingInv, PendingPlaces
  <2>2. Movable(t)' = Movable(t) /\ Movable(t) \subseteq allocated
    BY <1>1, <1>5, <1>6, <1>7, <2>1 DEF Movable
  <2>3. /\ Range(order') \cap Range(pending') = {} /\ allocated' = allocated
        /\ Pending!Owned(t)' \cap (Range(order') \cup Range(pending')) = {}
    BY <1>1, <1>5, <1>6, <1>7, <2>1
  <2> QED
    BY <1>4, <2>2, <2>3, PlacesKept
<1>9. ListInv'
  BY <1>1, <1>4, ListSame
<1>10. PICK b \in 0 .. Wrap, q \in {Null, Wild} : PendingStart(b, q)
  BY DEF PendingInv
<1>11. q = Null /\ PendingStart(b, q)'
  <2>1. b = 0 /\ q = Null
    BY <1>1, <1>10 DEF PendingStart
  <2>2. Counted' = Counted
    <3>1. t \in Counted /\ t \in Counted'
      BY <1>1, <1>2 DEF Counted
    <3> QED
      BY <1>4, <3>1, CountedKept
  <2>3. Linked(to_be_deleted', next', pending', q)
    BY <1>1, <2>1 DEF Linked, Facts!Linked, Facts!NoTwice
  <2> QED
    BY <1>1, <1>10, <2>1, <2>2, <2>3 DEF PendingStart
<1>12. ChainOf(t)' /\ LookOf(t)' /\ PushOf(t)'
  <2>1. Linked(first'[t], next', chain'[t], Null)
    BY <1>1, <1>2, <1>10, <1>11 DEF PendingStart
  <2>2. node'[t] \notin Range(chain'[t])
    <3>1. Pending!Owned(t) \cap Range(pending) = {}
      BY DEF PendingInv, PendingPlaces
    <3> QED
      BY <1>2, <1>5, <1>6, <3>1
  <2> QED
    BY <1>2, <2>1, <2>2
    DEF ChainOf, LookOf, Looking, PushOf, Pushing, PendingChain, PendingJoin
<1>13. Licensed(t)' \subseteq Licensed(t) /\ Range(order') \subseteq Range(order) \cup Licensed(t)
  BY <1>1, <1>5, <1>6
<1> QED
  BY <1>3, <1>4, <1>8, <1>9, <1>11, <1>12, <1>13, Closing

(* A chain that its first pointer leads through to null. *)
LEMMA ChainStart ==
  ASSUME PendingInv, NEW t \in Thread, pc[t] \in PendingChain
  PROVE  /\ first[t] = Null => chain[t] = <<>>
         /\ first[t] # Null => /\ chain[t] # <<>> /\ first[t] = chain[t][1]
                               /\ first[t] \in Range(chain[t]) /\ first[t] \in Node
         /\ node[t] \notin Range(chain[t]) /\ chain[t] \in Seq(Node)
         /\ Linked(first[t], next, chain[t], Null)
<1>1. /\ chain[t] \in Seq(Node) /\ node[t] \notin Range(chain[t])
      /\ Linked(first[t], next, chain[t], Null)
  BY OwnedNodes DEF PendingInv, ChainOf
<1>2. /\ first[t] = Null => chain[t] = <<>>
      /\ first[t] # Null => /\ chain[t] # <<>> /\ first[t] = chain[t][1]
                            /\ first[t] \in Range(chain[t])
  BY <1>1, Facts!LinkedHead, Ranges, Constants DEF Linked
<1> QED
  BY <1>1, <1>2, RangeMembers

LEMMA DecideInv ==
  ASSUME PendingInv, NEW t \in Thread, Pending!Decide(t)
  PROVE  PendingInv'
<1> DEFINE left == (threads_in_pop + Wrap - 1) % Wrap
           to == IF left = 0 THEN "deleting"
                 ELSE IF first[t] # Null THEN "walking" ELSE "disposing"
<1>1. /\ Pending!TypeOK /\ pc[t] = "deciding" /\ pc' = [pc EXCEPT ![t] = to]
      /\ threads_in_pop' = left
      /\ UNCHANGED <<head, data, node, nxt, sent, pops, result, order, broken>>
      /\ UNCHANGED <<next, allocated, to_be_deleted, first, last, pending, chain>>
  BY DEF PendingInv, Pending!Decide, Pending!Goto, Pending!rest
<1>2. \A u \in Thread : pc'[u] = IF u = t THEN to ELSE pc[u]
  BY <1>1 DEF Pending!TypeOK
<1>3. Frame(t)
  BY <1>1, <1>2 DEF Frame
<1>4. t \in Counted /\ t \notin Counted'
  BY <1>1, <1>2 DEF Counted, PendingJoin
<1>5. /\ left = 0 => Counted = {t}
      /\ left \in 0 .. Wrap - 1
      /\ \E b \in 0 .. Wrap, q \in {Null, Wild} : PendingStart(b, q)'
  BY <1>1, <1>2, <1>3, <1>4, StartDown
<1> HIDE DEF left
<1>6. Pending!TypeOK'
  BY <1>1, <1>2, <1>5 DEF Pending!TypeOK
<1>7. Pending!Owned(t)' = Pending!Owned(t)
  BY <1>1, <1>2 DEF Pending!Owned
<1>8. PendingPlaces' /\ ListInv'
  BY <1>1, <1>3, <1>7, PlacesSame, ListSame
<1>9. ChainOf(t)' /\ LookOf(t)' /\ PushOf(t)'
  <2>1. ChainOf(t) /\ last[t] = first[t]
    BY <1>1 DEF PendingInv, ChainOf
  <2>2. pc[t] \in PendingChain
    BY <1>1 DEF PendingChain
  <2> QED
    BY <1>1, <1>2, <2>1, <2>2, ChainStart
    DEF ChainOf, LookOf, Looking, PushOf, Pushing, PendingChain, PendingJoin
<1>10. \/ \A u \in Thread \ {t} : ~Looking(u)
       \/ /\ Licensed(t)' \cap allocated \subseteq Licensed(t)
          /\ Range(order') \subseteq Range(order) \cup Licensed(t)
  <2>1. CASE left = 0
    BY <1>5, <2>1 DEF Looking, Counted
  <2>2. CASE left # 0
    <3>1. Licensed(t)' \subseteq Licensed(t)
      BY <1>1, <1>2, <1>7, <2>2 DEF Licensed, PendingChain
    <3> QED
      BY <1>1, <3>1
  <2> QED
    BY <2>1, <2>2
<1> QED
  BY <1>3, <1>5, <1>6, <1>8, <1>9, <1>10, Closing

LEMMA DeleteNodeInv ==
  ASSUME PendingInv, NEW t \in Thread, Pending!DeleteNode(t)
  PROVE  PendingInv'
<1>1. /\ Pending!TypeOK /\ pc[t] = "deleting" /\ pc[t] \in PendingChain
      /\ UNCHANGED <<head, data, node, nxt, sent, pops, result, order, broken>>
      /\ UNCHANGED <<next, to_be_deleted, threads_in_pop, last, pending>>
  BY DEF PendingInv, Pending!DeleteNode, Pending!rest, PendingChain
<1>2. CASE first[t] = Null
  <2>1. pc' = [pc EXCEPT ![t] = "disposing"] /\ UNCHANGED <<allocated, first, chain>>
    BY <1>2 DEF Pending!DeleteNode
  <2>2. \A u \in Thread : pc'[u] = IF u = t THEN "disposing" ELSE pc[u]
    BY <1>1, <2>1 DEF Pending!TypeOK
  <2>3. Pending!TypeOK' /\ Frame(t)
    BY <1>1, <2>1, <2>2 DEF Pending!TypeOK, Frame
  <2>4. Pending!Owned(t)' = Pending!Owned(t)
    BY <1>1, <2>1, <2>2 DEF Pending!Owned
  <2>5. Licensed(t)' \subseteq Licensed(t)
    BY <1>1, <2>4 DEF Licensed
  <2>6. t \notin Counted /\ t \notin Counted'
    BY <1>1, <2>2 DEF Counted, PendingJoin
  <2>7. ChainOf(t)' /\ LookOf(t)' /\ PushOf(t)' /\ pc'[t] # "claiming"
    BY <1>1, <1>2, <2>1, <2>2, ChainStart
    DEF ChainOf, LookOf, Looking, PushOf, Pushing, PendingChain, PendingJoin
  <2> QED
    BY <1>1, <2>1, <2>3, <2>4, <2>5, <2>6, <2>7, Quiet
<1>3. CASE first[t] # Null
  <2>1. /\ allocated' = allocated \ {first[t]} /\ first' = [first EXCEPT ![t] = next[first[t]]]
        /\ chain' = [chain EXCEPT ![t] = Tail(@)] /\ pc' = pc
    BY <1>3 DEF Pending!DeleteNode
  <2>2. /\ chain[t] # <<>> /\ first[t] = chain[t][1] /\ first[t] \in Range(chain[t])
        /\ first[t] \in Node /\ node[t] \notin Range(chain[t]) /\ chain[t] \in Seq(Node)
        /\ Facts!Linked(first[t], next, chain[t], Null)
    BY <1>1, <1>3, ChainStart DEF Linked
  <2>3. /\ Tail(chain[t]) \in Seq(Node) /\ Range(Tail(chain[t])) = Range(chain[t]) \ {first[t]}
        /\ Linked(next[first[t]], next, Tail(chain[t]), Null)
    <3>1. Facts!NoTwice(chain[t])
      BY <2>2 DEF Facts!Linked
    <3>2. Range(Tail(chain[t])) = Range(chain[t]) \ {first[t]}
      BY <2>2, <3>1, Facts!RangePop, Constants, Ranges
    <3> QED
      BY <2>2, <3>2, Facts!LinkedPop, Constants DEF Linked
  <2>4. /\ first'[t] = next[first[t]] /\ chain'[t] = Tail(chain[t])
        /\ next[first[t]] \in Pending!Pointer
        /\ \A u \in Thread \ {t} : first'[u] = first[u] /\ chain'[u] = chain[u]
    BY <1>1, <2>1, <2>2 DEF Pending!TypeOK
  <2>5. Pending!TypeOK'
    <3>1. first' \in [Thread -> Pending!Pointer] /\ chain' \in [Thread -> Seq(Node)]
      BY <1>1, <2>1, <2>3, <2>4 DEF Pending!TypeOK
    <3> QED
      BY <1>1, <2>1, <3>1 DEF Pending!TypeOK
  <2>6. /\ Pending!Owned(t) = ({node[t]} \ {Null}) \cup Range(chain[t])
        /\ Pending!Owned(t)' = Pending!Owned(t) \ {first[t]}
        /\ Licensed(t) = Pending!Owned(t) /\ Licensed(t)' \subseteq Licensed(t)
        /\ first[t] \in Pending!Owned(t)
    <3>1. Pending!Owned(t) = ({node[t]} \ {Null}) \cup Range(chain[t])
      BY <1>1, Ranges DEF Pending!Owned
    <3>2. Pending!Owned(t)' = ({node[t]} \ {Null}) \cup Range(Tail(chain[t]))
      BY <1>1, <2>1, <2>4, Ranges DEF Pending!Owned
    <3>3. Licensed(t) = Pending!Owned(t) /\ Licensed(t)' \subseteq Pending!Owned(t)'
      BY <1>1 DEF Licensed
    <3> QED
      BY <2>2, <2>3, <3>1, <3>2, <3>3
  <2>7. Frame(t)
    BY <1>1, <2>1, <2>4, <2>6 DEF Frame
  <2>8. PendingPlaces'
    <3>1. /\ Range(order) \cap Range(pending) = {} /\ Range(order) \subseteq allocated
          /\ Range(pending) \subseteq allocated /\ Pending!Owned(t) \subseteq allocated
          /\ Pending!Owned(t) \cap (Range(order) \cup Range(pending)) = {}
      BY OwnedNodes DEF PendingInv, PendingPlaces
    <3>2. Movable(t)' = Movable(t) \ {first[t]} /\ Movable(t) \subseteq allocated
          /\ first[t] \in Movable(t)
      BY <1>1, <2>6, <3>1 DEF Movable
    <3>3. /\ Range(order') \cap Range(pending') = {}
          /\ Pending!Owned(t)' \cap (Range(order') \cup Range(pending')) = {}
          /\ allocated' = (allocated \ Movable(t)) \cup Movable(t)'
      BY <1>1, <2>1, <2>6, <3>1, <3>2
    <3> QED
      BY <2>7, <3>2, <3>3, PlacesKept
  <2>9. ListInv' /\ \E b \in 0 .. Wrap, q \in {Null, Wild} : PendingStart(b, q)'
    <3>1. t \notin Counted /\ t \notin Counted' /\ pc'[t] # "claiming"
      BY <1>1, <2>1 DEF Counted, PendingJoin
    <3> QED
      BY <1>1, <2>7, <3>1, ListSame, StartSame
  <2>10. ChainOf(t)' /\ LookOf(t)' /\ PushOf(t)'
    BY <1>1, <2>1, <2>2, <2>3, <2>4
    DEF ChainOf, LookOf, Looking, PushOf, Pushing, PendingChain, PendingJoin
  <2>11. Range(order') \subseteq Range(order) \cup Licensed(t)
    BY <1>1
  <2> QED
    BY <2>5, <2>6, <2>7, <2>8, <2>9, <2>10, <2>11, Closing
<1> QED
  BY <1>2, <1>3

LEMMA WalkInv ==
  ASSUME PendingInv, NEW t \in Thread, Pending!Walk(t)
  PROVE  PendingInv'
<1>1. /\ Pending!TypeOK /\ pc[t] = "walking" /\ pc[t] \in PendingChain
      /\ UNCHANGED <<head, data, node, nxt, sent, pops, result, order, broken>>
      /\ UNCHANGED <<next, allocated, to_be_deleted, threads_in_pop, first, pending, chain>>
      /\ \/ next[last[t]] = Null /\ pc' = [pc EXCEPT ![t] = "chaining"] /\ last' = last
         \/ next[last[t]] # Null /\ pc' = pc /\ last' = [last EXCEPT ![t] = next[last[t]]]
  BY DEF PendingInv, Pending!Walk, Pending!rest, PendingChain
<1>2. /\ last[t] \in Range(chain[t]) /\ chain[t] \in Seq(Node) /\ chain[t] # <<>>
      /\ node[t] \notin Range(chain[t]) /\ first[t] \in Range(chain[t]) /\ last[t] \in Node
      /\ Linked(first[t], next, chain[t], Null)
      /\ next[last[t]] = Null => last[t] = chain[t][Len(chain[t])]
      /\ next[last[t]] # Null => next[last[t]] \in Range(chain[t])
  <2>1. last[t] \in Range(chain[t])
    BY <1>1 DEF PendingInv, ChainOf
  <2>2. chain[t] \in Seq(Node) /\ Linked(first[t], next, chain[t], Null)
    BY <1>1, ChainStart
  <2>3. chain[t] # <<>> /\ last[t] \in Node
    BY <2>1, <2>2, RangeMembers
  <2>4. node[t] \notin Range(chain[t]) /\ first[t] \in Range(chain[t])
    BY <1>1, <2>3, ChainStart
  <2> QED
    BY <2>1, <2>2, <2>3, <2>4, LinkedNext, Constants
<1>3. /\ \A u \in Thread : pc'[u] = IF u = t /\ next[last[t]] = Null THEN "chaining" ELSE pc[u]
      /\ \A u \in Thread :
           last'[u] = IF u = t /\ next[last[t]] # Null THEN next[last[t]] ELSE last[u]
  BY <1>1 DEF Pending!TypeOK
<1>4. Pending!TypeOK'
  <2>1. last' \in [Thread -> Pending!Pointer]
    BY <1>1, <1>2 DEF Pending!TypeOK
  <2> QED
    BY <1>1, <1>3, <2>1 DEF Pending!TypeOK
<1>5. Frame(t)
  BY <1>1, <1>3 DEF Frame
<1>6. Pending!Owned(t)' = Pending!Owned(t) /\ Licensed(t)' \subseteq Licensed(t)
  <2>1. Pending!Owned(t)' = Pending!Owned(t)
    BY <1>1, <1>3 DEF Pending!Owned
  <2> QED
    BY <1>1, <1>3, <2>1 DEF Licensed, PendingChain, PendingJoin
<1>7. t \notin Counted /\ t \notin Counted'
  BY <1>1, <1>2, <1>3 DEF Counted, PendingJoin
<1>8. LookOf(t)' /\ PushOf(t)' /\ pc'[t] # "claiming"
  BY <1>1, <1>3 DEF LookOf, Looking, PushOf, Pushing
<1>9. ChainOf(t)'
  <2>1. CASE next[last[t]] = Null
    <3>1. last[t] # Null /\ first[t] # node[t]
      BY <1>2, Constants
    <3> QED
      BY <1>1, <1>2, <1>3, <2>1, <3>1 DEF ChainOf, PendingChain, PendingJoin
  <2>2. CASE next[last[t]] # Null
    BY <1>1, <1>2, <1>3, <2>2 DEF ChainOf, PendingChain, PendingJoin
  <2> QED
    BY <2>1, <2>2
<1> QED
  BY <1>1, <1>4, <1>5, <1>6, <1>7, <1>8, <1>9, Quiet

(* A chain with nodes in it that is to be put before to_be_deleted. *)
LEMMA JoinFacts ==
  ASSUME PendingInv, NEW t \in Thread, pc[t] \in PendingJoin, last[t] # Null
  PROVE  /\ chain[t] \in Seq(Node) /\ chain[t] # <<>> /\ last[t] = chain[t][Len(chain[t])]
         /\ last[t] \in Range(chain[t]) /\ last[t] \in Node
         /\ Linked(first[t], next, chain[t], next[last[t]])
         /\ node[t] \in Range(chain[t]) <=> first[t] = node[t]
         /\ Pending!Owned(t) = ({node[t]} \ {Null}) \cup Range(chain[t])
         /\ Range(chain[t]) \subseteq Node
<1>1. ChainOf(t) /\ chain[t] \in Seq(Node)
      /\ Pending!Owned(t) = ({node[t]} \ {Null}) \cup Range(chain[t])
  BY OwnedNodes DEF PendingInv, PendingOwning
<1> QED
  BY <1>1, RangeMembers DEF ChainOf

LEMMA ChainInv ==
  ASSUME PendingInv, NEW t \in Thread, Pending!Chain(t), ~Pending!Misuses(t)
  PROVE  PendingInv'
<1>1. /\ Pending!TypeOK /\ pc[t] \in PendingJoin /\ pc' = [pc EXCEPT ![t] = "attaching"]
      /\ next' = [next EXCEPT ![last[t]] = to_be_deleted]
      /\ UNCHANGED <<head, data, node, nxt, sent, pops, result, order, broken>>
      /\ UNCHANGED <<allocated, to_be_deleted, threads_in_pop, first, last, pending, chain>>
  BY DEF PendingInv, Pending!Chain, Pending!rest, PendingJoin
<1>2. last[t] # Null
  <2>1. last[t] \in allocated
    BY <1>1 DEF Pending!Misuses, Pending!Used, PendingJoin
  <2> QED
    BY <1>1, <2>1, Constants DEF Pending!TypeOK
<1>3. /\ chain[t] \in Seq(Node) /\ chain[t] # <<>> /\ last[t] = chain[t][Len(chain[t])]
      /\ last[t] \in Range(chain[t]) /\ last[t] \in Node
      /\ Linked(first[t], next, chain[t], next[last[t]])
      /\ node[t] \in Range(chain[t]) <=> first[t] = node[t]
      /\ last[t] \in Pending!Owned(t)
  BY <1>1, <1>2, JoinFacts
<1>4. /\ \A u \in Thread : pc'[u] = IF u = t THEN "attaching" ELSE pc[u]
      /\ \A n \in Node \ {last[t]} : next'[n] = next[n]
      /\ next'[last[t]] = to_be_deleted /\ next' \in [Node -> Pending!Pointer]
  BY <1>1, <1>3 DEF Pending!TypeOK
<1>5. Pending!TypeOK'
  BY <1>1, <1>4 DEF Pending!TypeOK
<1>6. Frame(t)
  BY <1>1, <1>3, <1>4, OwnedNodes DEF Frame
<1>7. Pending!Owned(t)' = Pending!Owned(t) /\ Licensed(t)' \subseteq Licensed(t)
  <2>1. Pending!Owned(t)' = Pending!Owned(t)
    BY <1>1, <1>4 DEF Pending!Owned, PendingJoin
  <2> QED
    BY <1>1, <1>4, <2>1 DEF Licensed, PendingChain, PendingJoin
<1>8. t \in Counted' <=> t \in Counted
  BY <1>1, <1>4 DEF Counted, PendingJoin
<1>9. LookOf(t)' /\ PushOf(t)' /\ pc'[t] # "claiming"
  BY <1>4 DEF LookOf, Looking, PushOf, Pushing
<1>10. ChainOf(t)'
  <2>1. Linked(first[t], next', chain[t], to_be_deleted)
    BY <1>1, <1>3, LinkedLast DEF Pending!TypeOK
  <2> QED
    BY <1>1, <1>2, <1>3, <1>4, <2>1 DEF ChainOf, PendingChain, PendingJoin
<1> QED
  BY <1>1, <1>5, <1>6, <1>7, <1>8, <1>9, <1>10, Quiet

LEMMA AttachInv ==
  ASSUME PendingInv, NEW t \in Thread, Pending!Attach(t)
  PROVE  PendingInv'
<1> DEFINE to == IF first[t] = node[t] THEN "leaving" ELSE "disposing"
<1>1. /\ Pending!TypeOK /\ pc[t] = "attaching" /\ pc[t] \in PendingJoin
      /\ pc' = [pc EXCEPT ![t] = to] /\ to_be_deleted = next[last[t]]
      /\ to_be_deleted' = first[t] /\ pending' = chain[t] \o pending
      /\ chain' = [chain EXCEPT ![t] = <<>>]
      /\ UNCHANGED <<head, data, node, nxt, sent, pops, result, order, broken>>
      /\ UNCHANGED <<next, allocated, threads_in_pop, first, last>>
  BY DEF PendingInv, Pending!Attach, Pending!Goto, Pending!rest, PendingJoin
<1>2. last[t] # Null
  BY <1>1 DEF PendingInv, ChainOf
<1>3. /\ chain[t] \in Seq(Node) /\ chain[t] # <<>>
      /\ Linked(first[t], next, chain[t], to_be_deleted)
      /\ node[t] \in Range(chain[t]) <=> first[t] = node[t]
      /\ Pending!Owned(t) = ({node[t]} \ {Null}) \cup Range(chain[t])
      /\ Range(chain[t]) \subseteq Node
  BY <1>1, <1>2, JoinFacts
<1>4. /\ \A u \in Thread : pc'[u] = IF u = t THEN to ELSE pc[u]
      /\ chain'[t] = <<>> /\ \A u \in Thread \ {t} : chain'[u] = chain[u]
  BY <1>1 DEF Pending!TypeOK
<1>5. /\ Range(order) \cap Range(pending) = {} /\ Range(order) \subseteq allocated
      /\ Range(pending) \subseteq allocated /\ Pending!Owned(t) \subseteq allocated
      /\ Pending!Owned(t) \cap (Range(order) \cup Range(pending)) = {}
      /\ pending \in Seq(Node)
  BY OwnedNodes DEF PendingInv, PendingPlaces
<1>6. PICK b \in 0 .. Wrap, q \in {Null, Wild} : PendingStart(b, q)
  BY DEF PendingInv
<1>7. /\ pending' \in Seq(Node) /\ Range(pending') = Range(chain[t]) \cup Range(pending)
      /\ Linked(to_be_deleted', next', pending', q)
  <2>1. Linked(to_be_deleted, next, pending, q)
    BY <1>6 DEF PendingStart
  <2>2. Range(chain[t]) \cap Range(pending) = {}
    BY <1>3, <1>5
  <2> QED
    BY <1>1, <1>3, <1>5, <2>1, <2>2, LinkedConcat
<1>8. Pending!TypeOK'
  <2>1. chain' \in [Thread -> Seq(Node)]
    BY <1>1 DEF Pending!TypeOK
  <2>2. to_be_deleted' \in Pending!Pointer
    BY <1>1 DEF Pending!TypeOK
  <2> QED
    BY <1>1, <1>4, <1>7, <2>1, <2>2 DEF Pending!TypeOK
<1>9. Frame(t)
  BY <1>1, <1>4 DEF Frame
<1>10. /\ Pending!Owned(t)' = Pending!Owned(t) \ Range(chain[t])
       /\ Licensed(t)' \subseteq Licensed(t)
  <2>1. /\ Range(chain'[t]) = {}
        /\ node[t] \in Range(chain[t]) <=> first[t] = node[t]
    BY <1>3, <1>4 DEF Range
  <2>2. CASE first[t] = node[t]
    <3>1. Pending!Owned(t)' = {}
      BY <1>4, <2>2 DEF Pending!Owned
    <3>2. Pending!Owned(t) \ Range(chain[t]) = {}
      BY <1>3, <2>1, <2>2
    <3>3. Licensed(t)' = {}
      BY <3>1 DEF Licensed
    <3> QED
      BY <3>1, <3>2, <3>3
  <2>3. CASE first[t] # node[t]
    <3>1. Pending!Owned(t)' = {node[t]} \ {Null} /\ pc'[t] = "disposing"
      <4>1. pc'[t] = "disposing" /\ node'[t] = node[t]
        BY <1>1, <1>4, <2>3
      <4>2. Pending!Owned(t)' = ({node'[t]} \ {Null}) \cup Range(chain'[t])
        BY <4>1, Ranges DEF Pending!Owned
      <4> QED
        BY <2>1, <4>1, <4>2
    <3>2. Pending!Owned(t)' = Pending!Owned(t) \ Range(chain[t])
      BY <1>3, <2>1, <2>3, <3>1
    <3> QED
      BY <1>1, <2>3, <3>1, <3>2 DEF Licensed
  <2> QED
    BY <2>2, <2>3
<1>11. PendingPlaces'
  <2>1. Range(chain[t]) \subseteq Pending!Owned(t)
    BY <1>3
  <2>2. Movable(t)' = Movable(t) /\ Movable(t) \subseteq allocated
    BY <1>1, <1>5, <1>7, <1>10, <2>1 DEF Movable
  <2>3. /\ Range(order') \cap Range(pending') = {} /\ allocated' = allocated
        /\ Pending!Owned(t)' \cap (Range(order') \cup Range(pending')) = {}
    BY <1>1, <1>5, <1>7, <1>10, <2>1
  <2> QED
    BY <1>9, <2>2, <2>3, PlacesKept
<1>12. ListInv'
  BY <1>1, <1>9, ListSame
<1>13. PendingStart(b, q)'
  <2>1. Counted' = Counted
    <3>1. t \in Counted' <=> t \in Counted
      BY <1>1, <1>4 DEF Counted, PendingJoin
    <3> QED
      BY <1>9, <3>1, CountedKept
  <2> QED
    BY <1>1, <1>4, <1>6, <1>7, <2>1 DEF PendingStart
<1>14. ChainOf(t)' /\ LookOf(t)' /\ PushOf(t)'
  BY <1>4 DEF ChainOf, LookOf, Looking, PushOf, Pushing, PendingChain, PendingJoin
<1>15. Range(order') \subseteq Range(order) \cup Licensed(t)
  BY <1>1
<1> QED
  BY <1>8, <1>9, <1>10, <1>11, <1>12, <1>13, <1>14, <1>15, Closing

LEMMA LeaveInv ==
  ASSUME PendingInv, NEW t \in Thread, Pending!Leave(t)
  PROVE  PendingInv'
<1>1. /\ Pending!TypeOK /\ pc[t] = "leaving" /\ pc' = [pc EXCEPT ![t] = "idle"]
      /\ threads_in_pop' = (threads_in_pop + Wrap - 1) % Wrap
      /\ UNCHANGED <<head, data, node, nxt, sent, pops, result, order, broken>>
      /\ UNCHANGED <<next, allocated, to_be_deleted, first, last, pending, chain>>
  BY DEF PendingInv, Pending!Leave, Pending!Goto, Pending!rest
<1>2. \A u \in Thread : pc'[u] = IF u = t THEN "idle" ELSE pc[u]
  BY <1>1 DEF Pending!TypeOK
<1>3. Frame(t)
  BY <1>1, <1>2 DEF Frame
<1>4. t \in Counted /\ t \notin Counted'
  BY <1>1, <1>2 DEF Counted, PendingJoin
<1>5. /\ threads_in_pop' \in 0 .. Wrap - 1
      /\ \E b \in 0 .. Wrap, q \in {Null, Wild} : PendingStart(b, q)'
  BY <1>1, <1>2, <1>3, <1>4, StartDown
<1>6. Pending!TypeOK'
  BY <1>1, <1>2, <1>5 DEF Pending!TypeOK
<1>7. chain[t] = <<>> /\ Pending!Owned(t) = {}
  BY <1>1, OwnsNone DEF PendingOwning, PendingChain, PendingJoin
<1>8. Pending!Owned(t)' = {} /\ Licensed(t)' = {}
  BY <1>2 DEF Pending!Owned, Licensed
<1>9. PendingPlaces' /\ ListInv'
  BY <1>1, <1>3, <1>7, <1>8, PlacesSame, ListSame
<1>10. ChainOf(t)' /\ LookOf(t)' /\ PushOf(t)'
  BY <1>1, <1>2, <1>7 DEF ChainOf, LookOf, Looking, PushOf, Pushing, PendingChain, PendingJoin
<1>11. Range(order') \subseteq Range(order) \cup Licensed(t)
  BY <1>1
<1> QED
  BY <1>3, <1>5, <1>6, <1>8, <1>9, <1>10, <1>11, Closing

LEMMA DisposeInv ==
  ASSUME PendingInv, NEW t \in Thread, Pending!Dispose(t)
  PROVE  PendingInv'
<1>1. /\ Pending!TypeOK /\ pc[t] = "disposing" /\ pc' = [pc EXCEPT ![t] = "idle"]
      /\ allocated' = allocated \ {node[t]}
      /\ UNCHANGED <<head, data, node, nxt, sent, pops, result, order, broken>>
      /\ UNCHANGED <<next, to_be_deleted, threads_in_pop, first, last, pending, chain>>
  BY DEF PendingInv, Pending!Dispose, Pending!Goto, Pending!rest
<1>2. \A u \in Thread : pc'[u] = IF u = t THEN "idle" ELSE pc[u]
  BY <1>1 DEF Pending!TypeOK
<1>3. Pending!TypeOK'
  BY <1>1, <1>2 DEF Pending!TypeOK
<1>4. /\ Pending!Owned(t) = {node[t]} \ {Null} /\ Licensed(t) = {node[t]} \ {Null}
      /\ chain[t] = <<>>
  BY <1>1, OwnsNode
<1>5. Null \notin allocated
  BY <1>1, Constants DEF Pending!TypeOK
<1>6. Frame(t)
  BY <1>1, <1>2, <1>4, <1>5 DEF Frame
<1>7. Pending!Owned(t)' = {} /\ Licensed(t)' = {}
  BY <1>2 DEF Pending!Owned, Licensed
<1>8. PendingPlaces'
  <2>1. /\ Range(order) \cap Range(pending) = {} /\ Range(order) \subseteq allocated
        /\ Range(pending) \subseteq allocated /\ Pending!Owned(t) \subseteq allocated
        /\ Pending!Owned(t) \cap (Range(order) \cup Range(pending)) = {}
    BY OwnedNodes DEF PendingInv, PendingPlaces
  <2>2. /\ Movable(t) = Range(order) \cup Range(pending) \cup ({node[t]} \ {Null})
        /\ Movable(t)' = Range(order) \cup Range(pending)
        /\ node[t] \notin Range(order) \cup Range(pending) \/ node[t] = Null
    BY <1>1, <1>4, <1>7, <2>1 DEF Movable
  <2>3. allocated' = (allocated \ Movable(t)) \cup Movable(t)'
    BY <1>1, <1>5, <2>1, <2>2
  <2>4. /\ Movable(t)' \cap allocated \subseteq Movable(t)
        /\ Range(order') \cap Range(pending') = {}
    BY <1>1, <2>1, <2>2
  <2> QED
    BY <1>6, <1>7, <2>3, <2>4, PlacesKept
<1>9. ListInv' /\ \E b \in 0 .. Wrap, q \in {Null, Wild} : PendingStart(b, q)'
  <2>1. t \notin Counted /\ t \notin Counted'
    BY <1>1, <1>2 DEF Counted, PendingJoin
  <2> QED
    BY <1>1, <1>2, <1>6, <2>1, ListSame, StartSame
<1>10. ChainOf(t)' /\ LookOf(t)' /\ PushOf(t)'
  BY <1>1, <1>2, <1>4 DEF ChainOf, LookOf, Looking, PushOf, Pushing, PendingChain, PendingJoin
<1>11. Range(order') \subseteq Range(order) \cup Licensed(t)
  BY <1>1
<1> QED
  BY <1>3, <1>6, <1>7, <1>8, <1>9, <1>10, <1>11, Closing
-----------------------------------------------------------------------------
(* The items of the list *)

LEMMA ContentSame ==
  ASSUME order \in Seq(Node), order' = order, \A n \in Range(order) : data'[n] = data[n]
  PROVE  Content' = Content
<1>1. Facts!Items(data', order) = Facts!Items(data, order)
  BY Facts!ItemsSame, Ranges, Constants
<1> QED
  BY <1>1 DEF Content, Facts!Items

LEMMA ContentPush ==
  ASSUME order \in Seq(Node), NEW n \in Node, order' = <<n>> \o order, data' = data
  PROVE  Content' = <<data[n]>> \o Content
<1>1. Facts!Items(data, <<n>> \o order) = <<data[n]>> \o Facts!Items(data, order)
  BY Facts!ItemsPush, Constants
<1> QED
  BY <1>1 DEF Content, Facts!Items

LEMMA ContentPop ==
  ASSUME order \in Seq(Node), order # <<>>, order' = Tail(order), data' = data
  PROVE  Content # <<>> /\ Head(Content) = data[order[1]] /\ Content' = Tail(Content)
<1>1. /\ Facts!Items(data, order) # <<>> /\ Head(Facts!Items(data, order)) = data[order[1]]
      /\ Tail(Facts!Items(data, order)) = Facts!Items(data, Tail(order))
  BY Facts!ItemsPop, Constants
<1> QED
  BY <1>1 DEF Content, Facts!Items

LEMMA ContentEmpty == order = <<>> => Content = <<>>
BY DEF Content
-----------------------------------------------------------------------------
(* The invariant of 7.4, and what follows from it *)

LEMMA PendingInit == ASSUME Pending!Init PROVE PendingInv
<1>1. PICK s \in Starts : threads_in_pop = s[1] /\ to_be_deleted = s[2]
  BY DEF Pending!Init
<1>2. s = <<0, Null>> \/ s \in (1 .. Wrap - Cardinality(Thread)) \X {Null, Wild}
  BY StartsAssumption
<1>3. Cardinality(Thread) \in Nat /\ Wrap \in Nat \ {0} /\ Cardinality(Thread) <= Wrap
  BY StartsAssumption, FS_CardinalityType, Constants
<1>4. /\ s[1] \in 0 .. Wrap /\ s[2] \in {Null, Wild} /\ s[1] + Cardinality(Thread) <= Wrap
      /\ s[1] = 0 => s[2] = Null
  <2>1. CASE s = <<0, Null>>
    BY <1>3, <2>1
  <2>2. CASE s \in (1 .. Wrap - Cardinality(Thread)) \X {Null, Wild}
    <3>1. s[1] \in 1 .. Wrap - Cardinality(Thread) /\ s[2] \in {Null, Wild}
      BY <2>2
    <3> QED
      BY <1>3, <3>1
  <2> QED
    BY <1>2, <2>1, <2>2
<1>5. s[1] \in 0 .. Wrap - 1
  BY Constants, ConstantsAssumption DEF Pending!ConstantsAssumption
<1> USE DEF Pending!Init, Pending!Listing!Init
<1>6. Pending!TypeOK
  <2>1. 0 \in 0 .. MaxPush /\ 0 \in 0 .. MaxPop /\ <<>> \in Seq(Node)
    BY Constants
  <2>2. to_be_deleted \in Pending!Pointer /\ threads_in_pop \in 0 .. Wrap - 1
    BY <1>1, <1>4, <1>5, PendingPointers
  <2>3. Null \in Pending!Pointer /\ Nothing \in Pending!Listing!Answer
    BY PendingPointers DEF Pending!Listing!Answer
  <2> QED
    BY <2>1, <2>2, <2>3 DEF Pending!TypeOK
<1>7. Range(order) = {} /\ Range(pending) = {} /\ \A t \in Thread : Pending!Owned(t) = {}
  BY DEF Range, Pending!Owned
<1>8. PendingPlaces
  BY <1>7 DEF PendingPlaces
<1>9. ListInv /\ Linked(to_be_deleted, next, pending, s[2])
  BY <1>1 DEF ListInv, Linked, Facts!Linked, Facts!NoTwice
<1>10. \A t \in Thread : ChainOf(t) /\ LookOf(t) /\ PushOf(t)
  BY DEF ChainOf, LookOf, Looking, PushOf, Pushing, PendingChain, PendingJoin
<1>11. PendingStart(s[1], s[2])
  <2>1. Counted = {}
    BY DEF Counted, PendingJoin
  <2>2. Cardinality(Counted) = 0
    BY <2>1, FS_EmptySet
  <2>3. s[1] % Wrap = s[1]
    BY ONLY <1>3, <1>5, Modulo
  <2>4. s[1] + 0 = s[1] /\ s[1] \in Nat
    BY ONLY <1>3, <1>5
  <2> QED
    BY <1>1, <1>4, <1>9, <2>2, <2>3, <2>4 DEF PendingStart
<1> QED
  BY <1>4, <1>6, <1>8, <1>9, <1>10, <1>11 DEF PendingInv

(* Only TypeOK speaks of broken. *)
LEMMA PendingKept ==
  ASSUME PendingInv, broken' \in BOOLEAN,
         UNCHANGED <<stack, to_be_deleted, threads_in_pop, first, last, pending, chain>>
  PROVE  PendingInv'
<1> USE DEF stack
<1>1. Pending!TypeOK'
  BY DEF PendingInv, Pending!TypeOK
<1>2. \A t \in Thread : Pending!Owned(t)' = Pending!Owned(t) /\ Licensed(t)' = Licensed(t)
  BY DEF Pending!Owned, Licensed
<1>3. PendingPlaces'
  BY <1>2 DEF PendingInv, PendingPlaces
<1>4. ListInv'
  BY DEF PendingInv, ListInv
<1>5. ASSUME NEW t \in Thread
      PROVE  ChainOf(t)' /\ LookOf(t)' /\ PushOf(t)'
  <2>1. ChainOf(t) /\ LookOf(t) /\ PushOf(t)
    BY DEF PendingInv
  <2>2. ChainOf(t)'
    BY <2>1 DEF ChainOf
  <2>3. LookOf(t)'
    BY <1>2, <2>1 DEF LookOf, Looking
  <2>4. PushOf(t)'
    BY <2>1 DEF PushOf, Pushing
  <2> QED
    BY <2>2, <2>3, <2>4
<1>6. \E b \in 0 .. Wrap, q \in {Null, Wild} : PendingStart(b, q)'
  <2>1. PICK b \in 0 .. Wrap, q \in {Null, Wild} : PendingStart(b, q)
    BY DEF PendingInv
  <2>2. Counted' = Counted
    BY DEF Counted
  <2>3. PendingStart(b, q)'
    BY <2>1, <2>2 DEF PendingStart
  <2> QED
    BY <2>3
<1> QED
  BY <1>1, <1>3, <1>4, <1>5, <1>6 DEF PendingInv

LEMMA PendingNext ==
  ASSUME PendingInv, Pending!Next
  PROVE  PendingInv'
<1>1. PICK t \in Thread : Pending!Step(t)
  BY DEF Pending!Next
<1>2. CASE Pending!Misuses(t)
  <2>1. /\ UNCHANGED <<stack, to_be_deleted, threads_in_pop, first, last, pending, chain>>
        /\ broken' \in BOOLEAN
    BY <1>1, <1>2 DEF Pending!Step, Pending!Break, Pending!stack, stack
  <2> QED
    BY <2>1, PendingKept
<1>3. CASE ~Pending!Misuses(t)
  <2>1. Pending!push(t) \/ Pending!pop(t)
    BY <1>1, <1>3 DEF Pending!Step
  <2>2. CASE Pending!push(t)
    BY <2>2, AllocateInv, LinkInv, PublishInv DEF Pending!push, Pending!Listing!push
  <2>3. CASE Pending!pop(t)
    BY <1>3, <2>3, EnterInv, LoadHeadInv, ReadNextInv, PopTopInv, SwapDataInv, CheckCountInv,
       ClaimInv, DecideInv, DeleteNodeInv, WalkInv, ChainInv, AttachInv, LeaveInv, DisposeInv
    DEF Pending!pop, Pending!Take
  <2> QED
    BY <2>1, <2>2, <2>3
<1> QED
  BY <1>2, <1>3

LEMMA PendingNodes == ASSUME PendingInv PROVE Pending!EveryNodeHasOnePlace
<1> DEFINE listed == Range(order)
           waiting == Range(pending)
<1>1. PendingPlaces /\ ListInv
  BY DEF PendingInv
<1>2. allocated = listed \cup waiting \cup UNION {Pending!Owned(t) : t \in Thread}
  BY <1>1 DEF PendingPlaces
<1>3. \A p, o, q : Linked(p, next, o, q) => Pending!Leads(p, o, q)
  BY DEF Linked, Facts!Linked, Facts!NoTwice, Pending!Leads
<1>4. Pending!Leads(head, order, Null)
  BY <1>1, <1>3 DEF ListInv
<1>5. \E q \in {Null, Wild} : Pending!Leads(to_be_deleted, pending, q)
  BY <1>3 DEF PendingInv, PendingStart
<1>6. \A t \in Thread : pc[t] \in {"deciding", "deleting", "walking"} =>
        Pending!Leads(first[t], chain[t], Null)
  BY <1>3 DEF PendingInv, ChainOf, PendingChain
<1> QED
  BY <1>1, <1>2, <1>4, <1>5, <1>6, Ranges DEF PendingPlaces, Pending!EveryNodeHasOnePlace

LEMMA PendingMemory == ASSUME PendingInv PROVE Pending!OnlyNullMisused
<1> SUFFICES ASSUME NEW t \in Thread, ~(pc[t] = "chaining" /\ last[t] = Null)
             PROVE  Pending!Used(t) \subseteq allocated
  BY DEF Pending!OnlyNullMisused, Pending!Misuses
<1> USE DEF Pending!Used
<1>1. Pending!TypeOK /\ LookOf(t) /\ PushOf(t) /\ ChainOf(t)
  BY DEF PendingInv
<1>2. Pending!Owned(t) \subseteq allocated /\ Range(chain[t]) \subseteq allocated
  BY OwnedNodes
<1>3. CASE pc[t] \in {"linking", "publishing", "returning", "disposing"}
  <2>1. node[t] # Null => node[t] \in Pending!Owned(t)
    BY <1>3, OwnedNodes DEF PendingOwning
  <2>2. pc[t] # "disposing" => node[t] # Null
    BY <1>1, <1>3, Constants DEF Pending!TypeOK, PushOf, Pushing
  <2> QED
    BY <1>2, <1>3, <2>1, <2>2
<1>4. CASE pc[t] = "reading"
  BY <1>1, <1>4 DEF LookOf, Looking
<1>5. CASE pc[t] = "deleting"
  BY <1>2, <1>5, ChainStart DEF PendingChain
<1>6. CASE pc[t] = "walking"
  BY <1>1, <1>2, <1>6 DEF ChainOf
<1>7. CASE pc[t] \in PendingJoin
  <2>1. last[t] # Null
    BY <1>1, <1>7 DEF ChainOf, PendingJoin
  <2> QED
    BY <1>2, <1>7, <2>1, JoinFacts DEF PendingJoin
<1> QED
  BY <1>3, <1>4, <1>5, <1>6, <1>7 DEF PendingJoin

(* The pops of other threads go on returning what they have. *)
LEMMA PendingReturned ==
  ASSUME \A u \in Thread : /\ pc'[u] = "returning" <=> pc[u] = "returning"
                           /\ pc[u] = "returning" =>
                                node'[u] = node[u] /\ data'[node[u]] = data[node[u]],
         result' = result
  PROVE  Pending!Listing!Returned' = Pending!Listing!Returned
BY DEF Pending!Listing!Returned

LEMMA PendingPushes ==
  ASSUME PendingInv, NEW t \in Thread, Pending!Listing!Publish(t)
  PROVE  /\ sent[t] < MaxPush /\ sent' = [sent EXCEPT ![t] = @ + 1]
         /\ Content' = <<<<t, sent[t] + 1>>>> \o Content
         /\ Pending!Listing!Returned' = Pending!Listing!Returned
<1>1. /\ pc[t] = "publishing" /\ pc' = [pc EXCEPT ![t] = "idle"]
      /\ sent' = [sent EXCEPT ![t] = @ + 1] /\ order' = <<node[t]>> \o order
      /\ UNCHANGED <<data, node, result>>
  BY DEF Pending!Listing!Publish, Pending!Listing!Goto
<1>2. Pending!TypeOK /\ PushOf(t)
  BY DEF PendingInv
<1>3. node[t] \in Node /\ data[node[t]] = <<t, sent[t] + 1>> /\ sent[t] < MaxPush
      /\ order \in Seq(Node)
  BY <1>1, <1>2 DEF PushOf, Pushing, Pending!TypeOK
<1>4. Content' = <<data[node[t]]>> \o Content
  BY <1>1, <1>3, ContentPush
<1>5. Pending!Listing!Returned' = Pending!Listing!Returned
  BY <1>1, <1>2, PendingReturned DEF Pending!TypeOK
<1> QED
  BY <1>1, <1>3, <1>4, <1>5

LEMMA PendingPops ==
  ASSUME PendingInv, NEW t \in Thread, Pending!Listing!PopTop(t)
  PROVE  /\ Content # <<>> /\ Content' = Tail(Content) /\ sent' = sent
         /\ Pending!Listing!Returned' = [Pending!Listing!Returned EXCEPT ![t] = Head(Content)]
<1>1. /\ pc[t] = "popping" /\ pc' = [pc EXCEPT ![t] = "returning"] /\ head = node[t]
      /\ order' = Tail(order) /\ UNCHANGED <<data, node, sent, result>>
  BY DEF Pending!Listing!PopTop, Pending!Listing!Goto
<1>2. order \in Seq(Node) /\ order # <<>> /\ order[1] = node[t]
  BY <1>1, TopTaken
<1>3. Content # <<>> /\ Head(Content) = data[node[t]] /\ Content' = Tail(Content)
  BY <1>1, <1>2, ContentPop
<1>4. Pending!Listing!Returned' = [Pending!Listing!Returned EXCEPT ![t] = data[node[t]]]
  <2>1. \A u \in Thread : pc'[u] = IF u = t THEN "returning" ELSE pc[u]
    BY <1>1 DEF PendingInv, Pending!TypeOK
  <2> QED
    BY <1>1, <2>1 DEF Pending!Listing!Returned
<1> QED
  BY <1>1, <1>3, <1>4

LEMMA PendingLoads ==
  ASSUME PendingInv, NEW t \in Thread, Pending!LoadHead(t)
  PROVE  /\ Content' = Content /\ sent' = sent
         /\ \/ /\ Content = <<>>
               /\ Pending!Listing!Returned' = [Pending!Listing!Returned EXCEPT ![t] = Nothing]
            \/ Pending!Listing!Returned' = Pending!Listing!Returned
<1> USE DEF Pending!LoadHead, Pending!Examine
<1>1. Pending!TypeOK
  BY DEF PendingInv
<1>2. Content' = Content /\ sent' = sent
  BY DEF Content
<1>3. CASE head = Null
  <2>1. Content = <<>>
    BY <1>3, HeadListed, ContentEmpty
  <2>2. /\ \A u \in Thread : pc'[u] = IF u = t THEN "checking" ELSE pc[u]
        /\ \A u \in Thread : node'[u] = IF u = t THEN head ELSE node[u]
        /\ result' = [result EXCEPT ![t] = Nothing]
    BY <1>1, <1>3 DEF Pending!TypeOK
  <2>3. Pending!Listing!Returned' = [Pending!Listing!Returned EXCEPT ![t] = Nothing]
    BY <1>1, <2>2 DEF Pending!TypeOK, Pending!Listing!Returned
  <2> QED
    BY <1>2, <2>1, <2>3
<1>4. CASE head # Null
  <2>1. Pending!Listing!Returned' = Pending!Listing!Returned
    BY <1>1, <1>4, PendingReturned DEF Pending!TypeOK
  <2> QED
    BY <1>2, <2>1
<1> QED
  BY <1>3, <1>4

(* The node that is written is not in the list. *)
LEMMA PendingWrites ==
  ASSUME PendingInv, NEW t \in Thread, Pending!Listing!Allocate(t) \/ Pending!SwapData(t)
  PROVE  UNCHANGED <<Content, sent, Pending!Listing!Returned>>
<1>1. Pending!TypeOK
  BY DEF PendingInv
<1>2. \A u \in Thread : pc[u] = "returning" =>
        node[u] \in Node /\ node[u] \in Pending!Owned(u) /\ node[u] \in allocated
  <2> TAKE u \in Thread
  <2>1. pc[u] = "returning" => node[u] \in Node
    BY <1>1 DEF Pending!TypeOK
  <2> QED
    BY <2>1, OwnedNodes, Constants DEF PendingOwning
<1>3. CASE Pending!Listing!Allocate(t)
  <2>1. PICK n \in Node \ allocated :
          /\ data' = [data EXCEPT ![n] = <<t, sent[t] + 1>>] /\ node' = [node EXCEPT ![t] = n]
          /\ pc[t] = "idle" /\ pc' = [pc EXCEPT ![t] = "linking"]
          /\ UNCHANGED <<sent, order, result>>
    BY <1>3 DEF Pending!Listing!Allocate, Pending!Listing!Goto
  <2>2. \A m \in allocated : data'[m] = data[m]
    BY <1>1, <2>1 DEF Pending!TypeOK
  <2>3. Content' = Content
    BY <1>1, <2>1, <2>2, OwnedNodes, ContentSame DEF Pending!TypeOK
  <2>4. Pending!Listing!Returned' = Pending!Listing!Returned
    BY <1>1, <1>2, <2>1, <2>2, PendingReturned DEF Pending!TypeOK
  <2> QED
    BY <2>1, <2>3, <2>4
<1>4. CASE Pending!SwapData(t)
  <2>1. /\ pc[t] = "returning" /\ pc' = [pc EXCEPT ![t] = "checking"]
        /\ result' = [result EXCEPT ![t] = data[node[t]]]
        /\ data' = [data EXCEPT ![node[t]] = Nothing] /\ UNCHANGED <<sent, order, node>>
    BY <1>4 DEF Pending!SwapData, Pending!Goto
  <2>2. \A m \in Node \ {node[t]} : data'[m] = data[m]
    BY <1>1, <2>1 DEF Pending!TypeOK
  <2>3. Content' = Content
    <3>1. node[t] \notin Range(order) /\ Range(order) \subseteq Node /\ order \in Seq(Node)
      BY <1>2, <2>1, OwnedNodes DEF PendingInv, PendingPlaces
    <3> QED
      BY <2>1, <2>2, <3>1, ContentSame
  <2>4. \A u \in Thread \ {t} : pc[u] = "returning" => node[u] \in Node \ {node[t]}
    BY <1>2, <2>1 DEF PendingInv, PendingPlaces
  <2>5. Pending!Listing!Returned' = Pending!Listing!Returned
    <3>1. \A u \in Thread : Pending!Listing!Returned'[u] = Pending!Listing!Returned[u]
      <4> TAKE u \in Thread
      <4>1. CASE u = t
        BY <1>1, <2>1, <4>1 DEF Pending!TypeOK, Pending!Listing!Returned
      <4>2. CASE u # t
        BY <1>1, <2>1, <2>2, <2>4, <4>2 DEF Pending!TypeOK, Pending!Listing!Returned
      <4> QED
        BY <4>1, <4>2
    <3> QED
      BY <3>1 DEF Pending!Listing!Returned
  <2> QED
    BY <2>1, <2>3, <2>5
<1> QED
  BY <1>3, <1>4

LEMMA PendingStutters ==
  ASSUME PendingInv, NEW t \in Thread,
         \/ Pending!Listing!Link(t) \/ Pending!Listing!PublishFails(t)
         \/ Pending!Listing!ReadNext(t) \/ Pending!Enter(t) \/ Pending!CheckCount(t)
         \/ Pending!Claim(t) \/ Pending!Decide(t) \/ Pending!DeleteNode(t) \/ Pending!Walk(t)
         \/ Pending!Chain(t) \/ Pending!Attach(t) \/ Pending!Leave(t) \/ Pending!Dispose(t)
         \/ Pending!Break(t)
  PROVE  UNCHANGED <<Content, sent, Pending!Listing!Returned>>
<1> USE DEF Pending!Listing!Link, Pending!Listing!PublishFails, Pending!Listing!ReadNext,
            Pending!Enter, Pending!CheckCount, Pending!Claim, Pending!Decide, Pending!DeleteNode,
            Pending!Walk, Pending!Chain, Pending!Attach, Pending!Leave, Pending!Dispose,
            Pending!Break, Pending!stack, Pending!rest
<1>1. UNCHANGED <<data, order, sent, result, node>>
  OBVIOUS
<1>2. \A u \in Thread : pc'[u] = "returning" <=> pc[u] = "returning"
  BY DEF PendingInv, Pending!TypeOK, Pending!Goto, Pending!Listing!Goto
<1>3. Content' = Content
  BY <1>1 DEF Content
<1>4. Pending!Listing!Returned' = Pending!Listing!Returned
  BY <1>1, <1>2, PendingReturned
<1> QED
  BY <1>1, <1>3, <1>4

LEMMA PendingImplements ==
  ASSUME PendingInv, Pending!Next, program = "pending", program' = "pending"
  PROVE  Abstract!Next \/ UNCHANGED <<Content, sent, Returned>>
<1>1. PICK t \in Thread : Pending!push(t) \/ Pending!pop(t) \/ Pending!Break(t)
  BY DEF Pending!Next, Pending!Step
<1>2. /\ Returned = Pending!Listing!Returned /\ Returned' = Pending!Listing!Returned'
  BY DEF Returned
<1>3. CASE Pending!Listing!Publish(t)
  BY <1>2, <1>3, PendingPushes DEF Abstract!Push, Abstract!Next
<1>4. CASE Pending!Listing!PopTop(t)
  BY <1>2, <1>4, PendingPops DEF Abstract!Pop, Abstract!Next
<1>5. CASE Pending!LoadHead(t)
  BY <1>2, <1>5, PendingLoads DEF Abstract!PopNothing, Abstract!Next
<1>6. CASE Pending!Listing!Allocate(t) \/ Pending!SwapData(t)
  BY <1>2, <1>6, PendingWrites
<1>7. CASE /\ ~(\/ Pending!Listing!Publish(t) \/ Pending!Listing!PopTop(t)
                \/ Pending!LoadHead(t) \/ Pending!Listing!Allocate(t) \/ Pending!SwapData(t))
  <2>1. UNCHANGED <<Content, sent, Pending!Listing!Returned>>
    BY <1>1, <1>7, PendingStutters
    DEF Pending!push, Pending!Listing!push, Pending!pop, Pending!Take
  <2> QED
    BY <1>2, <2>1
<1> QED
  BY <1>3, <1>4, <1>5, <1>6, <1>7
-----------------------------------------------------------------------------
(* The stack of 7.6 *)

NodeOrNull == Node \cup {Null}

HazardTypes ==
  /\ head \in NodeOrNull
  /\ data \in [Node -> Hazards!Listing!Answer]
  /\ next \in [Node -> NodeOrNull]
  /\ allocated \subseteq Node
  /\ pc \in [Thread -> Hazards!Places]
  /\ node \in [Thread -> NodeOrNull] /\ nxt \in [Thread -> NodeOrNull]
  /\ temp \in [Thread -> NodeOrNull]
  /\ sent \in [Thread -> 0 .. MaxPush] /\ pops \in [Thread -> 0 .. MaxPop]
  /\ result \in [Thread -> Hazards!Listing!Answer]
  /\ order \in Seq(Node)
  /\ id \in [Hazards!Slot -> Thread \cup {NoThread}]
  /\ pointer \in [Hazards!Slot -> NodeOrNull]
  /\ hp \in [Thread -> Hazards!Slot \cup {Hazards!NoSlot}]

(* Where a thread has a slot, and where that slot may announce a node. *)
WithSlot ==
  {"loading", "announcing", "rereading", "reading", "popping", "returning", "clearing",
   "swapping", "deciding", "releasing"}

Announced == {"announcing", "rereading", "reading", "popping", "returning", "clearing"}

SlotInv ==
  /\ \A t \in Thread : hp[t] \in {Hazards!NoSlot, 1}
  /\ \A t \in Thread, i \in Hazards!Slot : hp[t] = i <=> id[i] = t
  /\ \A t \in Thread : pc[t] \in WithSlot => hp[t] = 1
  /\ \A t \in Thread : pc[t] # "reclaiming"
  /\ \A i \in Hazards!Slot :
       pointer[i] # Null => \E t \in Thread : hp[t] = i /\ pc[t] \in Announced

(* Where a thread has a node that is not in the list, as in Owned. *)
Holding == {"linking", "publishing", "returning", "swapping", "deciding", "reclaiming"}

(* EveryNodeHasOnePlace, node by node *)
HazardPlaces ==
  /\ \A n \in Node :
       n \in allocated <=>
         n \in Range(order) \/ \E t \in Thread : pc[t] \in Holding /\ node[t] = n
  /\ \A t \in Thread : pc[t] \in Holding => node[t] \in Node /\ node[t] \notin Range(order)
  /\ \A t, u \in Thread : t # u /\ pc[t] \in Holding /\ pc[u] \in Holding => node[t] # node[u]

(* The item of a push under way, and the node that a pop looks at. *)
HazardCalls ==
  \A t \in Thread :
    /\ Pushing(t) => data[node[t]] = <<t, sent[t] + 1>> /\ sent[t] < MaxPush
    /\ pc[t] \in {"reading", "popping"} => node[t] \in Range(order)
    /\ pc[t] = "popping" => nxt[t] = next[node[t]]

HazardInv == HazardTypes /\ SlotInv /\ HazardPlaces /\ HazardCalls /\ ListInv

LEMMA HazardInit == Hazards!Init => HazardInv
<1> SUFFICES ASSUME Hazards!Init PROVE HazardInv
  OBVIOUS
<1> USE Constants DEF Hazards!Init, Hazards!Listing!Init
<1>1. HazardTypes
  BY DEF HazardTypes, NodeOrNull, Hazards!Places, Hazards!Listing!Answer, Hazards!Listing!Item,
         Hazards!Slot, Hazards!NoSlot
<1>2. SlotInv
  BY DEF SlotInv, Hazards!Slot, Hazards!NoSlot, WithSlot
<1>3. Range(order) = {}
  BY DEF Range
<1>4. HazardPlaces /\ HazardCalls
  BY <1>3 DEF HazardPlaces, HazardCalls, Pushing, Holding
<1>5. ListInv
  BY DEF ListInv, Linked, Facts!Linked, Facts!NoTwice
<1> QED
  BY <1>1, <1>2, <1>4, <1>5 DEF HazardInv

-----------------------------------------------------------------------------
(* The slots *)

(* One thread has a slot, and only it can be in the loops of pop. *)
LEMMA Alone ==
  ASSUME SlotInv, NEW t \in Thread, NEW u \in Thread,
         hp[t] # Hazards!NoSlot, hp[u] # Hazards!NoSlot
  PROVE  t = u
BY Constants DEF SlotInv, Hazards!Slot, Hazards!NoSlot

(* Where the slots are left alone. *)
LEMMA QuietSlots ==
  ASSUME HazardTypes, SlotInv, NEW t \in Thread, NEW q, UNCHANGED Hazards!hazards,
         pc' = [pc EXCEPT ![t] = q],
         q \in WithSlot => hp[t] = 1,
         q # "reclaiming",
         pc[t] \in Announced => q \in Announced
  PROVE  SlotInv'
<1> USE DEF Hazards!hazards
<1>1. \A u \in Thread : pc'[u] = IF u = t THEN q ELSE pc[u]
  BY DEF HazardTypes
<1>2. \A i \in Hazards!Slot :
        pointer[i] # Null => \E u \in Thread : hp[u] = i /\ pc'[u] \in Announced
  BY <1>1 DEF SlotInv
<1> QED
  BY <1>1, <1>2 DEF SlotInv

(* All slots are clear when the only thread with a slot has cleared it. *)
LEMMA AllClear ==
  ASSUME SlotInv, NEW t \in Thread, hp[t] = 1, pc[t] \notin Announced
  PROVE  \A i \in Hazards!Slot : pointer[i] = Null
BY Alone DEF SlotInv, Hazards!Slot, Hazards!NoSlot

LEMMA NotOutstanding ==
  ASSUME HazardInv, NEW t \in Thread, pc[t] = "deciding"
  PROVE  ~Hazards!outstanding_hazard_pointers_for(node[t])
<1>1. \A i \in Hazards!Slot : pointer[i] = Null
  BY AllClear DEF HazardInv, SlotInv, WithSlot, Announced
<1>2. node[t] # Null
  BY Constants DEF HazardInv, HazardPlaces, Holding
<1> QED
  BY <1>1, <1>2 DEF Hazards!outstanding_hazard_pointers_for

LEMMA PushSlots ==
  ASSUME HazardInv, NEW t \in Thread, Hazards!push(t)
  PROVE  SlotInv'
<1> USE DEF Hazards!push, Hazards!Listing!push, Hazards!Listing!Allocate, Hazards!Listing!Link,
            Hazards!Listing!Publish, Hazards!Listing!PublishFails, Hazards!Listing!Goto
<1>1. PICK q \in {"idle", "linking", "publishing"} : pc' = [pc EXCEPT ![t] = q]
  BY DEF HazardInv, HazardTypes
<1>2. pc[t] \notin Announced /\ UNCHANGED Hazards!hazards
  BY DEF Announced
<1>3. q \notin WithSlot /\ q # "reclaiming"
  BY DEF WithSlot
<1> QED
  BY ONLY HazardInv, <1>1, <1>2, <1>3, QuietSlots DEF HazardInv

LEMMA PopSlots ==
  ASSUME HazardInv, NEW t \in Thread,
         \/ Hazards!BeginPop(t) \/ Hazards!Throw(t) \/ Hazards!LoadHead(t) \/ Hazards!Reread(t)
         \/ Hazards!Take(t) \/ Hazards!TakeFails(t) \/ Hazards!SwapData(t) \/ Hazards!Delete(t)
  PROVE  SlotInv'
<1>1. HazardTypes /\ SlotInv
  BY DEF HazardInv
<1>2. hp[t] # Hazards!NoSlot \/ pc[t] \in WithSlot => hp[t] = 1
  BY <1>1 DEF SlotInv
<1>3. UNCHANGED Hazards!hazards
  BY DEF Hazards!BeginPop, Hazards!Throw, Hazards!LoadHead, Hazards!Reread, Hazards!Take,
         Hazards!TakeFails, Hazards!SwapData, Hazards!Delete
<1>4. PICK q \in Hazards!Places :
        /\ pc' = [pc EXCEPT ![t] = q]
        /\ q \in WithSlot => hp[t] = 1
        /\ q # "reclaiming"
        /\ pc[t] \in Announced => q \in Announced
  <2> USE DEF Hazards!Places, WithSlot, Announced, Hazards!Goto
  <2>1. CASE Hazards!BeginPop(t)
    BY <1>2, <2>1 DEF Hazards!BeginPop
  <2>2. CASE Hazards!Throw(t)
    BY <2>2 DEF Hazards!Throw
  <2>3. CASE Hazards!LoadHead(t)
    BY <1>2, <2>3 DEF Hazards!LoadHead
  <2>4. CASE Hazards!Reread(t)
    BY <1>2, <2>4 DEF Hazards!Reread
  <2>5. CASE Hazards!Take(t)
    BY <1>2, <2>5
    DEF Hazards!Take, Hazards!Listing!ReadNext, Hazards!Listing!PopTop, Hazards!Listing!Goto
  <2>6. CASE Hazards!TakeFails(t)
    BY <1>2, <2>6 DEF Hazards!TakeFails
  <2>7. CASE Hazards!SwapData(t)
    BY <1>2, <2>7 DEF Hazards!SwapData
  <2>8. CASE Hazards!Delete(t)
    BY <2>8, NotOutstanding DEF Hazards!Delete
  <2> QED
    BY <2>1, <2>2, <2>3, <2>4, <2>5, <2>6, <2>7, <2>8
<1> QED
  BY <1>1, <1>3, <1>4, QuietSlots

(* The first slot is free when a thread takes it. *)
LEMMA OwnSlots ==
  ASSUME HazardInv, NEW t \in Thread, Hazards!Own(t)
  PROVE  SlotInv'
<1> USE DEF Hazards!Own, Hazards!TakeSlot, Hazards!Goto, HazardInv
<1>0. 1 \in Hazards!Slot /\ Hazards!NoSlot \notin Hazards!Slot
  BY Constants DEF Hazards!Slot, Hazards!NoSlot
<1>1. \A u \in Thread : hp[u] = Hazards!NoSlot
  BY <1>0, Constants DEF SlotInv
<1>2. /\ \A u \in Thread : hp'[u] = IF u = t THEN 1 ELSE Hazards!NoSlot
      /\ \A i \in Hazards!Slot : id'[i] = IF i = 1 THEN t ELSE id[i]
      /\ \A u \in Thread : pc'[u] = IF u = t THEN "loading" ELSE pc[u]
  BY <1>1 DEF HazardTypes
<1>3. \A u \in Thread, i \in Hazards!Slot : hp'[u] = i <=> id'[i] = u
  BY <1>0, <1>1, <1>2 DEF SlotInv
<1>4. \A i \in Hazards!Slot : pointer[i] = Null
  BY <1>0, <1>1 DEF SlotInv
<1> QED
  BY <1>0, <1>1, <1>2, <1>3, <1>4 DEF SlotInv, WithSlot

LEMMA AnnounceSlots ==
  ASSUME HazardInv, NEW t \in Thread, Hazards!Announce(t)
  PROVE  SlotInv'
<1> USE DEF Hazards!Announce, Hazards!Goto, HazardInv
<1>1. hp[t] = 1 /\ 1 \in Hazards!Slot
  BY Constants DEF SlotInv, WithSlot, Hazards!Slot
<1>2. /\ \A u \in Thread : pc'[u] = IF u = t THEN "rereading" ELSE pc[u]
      /\ \A i \in Hazards!Slot : pointer'[i] = IF i = 1 THEN node[t] ELSE pointer[i]
  BY <1>1 DEF HazardTypes
<1> QED
  BY <1>1, <1>2 DEF SlotInv, WithSlot, Announced

LEMMA ClearSlots ==
  ASSUME HazardInv, NEW t \in Thread, Hazards!ClearHazard(t) \/ Hazards!ClearOwned(t)
  PROVE  SlotInv'
<1> USE DEF HazardInv
<1>1. hp[t] = 1 /\ 1 \in Hazards!Slot
  BY Constants DEF SlotInv, WithSlot, Hazards!Slot, Hazards!ClearHazard, Hazards!ClearOwned
<1>2. /\ \E q \in {"swapping", "idle", "releasing"} : pc' = [pc EXCEPT ![t] = q]
      /\ pointer' = [pointer EXCEPT ![1] = Null]
      /\ UNCHANGED <<id, hp>>
  BY <1>1 DEF Hazards!ClearHazard, Hazards!ClearOwned, Hazards!Goto
<1>3. \A i \in Hazards!Slot : pointer'[i] = Null
  <2>1. \A i \in Hazards!Slot : i # 1 => pointer[i] = Null
    BY Constants DEF SlotInv, Hazards!Slot, Hazards!NoSlot
  <2> QED
    BY <1>2, <2>1 DEF HazardTypes
<1> QED
  BY <1>1, <1>2, <1>3 DEF HazardTypes, SlotInv, WithSlot

LEMMA ReleaseSlots ==
  ASSUME HazardInv, NEW t \in Thread, Hazards!Release(t)
  PROVE  SlotInv'
<1> USE DEF Hazards!Release, Hazards!Goto, HazardInv
<1>0. 1 \in Hazards!Slot /\ Hazards!NoSlot \notin Hazards!Slot
  BY Constants DEF Hazards!Slot, Hazards!NoSlot
<1>1. hp[t] = 1 /\ \A u \in Thread : u # t => hp[u] = Hazards!NoSlot
  BY Alone, <1>0 DEF SlotInv, WithSlot
<1>2. /\ \A u \in Thread : hp'[u] = Hazards!NoSlot
      /\ \A i \in Hazards!Slot : id'[i] = IF i = 1 THEN NoThread ELSE id[i]
      /\ \A u \in Thread : pc'[u] = IF u = t THEN "ended" ELSE pc[u]
  BY <1>1 DEF HazardTypes
<1>3. \A u \in Thread, i \in Hazards!Slot : hp'[u] = i <=> id'[i] = u
  BY <1>0, <1>1, <1>2, Constants DEF SlotInv
<1>4. \A i \in Hazards!Slot : pointer[i] = Null
  BY AllClear, <1>1 DEF Announced
<1>5. \A u \in Thread : u # t => pc[u] \notin WithSlot
  BY <1>0, <1>1 DEF SlotInv
<1> QED
  BY <1>0, <1>2, <1>3, <1>4, <1>5 DEF SlotInv, WithSlot

-----------------------------------------------------------------------------
(* The nodes and the list *)

(* At most one thread pops. *)
LEMMA OneInLoop ==
  ASSUME HazardInv, NEW t \in Thread, NEW u \in Thread,
         pc[t] \in WithSlot, pc[u] \in WithSlot
  PROVE  t = u
BY Alone DEF HazardInv, SlotInv, Hazards!NoSlot

(* Where neither the list nor a node in somebody's hands is touched. *)
LEMMA QuietList ==
  ASSUME HazardInv, NEW t \in Thread, NEW q,
         UNCHANGED <<head, data, next, allocated, sent, order, nxt>>,
         pc' = [pc EXCEPT ![t] = q], pc[t] \notin Holding, q \notin Holding,
         \A u \in Thread : u # t => node'[u] = node[u],
         q = "reading" => node'[t] \in Range(order), q # "popping"
  PROVE  HazardPlaces' /\ HazardCalls' /\ ListInv'
<1>1. \A u \in Thread : pc'[u] = IF u = t THEN q ELSE pc[u]
  BY DEF HazardInv, HazardTypes
<1>2. HazardPlaces'
  BY <1>1 DEF HazardInv, HazardPlaces
<1>3. HazardCalls'
  BY <1>1 DEF HazardInv, HazardCalls, Pushing, Holding
<1>4. ListInv'
  BY DEF HazardInv, ListInv
<1> QED
  BY <1>2, <1>3, <1>4

LEMMA HazardHead ==
  ASSUME HazardInv
  PROVE  /\ head = Null => order = <<>>
         /\ head # Null => order # <<>> /\ head = order[1] /\ head \in Range(order)
BY Facts!LinkedHead, Constants, Ranges DEF HazardInv, HazardTypes, ListInv, Linked

LEMMA QuietSteps ==
  ASSUME HazardInv, NEW t \in Thread,
         \/ Hazards!BeginPop(t) \/ Hazards!Own(t) \/ Hazards!Throw(t)
         \/ Hazards!ClearOwned(t) \/ Hazards!Release(t)
         \/ Hazards!LoadHead(t) \/ Hazards!Announce(t) \/ Hazards!Reread(t) \/ Hazards!TakeFails(t)
         \/ (pc[t] = "clearing" /\ Hazards!ClearHazard(t))
  PROVE  HazardPlaces' /\ HazardCalls' /\ ListInv'
<1>1. /\ UNCHANGED <<head, data, next, allocated, sent, order, nxt>>
      /\ \A u \in Thread : u # t => node'[u] = node[u]
  BY DEF HazardInv, HazardTypes, Hazards!BeginPop, Hazards!Own, Hazards!TakeSlot, Hazards!Throw,
         Hazards!ClearOwned, Hazards!Release, Hazards!LoadHead, Hazards!Announce, Hazards!Reread,
         Hazards!TakeFails, Hazards!ClearHazard
<1>2. PICK q \in Hazards!Places :
        /\ pc' = [pc EXCEPT ![t] = q] /\ pc[t] \notin Holding /\ q \notin Holding
        /\ q = "reading" => node'[t] \in Range(order)
        /\ q # "popping"
  <2> USE DEF Hazards!Places, Holding, Hazards!Goto
  <2>1. CASE Hazards!BeginPop(t)
    BY <2>1 DEF Hazards!BeginPop
  <2>2. CASE Hazards!Own(t) \/ Hazards!Throw(t) \/ Hazards!ClearOwned(t) \/ Hazards!Release(t)
    BY <2>2 DEF Hazards!Own, Hazards!TakeSlot, Hazards!Throw, Hazards!ClearOwned, Hazards!Release
  <2>3. CASE Hazards!LoadHead(t) \/ Hazards!Announce(t) \/ Hazards!TakeFails(t)
    BY <2>3 DEF Hazards!LoadHead, Hazards!Announce, Hazards!TakeFails
  <2>4. CASE Hazards!Reread(t)
    BY <2>4, HazardHead DEF Hazards!Reread, HazardInv, HazardTypes
  <2>5. CASE pc[t] = "clearing" /\ Hazards!ClearHazard(t)
    BY <2>5 DEF Hazards!ClearHazard
  <2> QED
    BY <2>1, <2>2, <2>3, <2>4, <2>5
<1> QED
  BY <1>1, <1>2, QuietList

LEMMA HazardAllocate ==
  ASSUME HazardInv, NEW t \in Thread, Hazards!Listing!Allocate(t), UNCHANGED Hazards!hazards
  PROVE  HazardPlaces' /\ HazardCalls' /\ ListInv'
<1> USE DEF Hazards!Listing!Allocate, Hazards!Listing!Goto
<1>1. PICK n \in Node \ allocated :
        /\ allocated' = allocated \cup {n}
        /\ data' = [data EXCEPT ![n] = <<t, sent[t] + 1>>]
        /\ next' = [next EXCEPT ![n] = Null]
        /\ node' = [node EXCEPT ![t] = n]
  OBVIOUS
<1>2. /\ n \notin Range(order)
      /\ \A u \in Thread : pc[u] \in Holding => node[u] # n
  BY DEF HazardInv, HazardPlaces
<1>3. \A u \in Thread : /\ pc'[u] = IF u = t THEN "linking" ELSE pc[u]
                        /\ node'[u] = IF u = t THEN n ELSE node[u]
  BY <1>1 DEF HazardInv, HazardTypes
<1>4. pc[t] = "idle" /\ pc[t] \notin Holding
  BY DEF Holding
<1>5. HazardPlaces'
  <2>1. \A m \in Node :
          m \in allocated' <=>
            m \in Range(order) \/ \E u \in Thread : pc'[u] \in Holding /\ node'[u] = m
    BY <1>1, <1>3, <1>4 DEF HazardInv, HazardPlaces, Holding
  <2>2. \A u \in Thread : pc'[u] \in Holding => node'[u] \in Node /\ node'[u] \notin Range(order)
    BY <1>2, <1>3 DEF HazardInv, HazardPlaces
  <2>3. \A u, v \in Thread :
          u # v /\ pc'[u] \in Holding /\ pc'[v] \in Holding => node'[u] # node'[v]
    BY <1>2, <1>3 DEF HazardInv, HazardPlaces
  <2> QED
    BY <2>1, <2>2, <2>3 DEF HazardPlaces
<1>6. HazardCalls'
  <2> SUFFICES ASSUME NEW u \in Thread
               PROVE  /\ Pushing(u)' => data'[node'[u]] = <<u, sent[u] + 1>> /\ sent[u] < MaxPush
                      /\ pc'[u] \in {"reading", "popping"} => node'[u] \in Range(order)
                      /\ pc'[u] = "popping" => nxt[u] = next'[node'[u]]
    BY DEF HazardCalls
  <2>1. CASE u = t
    BY <1>1, <1>3, <2>1 DEF HazardInv, HazardTypes, Pushing
  <2>2. CASE u # t
    <3>1. pc'[u] = pc[u] /\ node'[u] = node[u]
      BY <1>3, <2>2
    <3>2. Pushing(u) => node[u] \in Node /\ node[u] # n
      BY <1>2 DEF HazardInv, HazardPlaces, Pushing, Holding
    <3>3. Pushing(u) => data'[node[u]] = data[node[u]]
      BY <1>1, <3>2 DEF HazardInv, HazardTypes
    <3>4. node[u] \in Range(order) => next'[node[u]] = next[node[u]]
      BY <1>1, <1>2 DEF HazardInv, HazardTypes, Range
    <3> QED
      BY <3>1, <3>3, <3>4 DEF HazardInv, HazardCalls, Pushing
  <2> QED
    BY <2>1, <2>2
<1>7. ListInv'
  <2>1. n \notin Facts!Range(order)
    BY <1>2, Constants, Ranges
  <2> QED
    BY <1>1, <1>2, <2>1, Facts!LinkedElsewhere, Constants, Ranges
    DEF HazardInv, HazardTypes, ListInv, Linked
<1> QED
  BY <1>5, <1>6, <1>7

LEMMA HazardLink ==
  ASSUME HazardInv, NEW t \in Thread, Hazards!Listing!Link(t) \/ Hazards!Listing!PublishFails(t)
  PROVE  HazardPlaces' /\ HazardCalls' /\ ListInv'
<1>0. /\ pc[t] \in Holding /\ Pushing(t)
      /\ pc' = [pc EXCEPT ![t] = "publishing"]
      /\ next' = [next EXCEPT ![node[t]] = head]
      /\ UNCHANGED <<head, data, allocated, node, nxt, sent, order>>
  BY DEF HazardInv, HazardTypes, Hazards!Listing!Link, Hazards!Listing!PublishFails,
         Hazards!Listing!Goto, Pushing, Holding
<1>1. \A u \in Thread : pc'[u] = IF u = t THEN "publishing" ELSE pc[u]
  BY <1>0 DEF HazardInv, HazardTypes
<1>2. node[t] \in Node /\ node[t] \notin Range(order)
  BY <1>0 DEF HazardInv, HazardPlaces
<1>3. HazardPlaces'
  BY <1>0, <1>1 DEF HazardInv, HazardPlaces, Holding
<1>4. HazardCalls'
  <2>1. \A n \in Range(order) : next'[n] = next[n]
    BY <1>0, <1>2 DEF HazardInv, HazardTypes, Range
  <2> SUFFICES ASSUME NEW u \in Thread
               PROVE  /\ Pushing(u)' => data[node[u]] = <<u, sent[u] + 1>> /\ sent[u] < MaxPush
                      /\ pc'[u] \in {"reading", "popping"} => node[u] \in Range(order)
                      /\ pc'[u] = "popping" => nxt[u] = next'[node[u]]
    BY <1>0 DEF HazardCalls
  <2>2. /\ Pushing(u)' => Pushing(u)
        /\ pc'[u] \in {"reading", "popping"} => pc'[u] = pc[u]
    BY <1>0, <1>1 DEF Pushing
  <2>3. HazardCalls
    BY DEF HazardInv
  <2> QED
    BY ONLY <1>0, <2>1, <2>2, <2>3 DEF HazardCalls
<1>5. ListInv'
  <2>1. node[t] \notin Facts!Range(order)
    BY <1>2, Constants, Ranges
  <2> QED
    BY <1>0, <1>2, <2>1, Facts!LinkedElsewhere, Constants, Ranges
    DEF HazardInv, HazardTypes, ListInv, Linked
<1> QED
  BY <1>3, <1>4, <1>5

LEMMA HazardPublish ==
  ASSUME HazardInv, NEW t \in Thread, Hazards!Listing!Publish(t)
  PROVE  HazardPlaces' /\ HazardCalls' /\ ListInv'
<1> USE DEF Hazards!Listing!Publish, Hazards!Listing!Goto
<1>1. \A u \in Thread : pc'[u] = IF u = t THEN "idle" ELSE pc[u]
  BY DEF HazardInv, HazardTypes
<1>2. node[t] \in Node /\ node[t] \notin Range(order) /\ pc[t] \in Holding
  BY DEF HazardInv, HazardPlaces, Holding
<1>3. Range(order') = {node[t]} \cup Range(order)
  BY <1>2, Facts!RangePush, Constants, Ranges DEF HazardInv, HazardTypes
<1>4. HazardPlaces'
  <2>1. \A m \in Node :
          m \in allocated <=>
            m \in Range(order') \/ \E u \in Thread : pc'[u] \in Holding /\ node[u] = m
    BY <1>1, <1>2, <1>3 DEF HazardInv, HazardPlaces, Holding
  <2>2. \A u \in Thread : pc'[u] \in Holding => u # t /\ pc[u] \in Holding
    BY <1>1 DEF Holding
  <2>3. \A u \in Thread : pc'[u] \in Holding => node[u] \in Node /\ node[u] \notin Range(order')
    BY <1>2, <1>3, <2>2 DEF HazardInv, HazardPlaces
  <2>4. \A u, v \in Thread :
          u # v /\ pc'[u] \in Holding /\ pc'[v] \in Holding => node[u] # node[v]
    BY <2>2 DEF HazardInv, HazardPlaces
  <2> QED
    BY <2>1, <2>3, <2>4 DEF HazardPlaces
<1>5. HazardCalls'
  <2>1. \A u \in Thread : u # t => sent'[u] = sent[u]
    BY DEF HazardInv, HazardTypes
  <2>2. \A u \in Thread : /\ Pushing(u)' => Pushing(u) /\ u # t
                          /\ pc'[u] \in {"reading", "popping"} => pc'[u] = pc[u]
    BY <1>1 DEF Pushing
  <2>3. HazardCalls /\ Range(order) \subseteq Range(order')
    BY <1>3 DEF HazardInv
  <2>4. UNCHANGED <<data, next, node, nxt>>
    OBVIOUS
  <2> QED
    BY ONLY <2>1, <2>2, <2>3, <2>4 DEF HazardCalls
<1>6. ListInv'
  BY <1>2, Facts!LinkedPush, Constants, Ranges DEF HazardInv, HazardTypes, ListInv, Linked
<1> QED
  BY <1>4, <1>5, <1>6

LEMMA HazardReadNext ==
  ASSUME HazardInv, NEW t \in Thread, Hazards!Listing!ReadNext(t)
  PROVE  HazardPlaces' /\ HazardCalls' /\ ListInv'
<1> USE DEF Hazards!Listing!ReadNext, Hazards!Listing!Goto
<1>1. \A u \in Thread : /\ pc'[u] = IF u = t THEN "popping" ELSE pc[u]
                        /\ nxt'[u] = IF u = t THEN next[node[t]] ELSE nxt[u]
  BY DEF HazardInv, HazardTypes
<1>2. HazardPlaces'
  BY <1>1 DEF HazardInv, HazardPlaces, Holding
<1>3. HazardCalls'
  BY <1>1 DEF HazardInv, HazardCalls, Pushing
<1>4. ListInv'
  BY DEF HazardInv, ListInv
<1> QED
  BY <1>2, <1>3, <1>4

(* The node that a pop takes is the top one, and nobody else looks at it. *)
LEMMA HazardTop ==
  ASSUME HazardInv, NEW t \in Thread, Hazards!Listing!PopTop(t)
  PROVE  /\ order # <<>> /\ order[1] = node[t] /\ node[t] \in Node
         /\ nxt[t] = next[order[1]]
         /\ Range(order') = Range(order) \ {node[t]}
         /\ node[t] \in Range(order)
<1> USE DEF Hazards!Listing!PopTop, Hazards!Listing!Goto
<1>1. node[t] \in Range(order) /\ nxt[t] = next[node[t]]
  BY DEF HazardInv, HazardCalls
<1>2. node[t] \in Node
  BY <1>1 DEF HazardInv, HazardTypes, Range
<1>3. order # <<>> /\ order[1] = node[t]
  BY <1>2, HazardHead, Constants
<1>4. Range(order') = Range(order) \ {node[t]}
  BY <1>3, Facts!RangePop, Constants, Ranges
  DEF HazardInv, HazardTypes, ListInv, Facts!Linked, Linked
<1> QED
  BY <1>1, <1>2, <1>3, <1>4

LEMMA HazardPopTop ==
  ASSUME HazardInv, NEW t \in Thread, Hazards!Listing!PopTop(t)
  PROVE  HazardPlaces' /\ HazardCalls' /\ ListInv'
<1> USE DEF Hazards!Listing!PopTop, Hazards!Listing!Goto
<1>1. \A u \in Thread : pc'[u] = IF u = t THEN "returning" ELSE pc[u]
  BY DEF HazardInv, HazardTypes
<1>2. HazardPlaces'
  <2> DEFINE R == Range(order)
  <2>1. Range(order') = R \ {node[t]} /\ node[t] \in R /\ node[t] \in Node
    BY HazardTop
  <2>2. \A u \in Thread : pc'[u] \in Holding => u = t \/ pc[u] \in Holding
    BY <1>1
  <2>3. pc[t] \notin Holding /\ pc'[t] \in Holding
    BY <1>1 DEF Holding
  <2>4. HazardPlaces
    BY DEF HazardInv
  <2>5. \A m \in Node :
          m \in allocated <=>
            m \in Range(order') \/ \E u \in Thread : pc'[u] \in Holding /\ node[u] = m
    BY ONLY <1>1, <2>1, <2>2, <2>3, <2>4 DEF HazardPlaces
  <2>6. \A u \in Thread : pc'[u] \in Holding => node[u] \in Node /\ node[u] \notin Range(order')
    BY ONLY <2>1, <2>2, <2>4 DEF HazardPlaces
  <2>7. \A u, v \in Thread :
          u # v /\ pc'[u] \in Holding /\ pc'[v] \in Holding => node[u] # node[v]
    BY ONLY <2>1, <2>2, <2>4 DEF HazardPlaces
  <2> QED
    BY <2>5, <2>6, <2>7 DEF HazardPlaces
<1>3. HazardCalls'
  <2>1. \A u \in Thread : u # t => pc[u] \notin {"reading", "popping"}
    BY OneInLoop DEF WithSlot
  <2>2. \A u \in Thread : /\ pc'[u] \notin {"reading", "popping"}
                          /\ Pushing(u)' => Pushing(u)
    BY <1>1, <2>1 DEF Pushing
  <2> QED
    BY <2>2 DEF HazardInv, HazardCalls
<1>4. ListInv'
  BY HazardTop, Facts!LinkedPop, Constants, Ranges DEF HazardInv, HazardTypes, ListInv, Linked
<1> QED
  BY <1>2, <1>3, <1>4

LEMMA HazardSwap ==
  ASSUME HazardInv, NEW t \in Thread,
         Hazards!SwapData(t) \/ (pc[t] = "returning" /\ Hazards!ClearHazard(t))
  PROVE  HazardPlaces' /\ HazardCalls' /\ ListInv'
<1>0. /\ pc[t] \in {"returning", "swapping"}
      /\ \E q \in {"swapping", "deciding"} : pc' = [pc EXCEPT ![t] = q]
      /\ \A n \in Node : n # node[t] => data'[n] = data[n]
      /\ UNCHANGED <<head, next, allocated, node, nxt, sent, order>>
  BY DEF HazardInv, HazardTypes, Hazards!SwapData, Hazards!ClearHazard, Hazards!Goto
<1>1. \A u \in Thread : u # t => pc'[u] = pc[u]
  BY <1>0 DEF HazardInv, HazardTypes
<1>2. pc'[t] \in {"swapping", "deciding"}
  BY <1>0 DEF HazardInv, HazardTypes
<1>3. HazardPlaces'
  BY <1>0, <1>1, <1>2 DEF HazardInv, HazardPlaces, Holding
<1>4. HazardCalls'
  <2>1. \A u \in Thread : Pushing(u) => data'[node[u]] = data[node[u]]
    BY <1>0 DEF HazardInv, HazardPlaces, Pushing, Holding
  <2> QED
    BY <1>0, <1>1, <1>2, <2>1 DEF HazardInv, HazardCalls, Pushing
<1>5. ListInv'
  BY <1>0 DEF HazardInv, ListInv
<1> QED
  BY <1>3, <1>4, <1>5

LEMMA HazardDelete ==
  ASSUME HazardInv, NEW t \in Thread, Hazards!Delete(t)
  PROVE  HazardPlaces' /\ HazardCalls' /\ ListInv'
<1>0. /\ pc[t] = "deciding" /\ pc' = [pc EXCEPT ![t] = "idle"]
      /\ allocated' = allocated \ {node[t]}
      /\ UNCHANGED <<head, data, next, node, nxt, sent, order>>
  BY NotOutstanding DEF Hazards!Delete, Hazards!Goto
<1>1. \A u \in Thread : pc'[u] = IF u = t THEN "idle" ELSE pc[u]
  BY <1>0 DEF HazardInv, HazardTypes
<1>2. HazardPlaces'
  BY <1>0, <1>1 DEF HazardInv, HazardPlaces, Holding
<1>3. HazardCalls'
  BY <1>0, <1>1 DEF HazardInv, HazardCalls, Pushing
<1>4. ListInv'
  BY <1>0 DEF HazardInv, ListInv
<1> QED
  BY <1>2, <1>3, <1>4

-----------------------------------------------------------------------------
(* The inductive invariant *)

LEMMA HazardPushTypes ==
  ASSUME HazardInv, NEW t \in Thread, Hazards!push(t)
  PROVE  HazardTypes'
<1> USE DEF HazardInv, HazardTypes, Hazards!push, Hazards!hazards
<1>1. CASE Hazards!Listing!Allocate(t)
  <2>1. sent[t] \in Nat /\ <<t, sent[t] + 1>> \in Hazards!Listing!Answer
    BY <1>1, Constants DEF Hazards!Listing!Allocate, Hazards!Listing!Answer, Hazards!Listing!Item
  <2> QED
    BY <1>1, <2>1 DEF Hazards!Listing!Allocate, Hazards!Listing!Goto, Hazards!Places, NodeOrNull
<1>2. CASE Hazards!Listing!Link(t) \/ Hazards!Listing!PublishFails(t)
  BY <1>2
  DEF Hazards!Listing!Link, Hazards!Listing!PublishFails, Hazards!Listing!Goto, Hazards!Places
<1>3. CASE Hazards!Listing!Publish(t)
  <2>1. node[t] \in Node /\ sent[t] < MaxPush
    BY <1>3
    DEF Hazards!Listing!Publish, Hazards!Listing!Goto, HazardPlaces, Holding, HazardCalls,
        Pushing
  <2>2. order' \in Seq(Node)
    BY <1>3, <2>1, Facts!PushFront, Constants, Ranges DEF Hazards!Listing!Publish
  <2>3. sent' \in [Thread -> 0 .. MaxPush]
    BY <1>3, <2>1, Constants DEF Hazards!Listing!Publish
  <2> QED
    BY <1>3, <2>1, <2>2, <2>3
    DEF Hazards!Listing!Publish, Hazards!Listing!Goto, Hazards!Places, NodeOrNull
<1> QED
  BY <1>1, <1>2, <1>3 DEF Hazards!Listing!push

LEMMA HazardSlotTypes ==
  ASSUME HazardTypes, NEW t \in Thread,
         \/ Hazards!Own(t) \/ Hazards!Announce(t) \/ Hazards!ClearHazard(t)
         \/ Hazards!ClearOwned(t) \/ Hazards!Release(t)
  PROVE  HazardTypes'
<1> USE DEF HazardTypes, Hazards!Goto, Hazards!Places
<1>0. 1 \in Hazards!Slot /\ Null \in NodeOrNull
  BY Constants DEF Hazards!Slot, NodeOrNull
<1>1. CASE Hazards!Own(t)
  BY <1>0, <1>1 DEF Hazards!Own, Hazards!TakeSlot
<1>2. CASE Hazards!Announce(t)
  BY <1>2 DEF Hazards!Announce
<1>3. CASE Hazards!ClearHazard(t)
  BY <1>0, <1>3 DEF Hazards!ClearHazard
<1>4. CASE Hazards!ClearOwned(t)
  BY <1>0, <1>4 DEF Hazards!ClearOwned
<1>5. CASE Hazards!Release(t)
  BY <1>5 DEF Hazards!Release
<1> QED
  BY <1>1, <1>2, <1>3, <1>4, <1>5

LEMMA HazardCallTypes ==
  ASSUME HazardTypes, NEW t \in Thread,
         Hazards!BeginPop(t) \/ Hazards!Throw(t) \/ Hazards!LoadHead(t) \/ Hazards!TakeFails(t)
  PROVE  HazardTypes'
<1> USE DEF HazardTypes, Hazards!Goto, Hazards!Places, Hazards!hazards
<1>1. CASE Hazards!BeginPop(t)
  BY <1>1, Constants DEF Hazards!BeginPop
<1>2. CASE Hazards!Throw(t)
  BY <1>2 DEF Hazards!Throw
<1>3. CASE Hazards!LoadHead(t)
  BY <1>3 DEF Hazards!LoadHead
<1>4. CASE Hazards!TakeFails(t)
  BY <1>4 DEF Hazards!TakeFails
<1> QED
  BY <1>1, <1>2, <1>3, <1>4

LEMMA HazardPopTypes ==
  ASSUME HazardInv, NEW t \in Thread, Hazards!pop(t) \/ Hazards!ClearOwned(t) \/ Hazards!Release(t)
  PROVE  HazardTypes'
<1> USE DEF HazardInv, HazardTypes, Hazards!Goto, Hazards!Places, Hazards!hazards
<1>0. 1 \in Hazards!Slot /\ Null \in NodeOrNull /\ Nothing \in Hazards!Listing!Answer
  BY Constants DEF Hazards!Slot, NodeOrNull, Hazards!Listing!Answer
<1>1. CASE Hazards!BeginPop(t) \/ Hazards!Throw(t) \/ Hazards!LoadHead(t) \/ Hazards!TakeFails(t)
  BY <1>1, HazardCallTypes
<1>2. CASE \/ Hazards!Own(t) \/ Hazards!Announce(t) \/ Hazards!ClearHazard(t)
           \/ Hazards!ClearOwned(t) \/ Hazards!Release(t)
  BY <1>2, HazardSlotTypes
<1>3. CASE Hazards!Reread(t)
  BY <1>0, <1>3 DEF Hazards!Reread
<1>4. CASE Hazards!Listing!ReadNext(t) /\ UNCHANGED Hazards!hazards
  <2>1. node[t] \in Node
    BY <1>4 DEF Hazards!Listing!ReadNext, Hazards!Listing!Goto, HazardCalls, Range
  <2> QED
    BY <1>4, <2>1 DEF Hazards!Listing!ReadNext, Hazards!Listing!Goto
<1>5. CASE Hazards!Listing!PopTop(t) /\ UNCHANGED Hazards!hazards
  <2>1. order' \in Seq(Node)
    BY <1>5, HazardTop, Facts!PopFront, Constants, Ranges DEF Hazards!Listing!PopTop
  <2> QED
    BY <1>5, <2>1 DEF Hazards!Listing!PopTop, Hazards!Listing!Goto
<1>6. CASE Hazards!SwapData(t)
  <2>1. node[t] \in Node
    BY <1>6 DEF Hazards!SwapData, HazardPlaces, Holding
  <2> QED
    BY <1>0, <1>6, <2>1 DEF Hazards!SwapData
<1>7. CASE Hazards!Delete(t)
  BY <1>7 DEF Hazards!Delete
<1> QED
  BY <1>1, <1>2, <1>3, <1>4, <1>5, <1>6, <1>7 DEF Hazards!pop, Hazards!Take

LEMMA HazardKept ==
  ASSUME HazardInv, UNCHANGED <<stack, hazards>>
  PROVE  HazardInv'
BY DEF stack, hazards, HazardInv, HazardTypes, SlotInv, HazardPlaces, HazardCalls, ListInv, Pushing

LEMMA HazardNext ==
  ASSUME HazardInv, Hazards!Next
  PROVE  HazardInv'
<1>1. ASSUME NEW t \in Thread, Hazards!push(t)
      PROVE  HazardInv'
  <2>1. HazardPlaces' /\ HazardCalls' /\ ListInv'
    BY <1>1, HazardAllocate, HazardLink, HazardPublish DEF Hazards!push, Hazards!Listing!push
  <2> QED
    BY <1>1, <2>1, HazardPushTypes, PushSlots DEF HazardInv
<1>2. ASSUME NEW t \in Thread, Hazards!pop(t) \/ Hazards!ClearOwned(t) \/ Hazards!Release(t)
      PROVE  HazardInv'
  <2>1. SlotInv'
    BY <1>2, PopSlots, OwnSlots, AnnounceSlots, ClearSlots, ReleaseSlots DEF Hazards!pop
  <2>2. HazardPlaces' /\ HazardCalls' /\ ListInv'
    <3>1. Hazards!ClearHazard(t) => pc[t] \in {"returning", "clearing"}
      BY DEF Hazards!ClearHazard
    <3> QED
      BY <1>2, <3>1, QuietSteps, HazardReadNext, HazardPopTop, HazardSwap, HazardDelete
      DEF Hazards!pop, Hazards!Take
  <2> QED
    BY <1>2, <2>1, <2>2, HazardPopTypes DEF HazardInv
<1> QED
  BY <1>1, <1>2 DEF Hazards!Next
-----------------------------------------------------------------------------
(* What follows for 7.6 *)

LEMMA HazardFacts == ASSUME HazardInv PROVE Hazards!TypeOK /\ Hazards!PopsNeverOverlap
<1>1. Hazards!TypeOK
  BY DEF HazardInv, HazardTypes, SlotInv, Hazards!TypeOK, NodeOrNull
<1>2. Hazards!PopsNeverOverlap
  BY Alone DEF HazardInv, SlotInv, Hazards!PopsNeverOverlap
<1> QED
  BY <1>1, <1>2

LEMMA HazardNodes == ASSUME HazardInv PROVE Hazards!EveryNodeHasOnePlace
<1>1. \A t \in Thread : Hazards!Owned(t) = IF pc[t] \in Holding THEN {node[t]} ELSE {}
  BY DEF Hazards!Owned, Holding
<1>2. allocated \subseteq Node /\ Range(order) \subseteq Node
  BY RangeMembers DEF HazardInv, HazardTypes
<1>3. HazardPlaces
  BY DEF HazardInv
<1>4. allocated = Range(order) \cup UNION {Hazards!Owned(t) : t \in Thread}
  <2>1. \A n : n \in UNION {Hazards!Owned(t) : t \in Thread} <=>
                 \E t \in Thread : pc[t] \in Holding /\ node[t] = n
    BY <1>1
  <2>2. \A n : n \in allocated <=>
                 n \in Range(order) \/ \E t \in Thread : pc[t] \in Holding /\ node[t] = n
    BY <1>2, <1>3 DEF HazardPlaces
  <2> QED
    BY <2>1, <2>2
<1>5. \A t \in Thread : Hazards!Owned(t) \cap Range(order) = {}
  BY <1>1, <1>3 DEF HazardPlaces
<1>6. \A t, u \in Thread : t # u => Hazards!Owned(t) \cap Hazards!Owned(u) = {}
  BY <1>1, <1>3 DEF HazardPlaces
<1> QED
  BY <1>4, <1>5, <1>6, Ranges DEF Hazards!EveryNodeHasOnePlace

LEMMA HazardMemory == ASSUME HazardInv PROVE Hazards!NoDanglingUse
<1> SUFFICES ASSUME NEW t \in Thread,
                    pc[t] \in {"linking", "publishing", "reading", "swapping", "deciding"}
             PROVE  node[t] \in allocated
  BY DEF Hazards!NoDanglingUse, Hazards!Used
<1>1. CASE pc[t] = "reading"
  BY <1>1, RangeMembers DEF HazardInv, HazardTypes, HazardCalls, HazardPlaces
<1>2. CASE pc[t] \in Holding
  BY <1>2 DEF HazardInv, HazardPlaces
<1> QED
  BY <1>1, <1>2 DEF Holding

LEMMA HazardPushes ==
  ASSUME HazardInv, NEW t \in Thread, Hazards!Listing!Publish(t)
  PROVE  /\ sent[t] < MaxPush /\ sent' = [sent EXCEPT ![t] = @ + 1]
         /\ Content' = <<<<t, sent[t] + 1>>>> \o Content
         /\ Hazards!Returned' = Hazards!Returned
<1> USE DEF Hazards!Listing!Publish, Hazards!Listing!Goto
<1>1. /\ node[t] \in Node /\ order \in Seq(Node)
      /\ data[node[t]] = <<t, sent[t] + 1>> /\ sent[t] < MaxPush
  BY DEF HazardInv, HazardTypes, HazardPlaces, Holding, HazardCalls, Pushing
<1>2. Content' = <<data[node[t]]>> \o Content
  BY <1>1, ContentPush
<1>3. Hazards!Returned' = Hazards!Returned
  BY DEF HazardInv, HazardTypes, Hazards!Returned
<1> QED
  BY <1>1, <1>2, <1>3

LEMMA HazardPops ==
  ASSUME HazardInv, NEW t \in Thread, Hazards!Listing!PopTop(t)
  PROVE  /\ Content # <<>> /\ Content' = Tail(Content) /\ sent' = sent
         /\ Hazards!Returned' = [Hazards!Returned EXCEPT ![t] = Head(Content)]
<1> USE DEF Hazards!Listing!PopTop, Hazards!Listing!Goto
<1>1. order \in Seq(Node) /\ order # <<>> /\ order[1] = node[t]
  BY HazardTop DEF HazardInv, HazardTypes
<1>2. Content # <<>> /\ Head(Content) = data[node[t]] /\ Content' = Tail(Content)
  BY <1>1, ContentPop
<1>3. Hazards!Returned' = [Hazards!Returned EXCEPT ![t] = data[node[t]]]
  BY DEF HazardInv, HazardTypes, Hazards!Returned
<1> QED
  BY <1>2, <1>3

(* The list is empty when head is null at the end of the inner loop. *)
LEMMA HazardRereads ==
  ASSUME HazardInv, NEW t \in Thread, Hazards!Reread(t)
  PROVE  /\ Content' = Content /\ sent' = sent
         /\ \/ Content = <<>> /\ Hazards!Returned' = [Hazards!Returned EXCEPT ![t] = Nothing]
            \/ Hazards!Returned' = Hazards!Returned
<1> USE DEF Hazards!Reread, Hazards!Goto
<1>1. Content' = Content /\ sent' = sent
  BY DEF Content
<1>2. CASE head = temp[t] /\ head = Null
  <2>1. Content = <<>>
    BY <1>2, HazardHead, ContentEmpty
  <2>2. Hazards!Returned' = [Hazards!Returned EXCEPT ![t] = Nothing]
    BY <1>2 DEF HazardInv, HazardTypes, Hazards!Returned
  <2> QED
    BY <1>1, <2>1, <2>2
<1>3. CASE ~(head = temp[t] /\ head = Null)
  <2>1. Hazards!Returned' = Hazards!Returned
    BY <1>3 DEF HazardInv, HazardTypes, Hazards!Returned
  <2> QED
    BY <1>1, <2>1
<1> QED
  BY <1>2, <1>3

(* The node that is written is not in the list. *)
LEMMA HazardWrites ==
  ASSUME HazardInv, NEW t \in Thread, Hazards!Listing!Allocate(t) \/ Hazards!SwapData(t)
  PROVE  UNCHANGED <<Content, sent, Hazards!Returned>>
<1>1. PICK n \in Node :
        /\ n \notin Range(order)
        /\ \A m \in Node : m # n => data'[m] = data[m]
        /\ \A u \in Thread : u # t /\ pc[u] \in Holding => node[u] # n
  <2>1. CASE Hazards!Listing!Allocate(t)
    BY <2>1 DEF Hazards!Listing!Allocate, HazardInv, HazardTypes, HazardPlaces
  <2>2. CASE Hazards!SwapData(t)
    <3>1. pc[t] = "swapping" /\ data' = [data EXCEPT ![node[t]] = Nothing] /\ pc[t] \in Holding
      BY <2>2 DEF Hazards!SwapData, Hazards!Goto, Holding
    <3>2. /\ node[t] \in Node /\ node[t] \notin Range(order)
          /\ \A u \in Thread : u # t /\ pc[u] \in Holding => node[u] # node[t]
      BY <3>1 DEF HazardInv, HazardPlaces
    <3>3. \A m \in Node : m # node[t] => data'[m] = data[m]
      BY <3>1 DEF HazardInv, HazardTypes
    <3> QED
      BY <3>2, <3>3
  <2> QED
    BY <2>1, <2>2
<1>2. order' = order /\ sent' = sent
  BY DEF Hazards!Listing!Allocate, Hazards!SwapData
<1>3. Content' = Content
  <2>1. order \in Seq(Node) /\ Range(order) \subseteq Node
    BY RangeMembers DEF HazardInv, HazardTypes
  <2> QED
    BY <1>1, <1>2, <2>1, ContentSame
<1>4. \A u \in Thread : Hazards!Returned'[u] = Hazards!Returned[u]
  <2> SUFFICES ASSUME NEW u \in Thread
               PROVE  Hazards!Returned'[u] = Hazards!Returned[u]
    OBVIOUS
  <2>1. CASE u = t
    BY <2>1
    DEF Hazards!Listing!Allocate, Hazards!Listing!Goto, Hazards!SwapData, Hazards!Goto, HazardInv,
        HazardTypes, Hazards!Returned
  <2>2. CASE u # t
    <3>1. pc'[u] = pc[u] /\ node'[u] = node[u] /\ result'[u] = result[u]
      BY <2>2
      DEF Hazards!Listing!Allocate, Hazards!Listing!Goto, Hazards!SwapData, Hazards!Goto,
          HazardInv, HazardTypes
    <3>2. pc[u] \in {"returning", "swapping"} => data'[node[u]] = data[node[u]]
      BY <1>1, <2>2 DEF HazardInv, HazardPlaces, Holding
    <3> QED
      BY <3>1, <3>2 DEF Hazards!Returned
  <2> QED
    BY <2>1, <2>2
<1>5. Hazards!Returned' = Hazards!Returned
  BY <1>4 DEF Hazards!Returned
<1> QED
  BY <1>2, <1>3, <1>5

LEMMA HazardStutters ==
  ASSUME HazardInv, NEW t \in Thread,
         \/ Hazards!Listing!Link(t) \/ Hazards!Listing!PublishFails(t)
         \/ Hazards!Listing!ReadNext(t) \/ Hazards!BeginPop(t) \/ Hazards!Own(t)
         \/ Hazards!Throw(t) \/ Hazards!LoadHead(t) \/ Hazards!Announce(t)
         \/ Hazards!TakeFails(t) \/ Hazards!ClearHazard(t) \/ Hazards!Delete(t)
         \/ Hazards!ClearOwned(t) \/ Hazards!Release(t)
  PROVE  UNCHANGED <<Content, sent, Hazards!Returned>>
<1> USE DEF Hazards!Listing!Link, Hazards!Listing!PublishFails, Hazards!Listing!ReadNext,
            Hazards!BeginPop, Hazards!Own, Hazards!TakeSlot, Hazards!Throw, Hazards!LoadHead,
            Hazards!Announce, Hazards!TakeFails, Hazards!ClearHazard, Hazards!Delete,
            Hazards!ClearOwned, Hazards!Release
<1>1. UNCHANGED <<data, order, sent, result>>
  OBVIOUS
<1>2. Content' = Content
  BY <1>1 DEF Content
<1>3. \A u \in Thread :
        /\ pc[u] \in {"returning", "swapping"} <=> pc'[u] \in {"returning", "swapping"}
        /\ pc[u] \in {"returning", "swapping"} => node'[u] = node[u]
  BY DEF Hazards!Listing!Goto, Hazards!Goto, HazardInv, HazardTypes
<1>4. Hazards!Returned' = Hazards!Returned
  BY <1>1, <1>3 DEF Hazards!Returned
<1> QED
  BY <1>1, <1>2, <1>4

LEMMA HazardImplements ==
  ASSUME HazardInv, Hazards!Next, program = "hazards", program' = "hazards"
  PROVE  Abstract!Next \/ UNCHANGED <<Content, sent, Returned>>
<1>1. PICK t \in Thread : \/ Hazards!push(t) \/ Hazards!pop(t)
                          \/ Hazards!ClearOwned(t) \/ Hazards!Release(t)
  BY DEF Hazards!Next
<1>2. Returned = Hazards!Returned /\ Returned' = Hazards!Returned'
  BY DEF Returned
<1>3. CASE Hazards!Listing!Publish(t)
  BY <1>2, <1>3, HazardPushes DEF Abstract!Push, Abstract!Next
<1>4. CASE Hazards!Listing!PopTop(t)
  BY <1>2, <1>4, HazardPops DEF Abstract!Pop, Abstract!Next
<1>5. CASE Hazards!Reread(t)
  BY <1>2, <1>5, HazardRereads DEF Abstract!PopNothing, Abstract!Next
<1>6. CASE Hazards!Listing!Allocate(t) \/ Hazards!SwapData(t)
  BY <1>2, <1>6, HazardWrites
<1>7. CASE ~(\/ Hazards!Listing!Publish(t) \/ Hazards!Listing!PopTop(t) \/ Hazards!Reread(t)
             \/ Hazards!Listing!Allocate(t) \/ Hazards!SwapData(t))
  <2>1. UNCHANGED <<Content, sent, Hazards!Returned>>
    BY <1>1, <1>7, HazardStutters
    DEF Hazards!push, Hazards!Listing!push, Hazards!pop, Hazards!Take
  <2> QED
    BY <1>2, <2>1
<1> QED
  BY <1>3, <1>4, <1>5, <1>6, <1>7
-----------------------------------------------------------------------------
(* The stack of 7.10 *)

(* Where the counts have the values that their types allow. *)
CountTypes ==
  /\ Counts!PairsTypeOK
  /\ nxt \in [Thread -> NodeOrNull]
  /\ sent \in [Thread -> 0 .. MaxPush] /\ pops \in [Thread -> 0 .. MaxPop]
  /\ result \in [Thread -> Counts!Listing!Answer]
  /\ \A t \in Thread :
       /\ Pushing(t) => sent[t] < MaxPush
       /\ pc[t] = "raising" => count[t] \in Nat
       /\ pc[t] \in {"reading", "popping", "returning", "settling"} => node[t] \in Node

(* Where a thread has a pair that is not in the list. *)
CountOwning == {"linking", "publishing", "returning", "settling"}

(* The pairs in use are alive, and no pop could take the internal count of *)
(* one in the list for the last reference.                                 *)
CountPlaces ==
  /\ order \in Seq(Node)
  /\ \A n \in Range(order) : n \in allocated /\ n \in nodes /\ internal[n] <= 0
  /\ \A t \in Thread : pc[t] \in CountOwning =>
       node[t] \in allocated /\ node[t] \in nodes /\ node[t] \notin Range(order)
  /\ \A t, u \in Thread :
       t # u /\ pc[t] \in CountOwning /\ pc[u] \in CountOwning => node[t] # node[u]
  /\ \A t \in Thread : Pushing(t) => internal[node[t]] <= 0

(* Where a pop is, and what it knows of the list. *)
CountPop(t) ==
  /\ pc[t] = "counting" => \/ node[t] = Null /\ counter[t] = Null
                           \/ node[t] \in Range(order) /\ counter[t] \in Range(order)
  /\ pc[t] \in {"raising", "confirming"} =>
       node[t] \in Range(order) /\ counter[t] \in Range(order)
  /\ pc[t] \in {"resolving", "reading", "popping"} => node[t] \in Range(order)
  /\ pc[t] \in {"reading", "popping", "returning", "settling"} => ptr[t] = node[t]
  /\ pc[t] = "popping" => nxt[t] = next[node[t]]
  /\ pc[t] = "dropping" => node[t] \in Range(order) /\ ptr[t] \in Range(order)

OnePop == \A t, u \in Thread : Counts!Popping(t) /\ Counts!Popping(u) => t = u

(* With one pop at a time. *)
CountList ==
  /\ CountPlaces /\ ListInv /\ OnePop
  /\ \A t \in Thread : CountPop(t) /\ PushOf(t)

CountInv == CountTypes /\ CountList

LEMMA CountInit == ASSUME Counts!Init PROVE CountTypes /\ CountInv
<1> USE DEF Counts!Init, Counts!Listing!Init
<1>1. CountTypes
  <2>1. 0 \in 0 .. MaxPush /\ 0 \in 0 .. MaxPop /\ 0 \in Nat /\ 0 \in Int
    BY Constants
  <2> QED
    BY <2>1
    DEF CountTypes, Counts!PairsTypeOK, Counts!Places, Counts!Listing!Answer, NodeOrNull, Pushing
<1>2. Range(order) = {} /\ order \in Seq(Node)
  BY DEF Range
<1>3. CountPlaces
  BY <1>2 DEF CountPlaces, CountOwning, Pushing
<1>4. ListInv
  BY DEF ListInv, Linked, Facts!Linked, Facts!NoTwice
<1>5. \A t \in Thread : CountPop(t) /\ PushOf(t)
  BY DEF CountPop, PushOf, Pushing
<1>6. \A t \in Thread : ~Counts!Popping(t)
  BY DEF Counts!Popping
<1> QED
  BY <1>1, <1>3, <1>4, <1>5, <1>6 DEF CountInv, CountList, OnePop

-----------------------------------------------------------------------------
(* The types of 7.10, however many pops overlap *)

LEMMA CountPushTypes ==
  ASSUME CountTypes, NEW t \in Thread, ~Counts!Misuses(t), Counts!push(t)
  PROVE  CountTypes'
<1>0. Counts!PairsTypeOK /\ allocated \subseteq Node /\ nodes \subseteq Node /\ Null \in NodeOrNull
  BY DEF CountTypes, Counts!PairsTypeOK, NodeOrNull
<1>1. pc[t] \in {"linking", "publishing"} => node[t] \in Node
  BY <1>0 DEF Counts!Misuses, Counts!UsedNodes
<1>2. CASE Counts!Allocate(t)
  <2>1. PICK n \in Node :
          /\ sent[t] < MaxPush /\ pc' = [pc EXCEPT ![t] = "linking"]
          /\ allocated' = allocated \cup {n} /\ data' = [data EXCEPT ![n] = <<t, sent[t] + 1>>]
          /\ next' = [next EXCEPT ![n] = Null] /\ node' = [node EXCEPT ![t] = n]
          /\ UNCHANGED <<head, nxt, sent, pops, result, order, counter, ptr, count>>
    BY <1>2 DEF Counts!Allocate, Counts!Listing!Allocate, Counts!Listing!Goto
  <2>2. /\ nodes' = nodes \cup {n} /\ external' = [external EXCEPT ![n] = 1]
        /\ internal' = [internal EXCEPT ![n] = 0]
    BY <1>0, <1>2, <2>1 DEF Counts!Allocate, Counts!PairsTypeOK
  <2>3. <<t, sent[t] + 1>> \in Counts!Listing!Answer
    BY <2>1, Constants DEF CountTypes, Counts!Listing!Answer, Counts!Listing!Item
  <2>4. \A u \in Thread : pc'[u] = IF u = t THEN "linking" ELSE pc[u]
    BY <1>0, <2>1 DEF Counts!PairsTypeOK
  <2>5. Counts!PairsTypeOK'
    BY <1>0, <2>1, <2>2, <2>3 DEF Counts!PairsTypeOK, Counts!Places
  <2>6. \A u \in Thread \ {t} : node'[u] = node[u]
    BY <1>0, <2>1 DEF Counts!PairsTypeOK
  <2> QED
    BY <2>1, <2>4, <2>5, <2>6 DEF CountTypes, Pushing
<1>3. CASE (Counts!Listing!Link(t) \/ Counts!Listing!PublishFails(t)) /\ UNCHANGED Counts!counts
  <2>1. /\ pc[t] \in {"linking", "publishing"} /\ pc' = [pc EXCEPT ![t] = "publishing"]
        /\ next' = [next EXCEPT ![node[t]] = head]
        /\ UNCHANGED <<head, data, allocated, node, nxt, sent, pops, result, order>>
        /\ UNCHANGED <<nodes, external, internal, counter, ptr, count>>
    BY <1>0, <1>3
    DEF Counts!Listing!Link, Counts!Listing!PublishFails, Counts!Listing!Goto, Counts!counts,
        Counts!PairsTypeOK
  <2>2. \A u \in Thread : pc'[u] = IF u = t THEN "publishing" ELSE pc[u]
    BY <1>0, <2>1 DEF Counts!PairsTypeOK
  <2>3. Counts!PairsTypeOK'
    BY <1>0, <1>1, <2>1 DEF Counts!PairsTypeOK, Counts!Places
  <2> QED
    BY <2>1, <2>2, <2>3 DEF CountTypes, Pushing
<1>4. CASE Counts!Listing!Publish(t) /\ UNCHANGED Counts!counts
  <2>1. /\ pc[t] = "publishing" /\ pc' = [pc EXCEPT ![t] = "idle"]
        /\ sent' = [sent EXCEPT ![t] = @ + 1] /\ head' = node[t]
        /\ UNCHANGED <<data, next, allocated, node, nxt, pops, result>>
        /\ UNCHANGED <<nodes, external, internal, counter, ptr, count>>
    BY <1>4 DEF Counts!Listing!Publish, Counts!Listing!Goto, Counts!counts
  <2>2. /\ \A u \in Thread : pc'[u] = IF u = t THEN "idle" ELSE pc[u]
        /\ \A u \in Thread \ {t} : sent'[u] = sent[u]
    BY <1>0, <2>1 DEF Counts!PairsTypeOK, CountTypes
  <2>3. Counts!PairsTypeOK'
    BY <1>0, <1>1, <2>1 DEF Counts!PairsTypeOK, Counts!Places
  <2>4. sent' \in [Thread -> 0 .. MaxPush]
    BY <2>1, Constants DEF CountTypes, Pushing
  <2> QED
    BY <2>1, <2>2, <2>3, <2>4 DEF CountTypes, Pushing
<1> QED
  BY <1>2, <1>3, <1>4 DEF Counts!push, Counts!Listing!push

(* What a step of pop leaves to be shown of the types. *)
LEMMA CountStepTypes ==
  ASSUME CountTypes, NEW t \in Thread, NEW q \in Counts!Places, Counts!PairsTypeOK',
         pc' = [pc EXCEPT ![t] = q], UNCHANGED sent, ~Pushing(t),
         q \notin {"linking", "publishing"},
         pops' \in [Thread -> 0 .. MaxPop],
         nxt' \in [Thread -> NodeOrNull], result' \in [Thread -> Counts!Listing!Answer],
         q = "raising" => count'[t] \in Nat,
         q \in {"reading", "popping", "returning", "settling"} => node'[t] \in Node,
         \A u \in Thread \ {t} : node'[u] = node[u] /\ count'[u] = count[u]
  PROVE  CountTypes'
<1>1. \A u \in Thread : pc'[u] = IF u = t THEN q ELSE pc[u]
  BY DEF CountTypes, Counts!PairsTypeOK
<1> QED
  BY <1>1 DEF CountTypes, Pushing

LEMMA CountPopTypes ==
  ASSUME CountTypes, NEW t \in Thread, ~Counts!Misuses(t), Counts!pop(t)
  PROVE  CountTypes'
<1> USE DEF Counts!Goto, Counts!Listing!Goto, Counts!counts, Pushing, NodeOrNull
<1>0. /\ Counts!PairsTypeOK /\ CountTypes /\ allocated \subseteq Node /\ nodes \subseteq Node
      /\ Nothing \in Counts!Listing!Answer
  BY DEF CountTypes, Counts!PairsTypeOK, Counts!Listing!Answer
<1>1. Counts!UsedCounters(t) \subseteq Node /\ Counts!UsedNodes(t) \subseteq Node
  BY <1>0 DEF Counts!Misuses
<1>2. CASE Counts!LoadHead(t)
  <2>1. Counts!PairsTypeOK'
    BY <1>0, <1>2 DEF Counts!LoadHead, Counts!PairsTypeOK, Counts!Places
  <2>2. pops' \in [Thread -> 0 .. MaxPop]
    BY <1>0, <1>2, Constants DEF Counts!LoadHead, CountTypes
  <2> QED
    BY <1>0, <1>2, <2>1, <2>2, CountStepTypes
    DEF Counts!LoadHead, Counts!PairsTypeOK, Counts!Places, CountTypes
<1>3. CASE Counts!ReadCount(t)
  <2>1. counter[t] \in Node
    BY <1>1, <1>3 DEF Counts!ReadCount, Counts!UsedCounters
  <2>2. external[counter[t]] \in Nat
    BY <1>0, <2>1 DEF Counts!PairsTypeOK
  <2>3. Counts!PairsTypeOK' /\ count'[t] \in Nat /\ \A u \in Thread \ {t} : count'[u] = count[u]
    BY <1>0, <1>3, <2>2 DEF Counts!ReadCount, Counts!PairsTypeOK, Counts!Places
  <2> QED
    BY <1>0, <1>3, <2>3, CountStepTypes DEF Counts!ReadCount, Counts!Places, CountTypes
<1>4. CASE Counts!WriteCount(t)
  <2>1. counter[t] \in Node
    BY <1>1, <1>4 DEF Counts!WriteCount, Counts!UsedCounters
  <2>2. count[t] + 1 \in Nat
    BY <1>0, <1>4 DEF Counts!WriteCount, CountTypes
  <2>3. Counts!PairsTypeOK'
    BY <1>0, <1>4, <2>1, <2>2 DEF Counts!WriteCount, Counts!PairsTypeOK, Counts!Places
  <2> QED
    BY <1>0, <1>4, <2>3, CountStepTypes DEF Counts!WriteCount, Counts!Places, CountTypes
<1>5. CASE Counts!Confirm(t)
  <2>1. PICK q \in {"resolving", "counting"} : pc' = [pc EXCEPT ![t] = q] /\ pc[t] = "confirming"
    BY <1>5 DEF Counts!Confirm
  <2>2. Counts!PairsTypeOK'
    BY <1>0, <1>5, <2>1 DEF Counts!Confirm, Counts!PairsTypeOK, Counts!Places
  <2> QED
    BY <1>0, <1>5, <2>1, <2>2, CountStepTypes DEF Counts!Confirm, Counts!Places, CountTypes
<1>6. CASE Counts!Resolve(t)
  <2>1. node[t] \in Node
    BY <1>1, <1>6 DEF Counts!Resolve, Counts!UsedCounters
  <2>2. Counts!PairsTypeOK'
    BY <1>0, <1>6, <2>1 DEF Counts!Resolve, Counts!PairsTypeOK, Counts!Places
  <2> QED
    BY <1>0, <1>6, <2>1, <2>2, CountStepTypes DEF Counts!Resolve, Counts!Places, CountTypes
<1>7. CASE Counts!Listing!ReadNext(t) /\ UNCHANGED Counts!counts
  <2>1. node[t] \in Node
    BY <1>0, <1>7 DEF Counts!Listing!ReadNext, CountTypes
  <2>2. Counts!PairsTypeOK' /\ nxt' \in [Thread -> NodeOrNull]
    BY <1>0, <1>7, <2>1 DEF Counts!Listing!ReadNext, Counts!PairsTypeOK, Counts!Places, CountTypes
  <2> QED
    BY <1>0, <1>7, <2>1, <2>2, CountStepTypes
    DEF Counts!Listing!ReadNext, Counts!Places, CountTypes
<1>8. CASE Counts!Listing!PopTop(t) /\ UNCHANGED Counts!counts
  <2>1. node[t] \in Node /\ nxt[t] \in NodeOrNull
    BY <1>0, <1>8 DEF Counts!Listing!PopTop, CountTypes
  <2>2. Counts!PairsTypeOK'
    BY <1>0, <1>8, <2>1 DEF Counts!Listing!PopTop, Counts!PairsTypeOK, Counts!Places
  <2> QED
    BY <1>0, <1>8, <2>1, <2>2, CountStepTypes DEF Counts!Listing!PopTop, Counts!Places, CountTypes
<1>9. CASE Counts!TakeFails(t)
  <2>1. Counts!PairsTypeOK' /\ \A u \in Thread \ {t} : node'[u] = node[u]
    BY <1>0, <1>9 DEF Counts!TakeFails, Counts!PairsTypeOK, Counts!Places
  <2> QED
    BY <1>0, <1>9, <2>1, CountStepTypes DEF Counts!TakeFails, Counts!Places, CountTypes
<1>10. CASE Counts!Drop(t)
  <2>1. ptr[t] \in Node
    BY <1>1, <1>10 DEF Counts!Drop, Counts!UsedNodes
  <2>2. internal[ptr[t]] - 1 \in Int
    BY <1>0, <2>1 DEF Counts!PairsTypeOK
  <2>3. nodes' \subseteq Node /\ allocated' \subseteq Node
    BY <1>0, <1>10 DEF Counts!Drop
  <2>4. Counts!PairsTypeOK'
    BY <1>0, <1>10, <2>1, <2>2, <2>3 DEF Counts!Drop, Counts!PairsTypeOK, Counts!Places
  <2> QED
    BY <1>0, <1>10, <2>4, CountStepTypes DEF Counts!Drop, Counts!Places, CountTypes
<1>11. CASE Counts!SwapData(t)
  <2>1. node[t] \in Node
    BY <1>1, <1>11 DEF Counts!SwapData, Counts!UsedCounters
  <2>2. external[node[t]] - 2 \in Int /\ data[node[t]] \in Counts!Listing!Answer
    BY <1>0, <2>1 DEF Counts!PairsTypeOK
  <2>3. /\ Counts!PairsTypeOK' /\ result' \in [Thread -> Counts!Listing!Answer]
        /\ \A u \in Thread \ {t} : count'[u] = count[u]
    BY <1>0, <1>11, <2>1, <2>2 DEF Counts!SwapData, Counts!PairsTypeOK, Counts!Places, CountTypes
  <2> QED
    BY <1>0, <1>11, <2>1, <2>3, CountStepTypes DEF Counts!SwapData, Counts!Places, CountTypes
<1>12. CASE Counts!Settle(t)
  <2>1. ptr[t] \in Node
    BY <1>1, <1>12 DEF Counts!Settle, Counts!UsedNodes
  <2>2. internal[ptr[t]] + count[t] \in Int
    BY <1>0, <2>1 DEF Counts!PairsTypeOK
  <2>3. nodes' \subseteq Node /\ allocated' \subseteq Node
    BY <1>0, <1>12 DEF Counts!Settle
  <2>4. Counts!PairsTypeOK'
    BY <1>0, <1>12, <2>1, <2>2, <2>3 DEF Counts!Settle, Counts!PairsTypeOK, Counts!Places
  <2> QED
    BY <1>0, <1>12, <2>4, CountStepTypes DEF Counts!Settle, Counts!Places, CountTypes
<1> QED
  BY <1>2, <1>3, <1>4, <1>5, <1>6, <1>7, <1>8, <1>9, <1>10, <1>11, <1>12
  DEF Counts!pop, Counts!Take

LEMMA CountTypesNext == ASSUME CountTypes, Counts!Next PROVE CountTypes'
BY CountPushTypes, CountPopTypes DEF Counts!Next

-----------------------------------------------------------------------------
(* The pairs of 7.10, with one pop at a time *)

LEMMA CountHead ==
  ASSUME CountInv
  PROVE  /\ order \in Seq(Node) /\ Range(order) \subseteq Node
         /\ head = Null => order = <<>>
         /\ head # Null => order # <<>> /\ head = order[1] /\ head \in Range(order)
         /\ Range(order) # {} => head # Null
<1>1. order \in Seq(Node) /\ Facts!Linked(head, next, order, Null)
  BY DEF CountInv, CountList, CountPlaces, ListInv, Linked
<1>2. /\ head = Null => order = <<>>
      /\ head # Null => order # <<>> /\ head = order[1] /\ head \in Range(order)
  BY <1>1, Facts!LinkedHead, Constants, Ranges
<1> QED
  BY <1>1, <1>2, RangeMembers

(* Where no pair changes hands. *)
LEMMA CountQuiet ==
  ASSUME CountInv, NEW t \in Thread, NEW q, pc' = [pc EXCEPT ![t] = q],
         UNCHANGED <<head, data, next, allocated, nodes, order, sent>>,
         \A n \in Node : internal[n] <= 0 => internal'[n] <= 0,
         pc[t] \notin CountOwning, q \notin CountOwning,
         \A u \in Thread \ {t} : node'[u] = node[u] /\ ~Counts!Popping(u),
         CountPop(t)'
  PROVE  CountList'
<1>1. \A u \in Thread : pc'[u] = IF u = t THEN q ELSE pc[u]
  BY DEF CountInv, CountTypes, Counts!PairsTypeOK
<1>2. CountPlaces /\ ListInv /\ \A u \in Thread : PushOf(u)
  BY DEF CountInv, CountList
<1>3. /\ \A u \in Thread : pc'[u] \in CountOwning =>
           u # t /\ pc[u] \in CountOwning /\ node'[u] = node[u]
      /\ \A u \in Thread : Pushing(u)' => Pushing(u) /\ pc'[u] \in CountOwning
  BY <1>1 DEF Pushing, CountOwning
<1>4. CountPlaces'
  <2>1. \A n \in Range(order) : n \in allocated /\ n \in nodes /\ internal'[n] <= 0
    BY <1>2, CountHead DEF CountPlaces
  <2>2. \A u \in Thread : Pushing(u)' => internal'[node'[u]] <= 0
    <3>1. \A u \in Thread : Pushing(u) => node[u] \in Node /\ internal[node[u]] <= 0
      BY <1>2 DEF CountPlaces, PushOf
    <3> QED
      BY <1>3, <3>1
  <2>3. /\ \A u \in Thread : pc'[u] \in CountOwning =>
             node'[u] \in allocated /\ node'[u] \in nodes /\ node'[u] \notin Range(order)
        /\ \A u, v \in Thread :
             u # v /\ pc'[u] \in CountOwning /\ pc'[v] \in CountOwning => node'[u] # node'[v]
    BY <1>2, <1>3 DEF CountPlaces
  <2> QED
    BY <1>2, <2>1, <2>2, <2>3 DEF CountPlaces
<1>5. ListInv'
  BY <1>2 DEF ListInv
<1>6. \A u \in Thread : PushOf(u)'
  BY <1>2, <1>3 DEF PushOf
<1>7. \A u \in Thread \ {t} : ~Counts!Popping(u)'
  BY <1>1 DEF Counts!Popping
<1>8. \A u \in Thread \ {t} : CountPop(u)'
  BY <1>7 DEF CountPop, Counts!Popping
<1>9. OnePop'
  BY <1>7 DEF OnePop
<1> QED
  BY <1>4, <1>5, <1>6, <1>8, <1>9 DEF CountList

LEMMA CountLoads ==
  ASSUME ~Overlapping, CountInv, NEW t \in Thread, Counts!LoadHead(t)
  PROVE  CountList'
<1> USE DEF Counts!LoadHead, Counts!Goto
<1>0. CountTypes
  BY DEF CountInv
<1>1. pc'[t] = "counting" /\ node'[t] = head /\ counter'[t] = head
  BY <1>0 DEF CountTypes, Counts!PairsTypeOK
<1>2. CountPop(t)'
  BY <1>1, CountHead DEF CountPop
<1>3. \A u \in Thread \ {t} : node'[u] = node[u] /\ ~Counts!Popping(u)
  BY <1>0 DEF CountTypes, Counts!PairsTypeOK
<1> QED
  BY <1>2, <1>3, CountQuiet DEF CountOwning

(* The steps between the first and the compare_exchange_strong of pop. *)
LEMMA CountLoops ==
  ASSUME CountInv, NEW t \in Thread, ~Counts!Misuses(t),
         \/ Counts!ReadCount(t) \/ Counts!WriteCount(t) \/ Counts!Confirm(t) \/ Counts!Resolve(t)
         \/ Counts!Listing!ReadNext(t) /\ UNCHANGED Counts!counts
         \/ Counts!TakeFails(t)
  PROVE  CountList'
<1> USE DEF Counts!Goto, Counts!Listing!Goto, Counts!counts
<1>0. CountTypes /\ CountPop(t) /\ CountPlaces
  BY DEF CountInv, CountList
<1>1. /\ UNCHANGED <<head, data, next, allocated, nodes, order, sent, internal>>
      /\ \A u \in Thread \ {t} : node'[u] = node[u]
  BY <1>0
  DEF Counts!ReadCount, Counts!WriteCount, Counts!Confirm, Counts!Resolve,
      Counts!Listing!ReadNext, Counts!TakeFails, CountTypes, Counts!PairsTypeOK
<1>2. Counts!Popping(t) /\ pc[t] \notin CountOwning
  BY DEF Counts!ReadCount, Counts!WriteCount, Counts!Confirm, Counts!Resolve,
         Counts!Listing!ReadNext, Counts!TakeFails, Counts!Popping, CountOwning
<1>3. \A u \in Thread \ {t} : ~Counts!Popping(u)
  BY <1>2 DEF CountInv, CountList, OnePop
<1>4. PICK q : pc' = [pc EXCEPT ![t] = q] /\ q \notin CountOwning /\ CountPop(t)'
  <2> USE DEF CountOwning, CountPop
  <2>1. CASE Counts!ReadCount(t)
    <3>1. counter[t] \in allocated
      BY <2>1 DEF Counts!ReadCount, Counts!Misuses, Counts!UsedCounters
    <3>2. counter[t] # Null
      BY <1>0, <3>1, Constants DEF CountTypes, Counts!PairsTypeOK
    <3>3. pc'[t] = "raising"
      BY <1>0, <2>1 DEF Counts!ReadCount, CountTypes, Counts!PairsTypeOK
    <3> QED
      BY <1>0, <2>1, <3>2, <3>3 DEF Counts!ReadCount
  <2>2. CASE Counts!WriteCount(t)
    <3>1. pc'[t] = "confirming"
      BY <1>0, <2>2 DEF Counts!WriteCount, CountTypes, Counts!PairsTypeOK
    <3> QED
      BY <1>0, <2>2, <3>1 DEF Counts!WriteCount
  <2>3. CASE Counts!Confirm(t)
    <3>1. node[t] \in Range(order) /\ head \in Range(order)
      BY <1>0, <2>3, CountHead DEF Counts!Confirm
    <3>2. pc'[t] \in {"resolving", "counting"} /\ counter'[t] = head
      BY <1>0, <2>3 DEF Counts!Confirm, CountTypes, Counts!PairsTypeOK
    <3> QED
      BY <2>3, <3>1, <3>2 DEF Counts!Confirm
  <2>4. CASE Counts!Resolve(t)
    <3>1. pc'[t] = "reading" /\ ptr'[t] = node[t]
      BY <1>0, <2>4 DEF Counts!Resolve, CountTypes, Counts!PairsTypeOK
    <3> QED
      BY <1>0, <2>4, <3>1 DEF Counts!Resolve
  <2>5. CASE Counts!Listing!ReadNext(t) /\ UNCHANGED Counts!counts
    <3>1. pc'[t] = "popping" /\ nxt'[t] = next[node[t]]
      BY <1>0, <2>5 DEF Counts!Listing!ReadNext, CountTypes, Counts!PairsTypeOK
    <3> QED
      BY <1>0, <2>5, <3>1 DEF Counts!Listing!ReadNext
  <2>6. CASE Counts!TakeFails(t)
    <3>1. node[t] \in Range(order) /\ ptr[t] = node[t] /\ head \in Range(order)
      BY <1>0, <2>6, CountHead DEF Counts!TakeFails
    <3>2. pc'[t] = "dropping" /\ node'[t] = head /\ ptr' = ptr
      BY <1>0, <2>6 DEF Counts!TakeFails, CountTypes, Counts!PairsTypeOK
    <3> QED
      BY <2>6, <3>1, <3>2 DEF Counts!TakeFails
  <2> QED
    BY <2>1, <2>2, <2>3, <2>4, <2>5, <2>6
<1> QED
  BY <1>1, <1>2, <1>3, <1>4, CountQuiet

(* The pair whose count falls is in the list, and is not deleted. *)
LEMMA CountDrops ==
  ASSUME CountInv, NEW t \in Thread, Counts!Drop(t)
  PROVE  /\ CountList'
         /\ UNCHANGED <<nodes, allocated>>
<1> USE DEF Counts!Drop, Counts!Goto
<1>0. CountTypes /\ CountPop(t) /\ CountPlaces
  BY DEF CountInv, CountList
<1>1. ptr[t] \in Range(order) /\ node[t] \in Range(order)
  BY <1>0 DEF CountPop
<1>2. ptr[t] \in Node /\ internal[ptr[t]] \in Int /\ internal[ptr[t]] <= 0
  BY <1>0, <1>1, CountHead DEF CountPlaces, CountTypes, Counts!PairsTypeOK
<1>3. UNCHANGED <<nodes, allocated>>
  BY <1>2
<1>4. \A n \in Node : internal[n] <= 0 => internal'[n] <= 0
  BY <1>0, <1>2 DEF CountTypes, Counts!PairsTypeOK
<1>5. pc'[t] = "counting" /\ counter'[t] = node[t] /\ node' = node /\ order' = order
  BY <1>0 DEF CountTypes, Counts!PairsTypeOK
<1>6. CountPop(t)'
  BY <1>1, <1>5 DEF CountPop
<1>7. \A u \in Thread \ {t} : ~Counts!Popping(u)
  BY DEF CountInv, CountList, OnePop, Counts!Popping
<1> QED
  BY <1>3, <1>4, <1>5, <1>6, <1>7, CountQuiet DEF CountOwning

(* A push leaves what the pop knows. *)
LEMMA CountPopsKept ==
  ASSUME CountInv, NEW t \in Thread, NEW q \in {"idle", "linking", "publishing"},
         ~Counts!Popping(t), pc' = [pc EXCEPT ![t] = q],
         Range(order) \subseteq Range(order'),
         \A n \in Range(order) : next'[n] = next[n],
         \A u \in Thread \ {t} : node'[u] = node[u],
         UNCHANGED <<counter, ptr, nxt>>
  PROVE  OnePop' /\ \A u \in Thread : CountPop(u)'
<1>1. \A u \in Thread : pc'[u] = IF u = t THEN q ELSE pc[u]
  BY DEF CountInv, CountTypes, Counts!PairsTypeOK
<1>2. \A u \in Thread : Counts!Popping(u)' => u # t /\ Counts!Popping(u) /\ pc'[u] = pc[u]
  BY <1>1 DEF Counts!Popping
<1>3. OnePop'
  BY <1>2 DEF CountInv, CountList, OnePop
<1>4. ASSUME NEW u \in Thread
      PROVE  CountPop(u)'
  <2>1. CountPop(u)
    BY DEF CountInv, CountList
  <2>2. CASE Counts!Popping(u)'
    <3>1. pc'[u] = pc[u] /\ node'[u] = node[u]
      BY <1>2, <2>2
    <3> QED
      BY <2>1, <3>1 DEF CountPop
  <2>3. CASE ~Counts!Popping(u)'
    BY <2>3 DEF CountPop, Counts!Popping
  <2> QED
    BY <2>2, <2>3
<1> QED
  BY <1>3, <1>4

LEMMA CountAllocate ==
  ASSUME CountInv, NEW t \in Thread, Counts!Allocate(t)
  PROVE  CountList'
<1>0. CountTypes /\ CountPlaces /\ ListInv /\ \A u \in Thread : PushOf(u)
  BY DEF CountInv, CountList
<1>1. PICK n \in Node \ allocated :
        /\ pc[t] = "idle" /\ pc' = [pc EXCEPT ![t] = "linking"] /\ sent[t] < MaxPush
        /\ allocated' = allocated \cup {n} /\ data' = [data EXCEPT ![n] = <<t, sent[t] + 1>>]
        /\ next' = [next EXCEPT ![n] = Null] /\ node' = [node EXCEPT ![t] = n]
        /\ UNCHANGED <<head, nxt, sent, order, counter, ptr>>
  BY DEF Counts!Allocate, Counts!Listing!Allocate, Counts!Listing!Goto
<1>2. /\ nodes' = nodes \cup {n} /\ internal' = [internal EXCEPT ![n] = 0]
      /\ \A u \in Thread : /\ pc'[u] = IF u = t THEN "linking" ELSE pc[u]
                           /\ node'[u] = IF u = t THEN n ELSE node[u]
  BY <1>0, <1>1 DEF Counts!Allocate, CountTypes, Counts!PairsTypeOK
<1>3. /\ n \notin Range(order)
      /\ \A u \in Thread : pc[u] \in CountOwning => node[u] # n
  BY <1>0, <1>1 DEF CountPlaces
<1>4. \A m \in Node : /\ internal'[m] = IF m = n THEN 0 ELSE internal[m]
                      /\ data'[m] = IF m = n THEN <<t, sent[t] + 1>> ELSE data[m]
                      /\ next'[m] = IF m = n THEN Null ELSE next[m]
  BY <1>0, <1>1, <1>2 DEF CountTypes, Counts!PairsTypeOK
<1>5. \A u \in Thread \ {t} : pc'[u] = pc[u] /\ node'[u] = node[u]
  BY <1>2
<1>6. CountPlaces'
  <2>1. \A m \in Range(order) : m \in allocated' /\ m \in nodes' /\ internal'[m] <= 0
    BY <1>0, <1>1, <1>2, <1>3, <1>4, CountHead DEF CountPlaces
  <2>2. \A u \in Thread : pc'[u] \in CountOwning =>
          node'[u] \in allocated' /\ node'[u] \in nodes' /\ node'[u] \notin Range(order)
    BY <1>0, <1>1, <1>2, <1>3 DEF CountPlaces
  <2>3. \A u, v \in Thread :
          u # v /\ pc'[u] \in CountOwning /\ pc'[v] \in CountOwning => node'[u] # node'[v]
    BY <1>0, <1>2, <1>3 DEF CountPlaces
  <2>4. \A u \in Thread : Pushing(u)' => internal'[node'[u]] <= 0
    <3> TAKE u \in Thread
    <3>1. CASE u = t
      BY <1>2, <1>4, <3>1
    <3>2. CASE u # t
      <4>1. Pushing(u) => node[u] \in Node /\ node[u] # n /\ internal[node[u]] <= 0
        BY <1>0, <1>3 DEF CountPlaces, PushOf, Pushing, CountOwning
      <4> QED
        BY <1>4, <1>5, <3>2, <4>1 DEF Pushing
    <3> QED
      BY <3>1, <3>2
  <2> QED
    BY <1>0, <1>1, <2>1, <2>2, <2>3, <2>4 DEF CountPlaces
<1>7. ListInv'
  <2>1. n \notin Facts!Range(order) /\ next \in [Node -> NodeOrNull]
    BY <1>0, <1>3, Constants, Ranges DEF CountTypes, Counts!PairsTypeOK, NodeOrNull
  <2>2. Facts!Linked(head, [next EXCEPT ![n] = Null], order, Null)
    BY <1>0, <2>1, Facts!LinkedElsewhere, Constants DEF CountPlaces, ListInv, Linked
  <2> QED
    BY <1>1, <2>2 DEF ListInv, Linked
<1>8. \A u \in Thread : PushOf(u)'
  <2> TAKE u \in Thread
  <2>1. CASE u = t
    BY <1>1, <1>2, <1>4, <2>1 DEF PushOf
  <2>2. CASE u # t
    <3>1. Pushing(u) => node[u] \in Node /\ node[u] # n
      BY <1>0, <1>3 DEF PushOf, Pushing, CountOwning
    <3> QED
      BY <1>0, <1>1, <1>4, <1>5, <2>2, <3>1 DEF PushOf, Pushing
  <2> QED
    BY <2>1, <2>2
<1>9. OnePop' /\ \A u \in Thread : CountPop(u)'
  <2>1. ~Counts!Popping(t) /\ \A m \in Range(order) : next'[m] = next[m]
    BY <1>1, <1>3, <1>4, CountHead DEF Counts!Popping
  <2> QED
    BY <1>1, <1>5, <2>1, CountPopsKept
<1> QED
  BY <1>6, <1>7, <1>8, <1>9 DEF CountList

LEMMA CountLinks ==
  ASSUME CountInv, NEW t \in Thread, UNCHANGED Counts!counts,
         Counts!Listing!Link(t) \/ Counts!Listing!PublishFails(t)
  PROVE  CountList'
<1>0. CountTypes /\ CountPlaces /\ ListInv /\ \A u \in Thread : PushOf(u)
  BY DEF CountInv, CountList
<1>1. /\ Pushing(t) /\ pc' = [pc EXCEPT ![t] = "publishing"]
      /\ next' = [next EXCEPT ![node[t]] = head]
      /\ UNCHANGED <<head, data, allocated, node, nxt, sent, order>>
      /\ UNCHANGED <<nodes, internal, counter, ptr>>
  BY <1>0
  DEF Counts!Listing!Link, Counts!Listing!PublishFails, Counts!Listing!Goto, Counts!counts,
      CountTypes, Counts!PairsTypeOK, Pushing
<1>2. /\ \A u \in Thread : pc'[u] = IF u = t THEN "publishing" ELSE pc[u]
      /\ \A u \in Thread : pc'[u] \in CountOwning => pc[u] \in CountOwning
      /\ \A u \in Thread : Pushing(u)' => Pushing(u)
  BY <1>0, <1>1 DEF CountTypes, Counts!PairsTypeOK, Pushing, CountOwning
<1>3. node[t] \in Node /\ node[t] \notin Range(order)
  BY <1>0, <1>1 DEF PushOf, CountPlaces, Pushing, CountOwning
<1>4. CountPlaces'
  BY <1>0, <1>1, <1>2 DEF CountPlaces
<1>5. ListInv'
  <2>1. node[t] \notin Facts!Range(order) /\ next \in [Node -> NodeOrNull]
    BY <1>0, <1>3, Constants, Ranges DEF CountTypes, Counts!PairsTypeOK, NodeOrNull
  <2>2. Facts!Linked(head, [next EXCEPT ![node[t]] = head], order, Null)
    BY <1>0, <1>3, <2>1, Facts!LinkedElsewhere, Constants DEF CountPlaces, ListInv, Linked
  <2> QED
    BY <1>1, <2>2 DEF ListInv, Linked
<1>6. \A u \in Thread : PushOf(u)'
  BY <1>0, <1>1, <1>2 DEF PushOf
<1>7. OnePop' /\ \A u \in Thread : CountPop(u)'
  <2>1. ~Counts!Popping(t) /\ \A m \in Range(order) : next'[m] = next[m]
    BY <1>0, <1>1, <1>3, CountHead DEF Counts!Popping, Pushing, CountTypes, Counts!PairsTypeOK
  <2> QED
    BY <1>1, <2>1, CountPopsKept
<1> QED
  BY <1>4, <1>5, <1>6, <1>7 DEF CountList

LEMMA CountPublish ==
  ASSUME CountInv, NEW t \in Thread, UNCHANGED Counts!counts, Counts!Listing!Publish(t)
  PROVE  CountList'
<1>0. CountTypes /\ CountPlaces /\ ListInv /\ \A u \in Thread : PushOf(u)
  BY DEF CountInv, CountList
<1>1. /\ Pushing(t) /\ pc' = [pc EXCEPT ![t] = "idle"]
      /\ head = next[node[t]] /\ head' = node[t] /\ order' = <<node[t]>> \o order
      /\ sent' = [sent EXCEPT ![t] = @ + 1]
      /\ UNCHANGED <<data, next, allocated, node, nxt, nodes, internal, counter, ptr>>
  BY DEF Counts!Listing!Publish, Counts!Listing!Goto, Counts!counts, Pushing
<1>2. /\ \A u \in Thread : pc'[u] = IF u = t THEN "idle" ELSE pc[u]
      /\ \A u \in Thread : pc'[u] \in CountOwning => u # t /\ pc[u] \in CountOwning
      /\ \A u \in Thread : Pushing(u)' => u # t /\ Pushing(u)
      /\ \A u \in Thread \ {t} : sent'[u] = sent[u]
  BY <1>0, <1>1 DEF CountTypes, Counts!PairsTypeOK, Pushing, CountOwning
<1>3. /\ node[t] \in Node /\ node[t] \notin Range(order) /\ pc[t] \in CountOwning
      /\ internal[node[t]] <= 0
  BY <1>0, <1>1 DEF PushOf, CountPlaces, Pushing, CountOwning
<1>4. Range(order') = {node[t]} \cup Range(order) /\ order' \in Seq(Node)
  BY <1>0, <1>1, <1>3, Facts!RangePush, Constants, Ranges DEF CountPlaces
<1>5. CountPlaces'
  <2>1. \A n \in Range(order') : n \in allocated /\ n \in nodes /\ internal[n] <= 0
    BY <1>0, <1>3, <1>4 DEF CountPlaces
  <2>2. \A u \in Thread : pc'[u] \in CountOwning =>
          node[u] \in allocated /\ node[u] \in nodes /\ node[u] \notin Range(order')
    BY <1>0, <1>2, <1>3, <1>4 DEF CountPlaces
  <2> QED
    BY <1>0, <1>1, <1>2, <1>4, <2>1, <2>2 DEF CountPlaces
<1>6. ListInv'
  <2>1. Facts!Linked(node[t], next, <<node[t]>> \o order, Null)
    BY <1>0, <1>1, <1>3, Facts!LinkedPush, Constants, Ranges DEF CountPlaces, ListInv, Linked
  <2> QED
    BY <1>1, <2>1 DEF ListInv, Linked
<1>7. \A u \in Thread : PushOf(u)'
  BY <1>0, <1>1, <1>2 DEF PushOf
<1>8. OnePop' /\ \A u \in Thread : CountPop(u)'
  <2>1. ~Counts!Popping(t)
    BY <1>1 DEF Counts!Popping, Pushing
  <2> QED
    BY <1>1, <1>4, <2>1, CountPopsKept
<1> QED
  BY <1>5, <1>6, <1>7, <1>8 DEF CountList

(* Where the pop has a pair of its own, nothing else changes hands. *)
LEMMA CountPopTop ==
  ASSUME CountInv, NEW t \in Thread, UNCHANGED Counts!counts, Counts!Listing!PopTop(t)
  PROVE  /\ CountList'
         /\ order # <<>> /\ order[1] = node[t]
<1>0. /\ CountTypes /\ CountPlaces /\ ListInv /\ OnePop
      /\ \A u \in Thread : CountPop(u) /\ PushOf(u)
  BY DEF CountInv, CountList
<1>1. /\ pc[t] = "popping" /\ pc' = [pc EXCEPT ![t] = "returning"]
      /\ head = node[t] /\ head' = nxt[t] /\ order' = Tail(order)
      /\ UNCHANGED <<data, next, allocated, node, nxt, sent, nodes, internal, counter, ptr>>
  BY DEF Counts!Listing!PopTop, Counts!Listing!Goto, Counts!counts
<1>2. /\ node[t] \in Range(order) /\ ptr[t] = node[t] /\ nxt[t] = next[node[t]]
      /\ order # <<>> /\ order[1] = node[t]
  BY <1>0, <1>1, CountHead DEF CountPop
<1>3. Range(order') = Range(order) \ {node[t]} /\ order' \in Seq(Node)
  BY <1>0, <1>1, <1>2, Facts!RangePop, Constants, Ranges
  DEF CountPlaces, ListInv, Linked, Facts!Linked
<1>4. \A u \in Thread : pc'[u] = IF u = t THEN "returning" ELSE pc[u]
  BY <1>0, <1>1 DEF CountTypes, Counts!PairsTypeOK
<1>5. \A u \in Thread \ {t} : ~Counts!Popping(u)
  BY <1>0, <1>1 DEF OnePop, Counts!Popping
<1>6. CountPlaces'
  <2>1. \A n \in Range(order') : n \in allocated /\ n \in nodes /\ internal[n] <= 0
    BY <1>0, <1>3 DEF CountPlaces
  <2>2. \A u \in Thread : pc'[u] \in CountOwning =>
          node[u] \in allocated /\ node[u] \in nodes /\ node[u] \notin Range(order')
    BY <1>0, <1>2, <1>3, <1>4 DEF CountPlaces
  <2>3. \A u, v \in Thread :
          u # v /\ pc'[u] \in CountOwning /\ pc'[v] \in CountOwning => node[u] # node[v]
    BY <1>0, <1>2, <1>4 DEF CountPlaces
  <2>4. \A u \in Thread : Pushing(u)' => Pushing(u)
    BY <1>4 DEF Pushing
  <2> QED
    BY <1>0, <1>1, <1>3, <2>1, <2>2, <2>3, <2>4 DEF CountPlaces
<1>7. ListInv'
  <2>1. Facts!Linked(next[order[1]], next, Tail(order), Null)
    BY <1>0, <1>2, Facts!LinkedPop, Constants DEF CountPlaces, ListInv, Linked
  <2> QED
    BY <1>1, <1>2, <2>1 DEF ListInv, Linked
<1>8. \A u \in Thread : PushOf(u)'
  BY <1>0, <1>1, <1>4 DEF PushOf, Pushing
<1>9. \A u \in Thread \ {t} : ~Counts!Popping(u)'
  BY <1>4, <1>5 DEF Counts!Popping
<1>10. CountPop(t)'
  BY <1>1, <1>2, <1>4 DEF CountPop
<1>11. OnePop' /\ \A u \in Thread : CountPop(u)'
  BY <1>9, <1>10 DEF OnePop, CountPop, Counts!Popping
<1> QED
  BY <1>2, <1>6, <1>7, <1>8, <1>11 DEF CountList

LEMMA CountSwap ==
  ASSUME CountInv, NEW t \in Thread, Counts!SwapData(t)
  PROVE  /\ CountList'
         /\ \A n \in Range(order) : data'[n] = data[n]
<1>0. /\ CountTypes /\ CountPlaces /\ ListInv /\ OnePop
      /\ \A u \in Thread : CountPop(u) /\ PushOf(u)
  BY DEF CountInv, CountList
<1>1. /\ pc[t] = "returning" /\ pc' = [pc EXCEPT ![t] = "settling"]
      /\ data' = [data EXCEPT ![node[t]] = Nothing]
      /\ UNCHANGED <<head, next, allocated, node, nxt, sent, order, nodes, internal, counter, ptr>>
  BY DEF Counts!SwapData, Counts!Goto
<1>2. \A u \in Thread : pc'[u] = IF u = t THEN "settling" ELSE pc[u]
  BY <1>0, <1>1 DEF CountTypes, Counts!PairsTypeOK
<1>3. /\ pc[t] \in CountOwning /\ \A n \in Node : n # node[t] => data'[n] = data[n]
  BY <1>0, <1>1 DEF CountTypes, Counts!PairsTypeOK, CountOwning
<1>4. \A u \in Thread \ {t} : ~Counts!Popping(u)'
  BY <1>0, <1>1, <1>2 DEF OnePop, Counts!Popping
<1>5. CountPlaces'
  <2>1. \A u \in Thread : /\ pc'[u] \in CountOwning => pc[u] \in CountOwning
                          /\ Pushing(u)' => Pushing(u)
    BY <1>2, <1>3 DEF Pushing
  <2> QED
    BY <1>0, <1>1, <2>1 DEF CountPlaces
<1>6. ListInv'
  BY <1>0, <1>1 DEF ListInv
<1>7. \A u \in Thread : PushOf(u)'
  <2> TAKE u \in Thread
  <2>1. Pushing(u)' => u # t /\ Pushing(u) /\ pc[u] \in CountOwning
    BY <1>2 DEF Pushing, CountOwning
  <2>2. Pushing(u)' => node[u] # node[t] /\ node[u] \in Node
    BY <1>0, <1>3, <2>1 DEF CountPlaces, PushOf
  <2> QED
    BY <1>0, <1>1, <1>3, <2>1, <2>2 DEF PushOf
<1>8. CountPop(t)'
  BY <1>0, <1>1, <1>2 DEF CountPop
<1>9. OnePop' /\ \A u \in Thread : CountPop(u)'
  BY <1>4, <1>8 DEF OnePop, CountPop, Counts!Popping
<1>10. \A n \in Range(order) : data'[n] = data[n]
  BY <1>0, <1>3, CountHead DEF CountPlaces
<1> QED
  BY <1>5, <1>6, <1>7, <1>9, <1>10 DEF CountList

(* What a pop deletes is the pair that it has taken. *)
LEMMA CountSettle ==
  ASSUME CountInv, NEW t \in Thread, Counts!Settle(t)
  PROVE  CountList'
<1>0. /\ CountTypes /\ CountPlaces /\ ListInv /\ OnePop
      /\ \A u \in Thread : CountPop(u) /\ PushOf(u)
  BY DEF CountInv, CountList
<1>1. /\ pc[t] = "settling" /\ pc' = [pc EXCEPT ![t] = "idle"]
      /\ internal' = [internal EXCEPT ![ptr[t]] = @ + count[t]]
      /\ UNCHANGED <<head, data, next, node, nxt, sent, order, counter, ptr>>
  BY DEF Counts!Settle, Counts!Goto
<1>2. ptr[t] = node[t] /\ node[t] \notin Range(order) /\ pc[t] \in CountOwning
  BY <1>0, <1>1 DEF CountPop, CountPlaces, CountOwning
<1>3. /\ \A n : n \in nodes /\ n # node[t] => n \in nodes'
      /\ \A n : n \in allocated /\ n # node[t] => n \in allocated'
      /\ \A n \in Node : n # node[t] => internal'[n] = internal[n]
  <2>1. /\ nodes' = nodes \/ nodes' = nodes \ {ptr[t]}
        /\ allocated' = allocated \/ allocated' = allocated \ {node[t]}
    BY DEF Counts!Settle
  <2>2. \A n \in Node : n # node[t] => internal'[n] = internal[n]
    BY <1>0, <1>1, <1>2 DEF CountTypes, Counts!PairsTypeOK
  <2> QED
    BY <1>2, <2>1, <2>2
<1>4. \A u \in Thread : pc'[u] = IF u = t THEN "idle" ELSE pc[u]
  BY <1>0, <1>1 DEF CountTypes, Counts!PairsTypeOK
<1>5. /\ \A u \in Thread : pc'[u] \in CountOwning =>
           u # t /\ pc[u] \in CountOwning /\ node[u] # node[t]
      /\ \A u \in Thread : Pushing(u)' => Pushing(u) /\ node[u] # node[t] /\ node[u] \in Node
  <2>1. \A u \in Thread : pc'[u] \in CountOwning => u # t /\ pc[u] \in CountOwning
    BY <1>4 DEF CountOwning
  <2>2. \A u \in Thread : Pushing(u)' => Pushing(u) /\ pc'[u] \in CountOwning
    BY <1>4 DEF Pushing, CountOwning
  <2> QED
    BY <1>0, <1>2, <2>1, <2>2 DEF CountPlaces, PushOf
<1>6. CountPlaces'
  <2>1. \A n \in Range(order) : n \in allocated' /\ n \in nodes' /\ internal'[n] <= 0
    BY <1>0, <1>2, <1>3, CountHead DEF CountPlaces
  <2>2. \A u \in Thread : pc'[u] \in CountOwning =>
          node[u] \in allocated' /\ node[u] \in nodes' /\ node[u] \notin Range(order)
    BY <1>0, <1>3, <1>5 DEF CountPlaces
  <2>3. \A u, v \in Thread :
          u # v /\ pc'[u] \in CountOwning /\ pc'[v] \in CountOwning => node[u] # node[v]
    BY <1>0, <1>5 DEF CountPlaces
  <2>4. \A u \in Thread : Pushing(u)' => internal'[node[u]] <= 0
    BY <1>0, <1>3, <1>5 DEF CountPlaces
  <2> QED
    BY <1>0, <1>1, <2>1, <2>2, <2>3, <2>4 DEF CountPlaces
<1>7. ListInv'
  BY <1>0, <1>1 DEF ListInv
<1>8. \A u \in Thread : PushOf(u)'
  BY <1>0, <1>1, <1>5 DEF PushOf
<1>9. \A u \in Thread : ~Counts!Popping(u)'
  BY <1>0, <1>1, <1>4 DEF OnePop, Counts!Popping
<1>10. OnePop' /\ \A u \in Thread : CountPop(u)'
  BY <1>9 DEF OnePop, CountPop, Counts!Popping
<1> QED
  BY <1>6, <1>7, <1>8, <1>10 DEF CountList

LEMMA CountNext ==
  ASSUME ~Overlapping, CountInv, Counts!Next
  PROVE  CountInv'
<1>1. CountTypes'
  BY CountTypesNext DEF CountInv
<1>2. PICK t \in Thread : ~Counts!Misuses(t) /\ (Counts!push(t) \/ Counts!pop(t))
  BY DEF Counts!Next
<1>3. CASE Counts!push(t)
  BY <1>1, <1>3, CountAllocate, CountLinks, CountPublish
  DEF CountInv, Counts!push, Counts!Listing!push
<1>4. CASE Counts!pop(t)
  BY <1>1, <1>2, <1>4, CountLoads, CountLoops, CountDrops, CountPopTop, CountSwap, CountSettle
  DEF CountInv, Counts!pop, Counts!Take
<1> QED
  BY <1>2, <1>3, <1>4

LEMMA CountKept ==
  ASSUME UNCHANGED <<stack, counts>>
  PROVE  (CountTypes => CountTypes') /\ (CountInv => CountInv')
<1> USE DEF stack, counts
<1>1. CountTypes => CountTypes'
  BY DEF CountTypes, Counts!PairsTypeOK, Pushing
<1>2. CountPlaces => CountPlaces'
  BY DEF CountPlaces, Pushing
<1>3. (ListInv => ListInv') /\ (OnePop => OnePop')
  BY DEF ListInv, OnePop, Counts!Popping
<1>4. \A t \in Thread : (CountPop(t) => CountPop(t)') /\ (PushOf(t) => PushOf(t)')
  BY DEF CountPop, PushOf, Pushing
<1> QED
  BY <1>1, <1>2, <1>3, <1>4 DEF CountInv, CountList

-----------------------------------------------------------------------------
(* What follows for 7.10 *)

LEMMA CountMemory == ASSUME CountInv PROVE Counts!OnlyNullMisused
<1> SUFFICES ASSUME NEW t \in Thread, Counts!Misuses(t)
             PROVE  pc[t] = "counting" /\ counter[t] = Null
  BY DEF Counts!OnlyNullMisused
<1>1. CountTypes /\ CountPlaces /\ CountPop(t)
  BY DEF CountInv, CountList
<1>2. \A n \in Range(order) : n \in allocated /\ n \in nodes
  BY <1>1 DEF CountPlaces
<1>3. CASE pc[t] \in CountOwning
  <2>1. node[t] \in allocated /\ node[t] \in nodes
    BY <1>1, <1>3 DEF CountPlaces
  <2>2. pc[t] \in {"returning", "settling"} => ptr[t] = node[t]
    BY <1>1 DEF CountPop
  <2>3. Counts!UsedCounters(t) \subseteq {node[t]} /\ Counts!UsedNodes(t) \subseteq {node[t]}
    BY <1>3, <2>2 DEF CountOwning, Counts!UsedCounters, Counts!UsedNodes
  <2> QED
    BY <2>1, <2>3 DEF Counts!Misuses
<1>4. CASE pc[t] = "counting"
  <2>1. Counts!UsedCounters(t) = {counter[t]} /\ Counts!UsedNodes(t) = {}
    BY <1>4 DEF Counts!UsedCounters, Counts!UsedNodes
  <2> QED
    BY <1>1, <1>2, <1>4, <2>1 DEF CountPop, Counts!Misuses
<1>5. CASE pc[t] \in {"raising", "resolving", "reading", "dropping"}
  <2>1. /\ pc[t] = "raising" => counter[t] \in Range(order)
        /\ pc[t] \in {"resolving", "dropping"} => node[t] \in Range(order)
        /\ pc[t] \in {"reading", "dropping"} => ptr[t] \in Range(order)
    BY <1>1 DEF CountPop
  <2>2. Counts!UsedCounters(t) \subseteq Range(order)
    BY <1>5, <2>1 DEF Counts!UsedCounters
  <2>3. Counts!UsedNodes(t) \subseteq Range(order)
    BY <1>5, <2>1 DEF Counts!UsedNodes
  <2> QED
    BY <1>2, <2>2, <2>3 DEF Counts!Misuses
<1>6. CASE pc[t] \in {"idle", "confirming", "popping"}
  <2>1. Counts!UsedCounters(t) = {} /\ Counts!UsedNodes(t) = {}
    BY <1>6 DEF Counts!UsedCounters, Counts!UsedNodes
  <2> QED
    BY <2>1 DEF Counts!Misuses
<1> QED
  BY <1>1, <1>3, <1>4, <1>5, <1>6 DEF CountTypes, Counts!PairsTypeOK, Counts!Places, CountOwning

LEMMA CountPushes ==
  ASSUME CountInv, NEW t \in Thread, Counts!Listing!Publish(t)
  PROVE  /\ sent[t] < MaxPush /\ sent' = [sent EXCEPT ![t] = @ + 1]
         /\ Content' = <<<<t, sent[t] + 1>>>> \o Content
         /\ Counts!Returned' = Counts!Returned
<1> USE DEF Counts!Listing!Publish, Counts!Listing!Goto
<1>1. /\ node[t] \in Node /\ order \in Seq(Node)
      /\ data[node[t]] = <<t, sent[t] + 1>> /\ sent[t] < MaxPush
  BY DEF CountInv, CountList, CountPlaces, PushOf, Pushing
<1>2. Content' = <<data[node[t]]>> \o Content
  BY <1>1, ContentPush
<1>3. Counts!Returned' = Counts!Returned
  BY DEF CountInv, CountTypes, Counts!PairsTypeOK, Counts!Returned
<1> QED
  BY <1>1, <1>2, <1>3

LEMMA CountTakes ==
  ASSUME CountInv, NEW t \in Thread, Counts!Listing!PopTop(t), UNCHANGED Counts!counts
  PROVE  /\ Content # <<>> /\ Content' = Tail(Content) /\ sent' = sent
         /\ Counts!Returned' = [Counts!Returned EXCEPT ![t] = Head(Content)]
<1>1. order \in Seq(Node) /\ order # <<>> /\ order[1] = node[t]
  BY CountPopTop, CountHead
<1> USE DEF Counts!Listing!PopTop, Counts!Listing!Goto
<1>2. Content # <<>> /\ Head(Content) = data[node[t]] /\ Content' = Tail(Content)
  BY <1>1, ContentPop
<1>3. Counts!Returned' = [Counts!Returned EXCEPT ![t] = data[node[t]]]
  BY DEF CountInv, CountTypes, Counts!PairsTypeOK, Counts!Returned
<1> QED
  BY <1>2, <1>3

(* The node that is written is not in the list. *)
LEMMA CountWrites ==
  ASSUME CountInv, NEW t \in Thread, Counts!Allocate(t) \/ Counts!SwapData(t)
  PROVE  UNCHANGED <<Content, sent, Counts!Returned>>
<1>0. /\ CountTypes /\ CountPlaces /\ OnePop /\ order \in Seq(Node)
      /\ Range(order) \subseteq Node
  BY CountHead DEF CountInv, CountList
<1>1. CASE Counts!Allocate(t)
  <2>1. PICK n \in Node \ allocated :
          /\ pc[t] = "idle" /\ pc' = [pc EXCEPT ![t] = "linking"]
          /\ data' = [data EXCEPT ![n] = <<t, sent[t] + 1>>]
          /\ node' = [node EXCEPT ![t] = n] /\ UNCHANGED <<sent, order, result>>
    BY <1>1 DEF Counts!Allocate, Counts!Listing!Allocate, Counts!Listing!Goto
  <2>2. \A m \in Node : m # n => data'[m] = data[m]
    BY <1>0, <2>1 DEF CountTypes, Counts!PairsTypeOK
  <2>3. /\ n \notin Range(order) /\ \A u \in Thread : pc[u] = "returning" => node[u] # n
    BY <1>0, <2>1 DEF CountPlaces, CountOwning
  <2>4. Content' = Content
    BY <1>0, <2>1, <2>2, <2>3, ContentSame
  <2>5. \A u \in Thread : /\ pc'[u] = IF u = t THEN "linking" ELSE pc[u]
                          /\ u # t => node'[u] = node[u]
    BY <1>0, <2>1 DEF CountTypes, Counts!PairsTypeOK
  <2>6. \A u \in Thread : pc[u] = "returning" => u # t /\ data'[node[u]] = data[node[u]]
    BY <1>0, <2>1, <2>2, <2>3 DEF CountTypes
  <2>7. Counts!Returned' = Counts!Returned
    BY <2>1, <2>5, <2>6 DEF Counts!Returned
  <2> QED
    BY <2>1, <2>4, <2>7
<1>2. CASE Counts!SwapData(t)
  <2>1. /\ pc[t] = "returning" /\ pc' = [pc EXCEPT ![t] = "settling"]
        /\ result' = [result EXCEPT ![t] = data[node[t]]] /\ UNCHANGED <<sent, order, node>>
    BY <1>2 DEF Counts!SwapData, Counts!Goto
  <2>2. Content' = Content
    BY <1>0, <1>2, <2>1, CountSwap, ContentSame
  <2>3. \A u \in Thread \ {t} :
          pc[u] # "returning" /\ pc'[u] # "returning" /\ result'[u] = result[u]
    BY <1>0, <2>1 DEF OnePop, Counts!Popping, CountTypes, Counts!PairsTypeOK
  <2>4. pc'[t] = "settling" /\ result'[t] = data[node[t]]
    BY <1>0, <2>1 DEF CountTypes, Counts!PairsTypeOK
  <2>5. \A u \in Thread : Counts!Returned'[u] = Counts!Returned[u]
    BY <2>1, <2>3, <2>4 DEF Counts!Returned
  <2>6. Counts!Returned' = Counts!Returned
    BY <2>5 DEF Counts!Returned
  <2> QED
    BY <2>1, <2>2, <2>6
<1> QED
  BY <1>1, <1>2

LEMMA CountStutters ==
  ASSUME CountInv, NEW t \in Thread,
         \/ Counts!Listing!Link(t) \/ Counts!Listing!PublishFails(t)
         \/ Counts!Listing!ReadNext(t) \/ Counts!LoadHead(t) \/ Counts!ReadCount(t)
         \/ Counts!WriteCount(t) \/ Counts!Confirm(t) \/ Counts!Resolve(t)
         \/ Counts!TakeFails(t) \/ Counts!Drop(t) \/ Counts!Settle(t)
  PROVE  UNCHANGED <<Content, sent, Counts!Returned>>
<1> USE DEF Counts!Listing!Link, Counts!Listing!PublishFails, Counts!Listing!ReadNext,
            Counts!LoadHead, Counts!ReadCount, Counts!WriteCount, Counts!Confirm,
            Counts!Resolve, Counts!TakeFails, Counts!Drop, Counts!Settle
<1>1. UNCHANGED <<data, order, sent, result>>
  OBVIOUS
<1>2. Content' = Content
  BY <1>1 DEF Content
<1>3. \A u \in Thread : /\ pc[u] = "returning" <=> pc'[u] = "returning"
                        /\ pc[u] = "returning" => node'[u] = node[u]
  BY DEF Counts!Listing!Goto, Counts!Goto, CountInv, CountTypes, Counts!PairsTypeOK
<1>4. Counts!Returned' = Counts!Returned
  BY <1>1, <1>3 DEF Counts!Returned
<1> QED
  BY <1>1, <1>2, <1>4

LEMMA CountImplements ==
  ASSUME CountInv, Counts!Next, program = "counts", program' = "counts"
  PROVE  Abstract!Next \/ UNCHANGED <<Content, sent, Returned>>
<1>1. PICK t \in Thread : Counts!push(t) \/ Counts!pop(t)
  BY DEF Counts!Next
<1>2. Returned = Counts!Returned /\ Returned' = Counts!Returned'
  BY DEF Returned
<1>3. CASE Counts!Listing!Publish(t)
  BY <1>2, <1>3, CountPushes DEF Abstract!Push, Abstract!Next
<1>4. CASE Counts!Listing!PopTop(t) /\ UNCHANGED Counts!counts
  BY <1>2, <1>4, CountTakes DEF Abstract!Pop, Abstract!Next
<1>5. CASE Counts!Allocate(t) \/ Counts!SwapData(t)
  BY <1>2, <1>5, CountWrites
<1>6. CASE ~(\/ Counts!Listing!Publish(t) \/ (Counts!Listing!PopTop(t) /\ UNCHANGED Counts!counts)
             \/ Counts!Allocate(t) \/ Counts!SwapData(t))
  <2>1. UNCHANGED <<Content, sent, Counts!Returned>>
    BY <1>1, <1>6, CountStutters DEF Counts!push, Counts!Listing!push, Counts!pop, Counts!Take
  <2> QED
    BY <1>2, <2>1
<1> QED
  BY <1>3, <1>4, <1>5, <1>6

-----------------------------------------------------------------------------
(* The three programs together *)

StackInv ==
  /\ program \in {"pending", "hazards", "counts"}
  /\ program = "pending" => PendingInv
  /\ program = "hazards" => HazardInv
  /\ program = "counts" => CountTypes /\ (~Overlapping => CountInv)

LEMMA StackInit == Init => StackInv
BY PendingInit, HazardInit, CountInit, ConstantsAssumption DEF Init, StackInv

LEMMA StackNext == StackInv /\ [Next]_vars => StackInv'
<1> SUFFICES ASSUME StackInv, [Next]_vars PROVE StackInv'
  OBVIOUS
<1>1. CASE program = "pending" /\ Pending!Next /\ UNCHANGED <<program, hazards, counts>>
  BY <1>1, PendingNext DEF StackInv
<1>2. CASE program = "hazards" /\ Hazards!Next /\ UNCHANGED <<program, reclaim, counts>>
  BY <1>2, HazardNext DEF StackInv
<1>3. CASE program = "counts" /\ Counts!Next /\ UNCHANGED <<program, reclaim, hazards>>
  BY <1>3, CountTypesNext, CountNext DEF StackInv
<1>4. CASE UNCHANGED vars
  <2>1. /\ UNCHANGED <<program, stack, hazards, counts>>
        /\ UNCHANGED <<to_be_deleted, threads_in_pop, first, last, broken, pending, chain>>
    BY <1>4 DEF vars, reclaim
  <2>2. PendingInv => PendingInv'
    <3>1. PendingInv => broken' \in BOOLEAN
      BY <2>1 DEF PendingInv, Pending!TypeOK
    <3> QED
      BY <2>1, <3>1, PendingKept
  <2>3. HazardInv => HazardInv'
    BY <2>1, HazardKept
  <2>4. (CountTypes => CountTypes') /\ (CountInv => CountInv')
    BY <2>1, CountKept
  <2> QED
    BY <2>1, <2>2, <2>3, <2>4 DEF StackInv
<1> QED
  BY <1>1, <1>2, <1>3, <1>4 DEF Next

LEMMA StackCorrect == Spec => []StackInv
BY StackInit, StackNext, PTL DEF Spec

(* Every variable of the chosen program has a value of its type.  For 7.10 *)
(* this holds however many pops overlap, since a thread stops before it    *)
(* uses what is not there; only of the auxiliary order nothing is said     *)
(* there.                                                                  *)
THEOREM TypeCorrect == Spec => []TypeOK
<1>1. program = "counts" /\ StackInv => Counts!TypeOK
  BY DEF StackInv, CountTypes, CountInv, CountList, CountPlaces, Counts!TypeOK, Counts!CallsTypeOK,
         NodeOrNull
<1>2. StackInv => TypeOK
  BY <1>1, HazardFacts DEF StackInv, PendingInv, TypeOK
<1> QED
  BY <1>2, StackCorrect, PTL

(* 7.4 and 7.6 lose no node and give none to two owners: each node that is *)
(* alive is in the list, in the chain that waits to be deleted, or with    *)
(* one thread.                                                             *)
THEOREM NodesCorrect == Spec => []EveryNodeHasOnePlace
<1>1. StackInv => EveryNodeHasOnePlace
  BY PendingNodes, HazardNodes DEF StackInv, EveryNodeHasOnePlace
<1> QED
  BY <1>1, StackCorrect, PTL

(* The slots of 7.6 let one thread pop at a time, although the constructor *)
(* of hp_owner goes through max_hazard_pointers of them.                   *)
THEOREM SlotsLetOnePop == Spec => []PopsNeverOverlap
<1>1. StackInv => PopsNeverOverlap
  BY HazardFacts DEF StackInv, PopsNeverOverlap
<1> QED
  BY <1>1, StackCorrect, PTL

(* What the three pops delete is not used any more: try_reclaim of 7.4,    *)
(* the search through the hazard pointers of 7.6, and the counts of 7.10   *)
(* where one thread pops at a time.                                        *)
THEOREM MemorySafe == ASSUME ~Overlapping PROVE Spec => []OnlyNullMisused
<1>1. StackInv => OnlyNullMisused
  BY PendingMemory, HazardMemory, CountMemory DEF StackInv, OnlyNullMisused
<1> QED
  BY <1>1, StackCorrect, PTL

-----------------------------------------------------------------------------
(* The refinement *)

LEMMA StackBegins == Init => Abstract!Init
<1> SUFFICES ASSUME Init PROVE Abstract!Init
  OBVIOUS
<1>1. /\ Pending!Init /\ program \in {"pending", "hazards", "counts"}
  BY ConstantsAssumption DEF Init
<1> USE DEF Pending!Init, Pending!Listing!Init
<1>2. Content = <<>>
  BY <1>1, ContentEmpty
<1>3. Returned = [t \in Thread |-> Nothing]
  BY <1>1 DEF Returned, Pending!Listing!Returned, Hazards!Returned, Counts!Returned
<1> QED
  BY <1>1, <1>2, <1>3 DEF Abstract!Init

LEMMA StackSteps ==
  ~Overlapping /\ StackInv /\ [Next]_vars => [Abstract!Next]_<<Content, sent, Returned>>
<1> SUFFICES ASSUME ~Overlapping, StackInv, [Next]_vars
             PROVE  Abstract!Next \/ UNCHANGED <<Content, sent, Returned>>
  OBVIOUS
<1>1. CASE program = "pending" /\ Pending!Next /\ UNCHANGED <<program, hazards, counts>>
  BY <1>1, PendingImplements DEF StackInv
<1>2. CASE program = "hazards" /\ Hazards!Next /\ UNCHANGED <<program, reclaim, counts>>
  BY <1>2, HazardImplements DEF StackInv
<1>3. CASE program = "counts" /\ Counts!Next /\ UNCHANGED <<program, reclaim, hazards>>
  BY <1>3, CountImplements DEF StackInv
<1>4. CASE UNCHANGED vars
  <2>1. UNCHANGED <<program, data, pc, node, sent, result, order>>
    BY <1>4 DEF vars, stack
  <2>2. Content' = Content
    BY <2>1 DEF Content
  <2>3. Returned' = Returned
    BY <2>1 DEF Returned, Pending!Listing!Returned, Hazards!Returned, Counts!Returned
  <2> QED
    BY <2>1, <2>2, <2>3
<1> QED
  BY <1>1, <1>2, <1>3, <1>4 DEF Next

(* Each of the three is a stack to its callers: a push takes effect when   *)
(* its compare_exchange succeeds and a pop when it takes the top node or   *)
(* loads a null head, although nodes are deleted and their addresses come  *)
(* back while others pop (7.10: where one thread pops at a time).          *)
THEOREM ImplementsStack == ASSUME ~Overlapping PROVE Spec => IsAStack
<1>1. StackInv /\ [Next]_vars => [Abstract!Next]_<<Content, sent, Returned>>
  BY StackSteps
<1> QED
  BY <1>1, StackBegins, StackCorrect, PTL DEF Spec, IsAStack, Abstract!Spec

=============================================================================
