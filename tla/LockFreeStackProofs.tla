------------------------- MODULE LockFreeStackProofs -------------------------
(***************************************************************************)
(* Proofs about LockFreeStack for every number of threads, nodes and       *)
(* calls: the list stays intact and the stack implements AbstractStack,    *)
(* its calls taking effect at their successful compare_exchange_weak.      *)
(* The lemmas on linked lists come first; the proofs about 7.6 use them    *)
(* too.                                                                    *)
(***************************************************************************)
EXTENDS LockFreeStack, TLAPS, SequenceTheorems

(* A node put in front of a list of nodes. *)
LEMMA PushFront ==
  ASSUME NEW N, NEW o \in Seq(N), NEW n \in N
  PROVE  /\ <<n>> \o o \in Seq(N)
         /\ Len(<<n>> \o o) = Len(o) + 1
         /\ (<<n>> \o o)[1] = n
         /\ \A i \in 1 .. Len(o) : (<<n>> \o o)[i + 1] = o[i]
         /\ \A i \in 2 .. Len(o) + 1 : (<<n>> \o o)[i] = o[i - 1]
OBVIOUS

(* The top node taken from a list of nodes. *)
LEMMA PopFront ==
  ASSUME NEW N, NEW o \in Seq(N), o # <<>>
  PROVE  /\ Tail(o) \in Seq(N)
         /\ Len(o) > 0
         /\ Len(Tail(o)) = Len(o) - 1
         /\ Head(o) = o[1]
         /\ \A i \in 1 .. Len(o) - 1 : Tail(o)[i] = o[i + 1]
OBVIOUS

-----------------------------------------------------------------------------
(* Items *)

(* The items of a list of nodes, top first. *)
Items(d, o) == [i \in 1 .. Len(o) |-> d[o[i]]]

(* A change of the data of other nodes. *)
LEMMA ItemsSame ==
  ASSUME NEW N, NEW o \in Seq(N), NEW d, NEW e, \A n \in Range(o) : d[n] = e[n]
  PROVE  Items(d, o) = Items(e, o)
<1>1. \A i \in 1 .. Len(o) : d[o[i]] = e[o[i]]
  BY DEF Range
<1> QED
  BY <1>1 DEF Items

(* A node put in front of the list puts its item in front. *)
LEMMA ItemsPush ==
  ASSUME NEW d, NEW N, NEW o \in Seq(N), NEW n \in N
  PROVE  Items(d, <<n>> \o o) = <<d[n]>> \o Items(d, o)
<1> DEFINE S == {d[m] : m \in N}
           long == <<n>> \o o
           lhs == Items(d, long)
           rhs == <<d[n]>> \o Items(d, o)
<1>1. /\ long \in Seq(N)
      /\ Len(long) = Len(o) + 1
      /\ long[1] = n
      /\ \A i \in 2 .. Len(o) + 1 : long[i] = o[i - 1]
  BY PushFront
<1>2. Len(o) \in Nat /\ \A i \in 1 .. Len(o) : o[i] \in N
  OBVIOUS
<1> HIDE DEF long
<1>3. lhs \in Seq(S) /\ Len(lhs) = Len(o) + 1 /\ \A i \in 1 .. Len(o) + 1 : lhs[i] = d[long[i]]
  BY <1>1, <1>2 DEF Items
<1>4. /\ Items(d, o) \in Seq(S) /\ Len(Items(d, o)) = Len(o)
      /\ \A i \in 1 .. Len(o) : Items(d, o)[i] = d[o[i]]
  BY <1>2 DEF Items
<1>5. d[n] \in S
  OBVIOUS
<1> HIDE DEF S
<1>6. rhs \in Seq(S) /\ Len(rhs) = Len(o) + 1 /\ rhs[1] = d[n]
      /\ \A i \in 2 .. Len(o) + 1 : rhs[i] = Items(d, o)[i - 1]
  BY <1>2, <1>4, <1>5
<1>7. \A i \in 1 .. Len(o) + 1 : lhs[i] = rhs[i]
  <2> SUFFICES ASSUME NEW i \in 1 .. Len(o) + 1
               PROVE  lhs[i] = rhs[i]
    OBVIOUS
  <2>1. CASE i = 1
    BY <1>1, <1>3, <1>6, <2>1
  <2>2. CASE i # 1
    <3>1. i \in 2 .. Len(o) + 1 /\ i - 1 \in 1 .. Len(o)
      BY <1>2, <2>2
    <3> QED
      BY <1>1, <1>3, <1>4, <1>6, <3>1
  <2> QED
    BY <2>1, <2>2
<1> HIDE DEF lhs, rhs
<1>8. lhs = rhs
  BY <1>3, <1>6, <1>7, SeqEqual
<1> QED
  BY <1>8 DEF lhs, rhs, long

(* The top node of the list holds the top item. *)
LEMMA ItemsPop ==
  ASSUME NEW d, NEW N, NEW o \in Seq(N), o # <<>>
  PROVE  /\ Items(d, o) # <<>>
         /\ Head(Items(d, o)) = d[o[1]]
         /\ Tail(Items(d, o)) = Items(d, Tail(o))
<1> DEFINE S == {d[m] : m \in N}
           all == Items(d, o)
           rest == Items(d, Tail(o))
<1>1. /\ Tail(o) \in Seq(N) /\ Len(o) \in Nat /\ Len(o) > 0
      /\ Len(Tail(o)) = Len(o) - 1
      /\ \A i \in 1 .. Len(o) - 1 : Tail(o)[i] = o[i + 1]
  BY PopFront
<1>2. \A i \in 1 .. Len(o) : o[i] \in N
  OBVIOUS
<1>3. all \in Seq(S) /\ Len(all) = Len(o) /\ \A i \in 1 .. Len(o) : all[i] = d[o[i]]
  BY <1>1, <1>2 DEF Items
<1>4. /\ rest \in Seq(S) /\ Len(rest) = Len(o) - 1
      /\ \A i \in 1 .. Len(o) - 1 : rest[i] = d[Tail(o)[i]]
  <2>1. \A i \in 1 .. Len(Tail(o)) : Tail(o)[i] \in N
    BY <1>1
  <2> QED
    BY <1>1, <2>1 DEF Items
<1> HIDE DEF S, all, rest
<1>5. all # <<>> /\ Head(all) = all[1]
  BY <1>1, <1>3
<1>6. /\ Tail(all) \in Seq(S) /\ Len(Tail(all)) = Len(o) - 1
      /\ \A i \in 1 .. Len(o) - 1 : Tail(all)[i] = all[i + 1]
  BY <1>1, <1>3, <1>5
<1>7. \A i \in 1 .. Len(o) - 1 : Tail(all)[i] = rest[i]
  <2> TAKE i \in 1 .. Len(o) - 1
  <2>1. i + 1 \in 1 .. Len(o)
    BY <1>1
  <2>2. Tail(all)[i] = all[i + 1]
    BY <1>6
  <2>3. all[i + 1] = d[o[i + 1]]
    BY <1>3, <2>1
  <2>4. rest[i] = d[o[i + 1]]
    BY <1>1, <1>4
  <2> QED
    BY <2>2, <2>3, <2>4
<1>8. Tail(all) = rest
  BY <1>4, <1>6, <1>7, SeqEqual
<1>9. all[1] = d[o[1]]
  BY <1>1, <1>3
<1> QED
  BY <1>5, <1>8, <1>9 DEF all, rest

-----------------------------------------------------------------------------
(* The nodes of a list *)

NoTwice(o) == \A i, j \in 1 .. Len(o) : o[i] = o[j] => i = j

LEMMA RangePush ==
  ASSUME NEW N, NEW o \in Seq(N), NEW n \in N
  PROVE  Range(<<n>> \o o) = {n} \cup Range(o)
<1> DEFINE l == <<n>> \o o
<1>1. /\ Len(o) \in Nat /\ DOMAIN o = 1 .. Len(o)
      /\ DOMAIN l = 1 .. Len(o) + 1
      /\ l[1] = n
      /\ \A i \in 1 .. Len(o) : l[i + 1] = o[i]
      /\ \A i \in 2 .. Len(o) + 1 : l[i] = o[i - 1]
  BY PushFront
<1> HIDE DEF l
<1>2. Range(l) \subseteq {n} \cup Range(o)
  <2> SUFFICES ASSUME NEW i \in 1 .. Len(o) + 1, i # 1
               PROVE  l[i] \in Range(o)
    BY <1>1 DEF Range
  <2>1. i \in 2 .. Len(o) + 1 /\ i - 1 \in 1 .. Len(o)
    BY <1>1
  <2> QED
    BY <1>1, <2>1 DEF Range
<1>3. n \in Range(l)
  BY <1>1 DEF Range
<1>4. Range(o) \subseteq Range(l)
  <2> SUFFICES ASSUME NEW i \in 1 .. Len(o)
               PROVE  o[i] \in Range(l)
    BY <1>1 DEF Range
  <2>1. i + 1 \in 1 .. Len(o) + 1 /\ l[i + 1] = o[i]
    BY <1>1
  <2> QED
    BY <1>1, <2>1 DEF Range
<1>5. Range(l) = {n} \cup Range(o)
  BY <1>2, <1>3, <1>4
<1> QED
  BY <1>5 DEF l

LEMMA RangePop ==
  ASSUME NEW N, NEW o \in Seq(N), o # <<>>, NoTwice(o)
  PROVE  /\ o[1] \in Range(o)
         /\ Range(Tail(o)) = Range(o) \ {o[1]}
<1> DEFINE l == Tail(o)
<1>1. /\ Len(o) \in Nat /\ Len(o) > 0 /\ DOMAIN o = 1 .. Len(o)
      /\ DOMAIN l = 1 .. Len(o) - 1
      /\ \A i \in 1 .. Len(o) - 1 : l[i] = o[i + 1]
  BY PopFront
<1> HIDE DEF l
<1>2. o[1] \in Range(o)
  BY <1>1 DEF Range
<1>3. Range(l) \subseteq Range(o) \ {o[1]}
  <2> SUFFICES ASSUME NEW i \in 1 .. Len(o) - 1
               PROVE  l[i] \in Range(o) \ {o[1]}
    BY <1>1 DEF Range
  <2>1. i + 1 \in 1 .. Len(o) /\ i + 1 # 1 /\ 1 \in 1 .. Len(o) /\ l[i] = o[i + 1]
    BY <1>1
  <2>2. o[i + 1] # o[1]
    BY <2>1 DEF NoTwice
  <2> QED
    BY <1>1, <2>1, <2>2 DEF Range
<1>4. Range(o) \ {o[1]} \subseteq Range(l)
  <2> SUFFICES ASSUME NEW i \in 1 .. Len(o), i # 1
               PROVE  o[i] \in Range(l)
    BY <1>1 DEF Range
  <2>1. i - 1 \in 1 .. Len(o) - 1 /\ (i - 1) + 1 = i
    BY <1>1
  <2>2. l[i - 1] = o[i]
    BY <1>1, <2>1
  <2> QED
    BY <1>1, <2>1, <2>2 DEF Range
<1>5. Range(l) = Range(o) \ {o[1]}
  BY <1>3, <1>4
<1> QED
  BY <1>2, <1>5 DEF l

-----------------------------------------------------------------------------
(* Linked lists: from head h the next pointers nx lead through o to null *)

Linked(h, nx, o, null) ==
  /\ h = IF o = <<>> THEN null ELSE o[1]
  /\ \A i \in 1 .. Len(o) : nx[o[i]] = IF i = Len(o) THEN null ELSE o[i + 1]
  /\ NoTwice(o)

LEMMA LinkedHead ==
  ASSUME NEW N, NEW o \in Seq(N), NEW h, NEW nx, NEW null, null \notin N, Linked(h, nx, o, null)
  PROVE  /\ h = null => o = <<>>
         /\ h # null => o # <<>> /\ h = o[1] /\ h \in Range(o)
<1>1. o # <<>> => o[1] \in N /\ o[1] \in Range(o)
  <2>1. Len(o) \in Nat /\ (o # <<>> => Len(o) # 0) /\ DOMAIN o = 1 .. Len(o)
    OBVIOUS
  <2> QED
    BY <2>1 DEF Range
<1> QED
  BY <1>1 DEF Linked

LEMMA LinkedPush ==
  ASSUME NEW N, NEW o \in Seq(N), NEW h, NEW nx, NEW null, Linked(h, nx, o, null),
         NEW n \in N, nx[n] = h, n \notin Range(o)
  PROVE  Linked(n, nx, <<n>> \o o, null)
<1> DEFINE l == <<n>> \o o
<1>1. /\ Len(o) \in Nat /\ Len(l) = Len(o) + 1 /\ l # <<>>
      /\ l[1] = n
      /\ \A i \in 1 .. Len(o) : l[i + 1] = o[i]
      /\ \A i \in 2 .. Len(o) + 1 : l[i] = o[i - 1]
      /\ (o = <<>> <=> Len(o) = 0)
      /\ \A i \in 1 .. Len(o) : o[i] # n
  BY PushFront DEF Range
<1> HIDE DEF l
<1>2. \A i \in 1 .. Len(l) : nx[l[i]] = IF i = Len(l) THEN null ELSE l[i + 1]
  <2> SUFFICES ASSUME NEW i \in 1 .. Len(o) + 1
               PROVE  nx[l[i]] = IF i = Len(o) + 1 THEN null ELSE l[i + 1]
    BY <1>1
  <2>1. CASE i = 1
    BY <1>1, <2>1 DEF Linked
  <2>2. CASE i # 1
    <3>1. i - 1 \in 1 .. Len(o) /\ l[i] = o[i - 1] /\ (i # Len(o) + 1 => l[i + 1] = o[i])
      BY <1>1, <2>2
    <3>2. nx[o[i - 1]] = IF i - 1 = Len(o) THEN null ELSE o[i - 1 + 1]
      BY <3>1 DEF Linked
    <3> QED
      BY <1>1, <3>1, <3>2
  <2> QED
    BY <2>1, <2>2
<1>3. NoTwice(l)
  <2> SUFFICES ASSUME NEW i \in 1 .. Len(o) + 1, NEW j \in 1 .. Len(o) + 1, l[i] = l[j]
               PROVE  i = j
    BY <1>1 DEF NoTwice
  <2>1. \A k \in 1 .. Len(o) + 1 : k # 1 => k - 1 \in 1 .. Len(o) /\ l[k] = o[k - 1] /\ l[k] # n
    BY <1>1
  <2>2. CASE i = 1 \/ j = 1
    BY <1>1, <2>1, <2>2
  <2>3. CASE i # 1 /\ j # 1
    <3>1. i - 1 = j - 1
      BY <2>1, <2>3 DEF Linked, NoTwice
    <3> QED
      BY <3>1
  <2> QED
    BY <2>2, <2>3
<1> QED
  BY <1>1, <1>2, <1>3 DEF Linked, l

LEMMA LinkedPop ==
  ASSUME NEW N, NEW o \in Seq(N), NEW h, NEW nx, NEW null, Linked(h, nx, o, null), o # <<>>
  PROVE  Linked(nx[o[1]], nx, Tail(o), null)
<1> DEFINE l == Tail(o)
<1>1. /\ Len(o) \in Nat /\ Len(o) > 0 /\ Len(l) = Len(o) - 1
      /\ \A i \in 1 .. Len(o) - 1 : l[i] = o[i + 1] /\ i + 1 \in 1 .. Len(o)
      /\ l \in Seq(N)
  BY PopFront
<1> HIDE DEF l
<1>2. l = <<>> <=> Len(l) = 0
  BY <1>1, EmptySeq
<1>3. nx[o[1]] = IF l = <<>> THEN null ELSE l[1]
  <2>1. nx[o[1]] = IF 1 = Len(o) THEN null ELSE o[1 + 1]
    BY <1>1 DEF Linked
  <2> QED
    BY <1>1, <1>2, <2>1
<1>4. \A i \in 1 .. Len(l) : nx[l[i]] = IF i = Len(l) THEN null ELSE l[i + 1]
  <2> SUFFICES ASSUME NEW i \in 1 .. Len(o) - 1
               PROVE  nx[l[i]] = IF i = Len(o) - 1 THEN null ELSE l[i + 1]
    BY <1>1
  <2>1. nx[o[i + 1]] = IF i + 1 = Len(o) THEN null ELSE o[i + 1 + 1]
    BY <1>1 DEF Linked
  <2>2. i # Len(o) - 1 => l[i + 1] = o[i + 1 + 1]
    <3>1. i # Len(o) - 1 => i + 1 \in 1 .. Len(o) - 1
      BY <1>1
    <3> QED
      BY <1>1, <3>1
  <2> QED
    BY <1>1, <2>1, <2>2
<1>5. NoTwice(l)
  <2> SUFFICES ASSUME NEW i \in 1 .. Len(o) - 1, NEW j \in 1 .. Len(o) - 1, l[i] = l[j]
               PROVE  i = j
    BY <1>1 DEF NoTwice
  <2>1. i + 1 = j + 1
    BY <1>1 DEF Linked, NoTwice
  <2> QED
    BY <2>1
<1> QED
  BY <1>3, <1>4, <1>5 DEF Linked, l

(* The next of a node outside the list is written. *)
LEMMA LinkedElsewhere ==
  ASSUME NEW N, NEW o \in Seq(N), NEW P, NEW nx \in [N -> P], NEW h, NEW null,
         Linked(h, nx, o, null), NEW n \in N, n \notin Range(o), NEW p
  PROVE  Linked(h, [nx EXCEPT ![n] = p], o, null)
<1>1. \A i \in 1 .. Len(o) : o[i] \in N /\ o[i] # n
  BY DEF Range
<1>2. \A i \in 1 .. Len(o) : [nx EXCEPT ![n] = p][o[i]] = nx[o[i]]
  BY <1>1
<1> QED
  BY <1>2 DEF Linked

-----------------------------------------------------------------------------
(* The invariant *)

Pushing(t) == pc[t] \in {"linking", "publishing"}

(* Nodes on their way into the list: nobody else has their address. *)
PushInv ==
  \A t \in Thread : Pushing(t) =>
    /\ node[t] \in allocated
    /\ data[node[t]] = <<t, sent[t] + 1>>
    /\ sent[t] < MaxPush
    /\ \A i \in 1 .. Len(order) : order[i] # node[t]
    /\ \A u \in Thread : Pushing(u) /\ u # t => node[u] # node[t]

(* Nodes that a pop looks at have been in the list; what it has read of    *)
(* them no longer changes.                                                 *)
PopInv ==
  \A t \in Thread : pc[t] \in {"reading", "popping", "returning"} =>
    /\ node[t] \in allocated
    /\ \A u \in Thread : Pushing(u) => node[u] # node[t]
    /\ pc[t] = "popping" => nxt[t] = next[node[t]]

(* Allocated nodes hold an item, and the list is made of them. *)
NodeInv ==
  /\ \A n \in allocated : data[n] \in Item
  /\ \A i \in 1 .. Len(order) : order[i] \in allocated

IInv == TypeOK /\ PushInv /\ PopInv /\ NodeInv /\ ListIntact

LEMMA Intact == ListIntact <=> Linked(head, next, order, Null)
BY DEF ListIntact, Linked, NoTwice

(* Pointers and answers, as the type steps use them. *)
LEMMA Sets ==
  /\ Null \in Pointer /\ (\A n \in Node : n \in Pointer)
  /\ (\A p \in Pointer : p # Null => p \in Node)
  /\ Nothing \in Answer /\ (\A x \in Item : x \in Answer)
  /\ (\A t \in Thread, k \in 1 .. MaxPush : <<t, k>> \in Item)
  /\ (\A t \in Thread, k \in Nat : k < MaxPush => <<t, k + 1>> \in Item)
  /\ (\A n \in Node : n # Null)
BY ConstantsAssumption DEF Pointer, Answer, Item

-----------------------------------------------------------------------------
(* The inductive invariant *)

LEMMA InitIInv == Init => IInv
BY ConstantsAssumption, Sets
DEF Init, IInv, TypeOK, PushInv, PopInv, NodeInv, ListIntact, Pushing

LEMMA AllocateIInv ==
  ASSUME IInv, NEW t \in Thread, Allocate(t)
  PROVE  IInv'
<1> USE ConstantsAssumption, Sets DEF IInv, Allocate, Goto
<1>1. TypeOK'
  BY DEF TypeOK
<1>2. PushInv'
  BY DEF TypeOK, PushInv, NodeInv, Pushing
<1>3. PopInv'
  BY DEF TypeOK, PopInv, Pushing
<1>4. NodeInv'
  BY DEF TypeOK, NodeInv
<1>5. ListIntact'
  BY DEF TypeOK, NodeInv, ListIntact
<1> QED
  BY <1>1, <1>2, <1>3, <1>4, <1>5

LEMMA LinkIInv ==
  ASSUME IInv, NEW t \in Thread, Link(t) \/ PublishFails(t)
  PROVE  IInv'
<1>0. /\ Pushing(t)
      /\ pc' = [pc EXCEPT ![t] = "publishing"]
      /\ next' = [next EXCEPT ![node[t]] = head]
      /\ UNCHANGED <<head, data, allocated, node, nxt, sent, pops, result, order>>
  BY DEF IInv, TypeOK, Link, PublishFails, Goto, Pushing
<1> USE ConstantsAssumption, Sets, <1>0 DEF IInv
<1>6. node[t] \in Node /\ head \in Pointer
  BY DEF TypeOK, PushInv
<1>1. TypeOK'
  <2>1. next' \in [Node -> Pointer]
    BY <1>6 DEF TypeOK
  <2>2. pc' \in [Thread -> {"idle", "linking", "publishing", "reading", "popping", "returning"}]
    BY DEF TypeOK
  <2>3. \A u \in Thread : pc'[u] # "idle" => node'[u] \in Node
    BY <1>6 DEF TypeOK
  <2> QED
    BY <2>1, <2>2, <2>3 DEF TypeOK
<1>2. PushInv'
  BY DEF TypeOK, PushInv, Pushing
<1>3. PopInv'
  BY DEF TypeOK, PopInv, Pushing
<1>4. NodeInv'
  BY DEF TypeOK, NodeInv
<1>5. ListIntact'
  BY DEF TypeOK, PushInv, Pushing, ListIntact
<1> QED
  BY <1>1, <1>2, <1>3, <1>4, <1>5

LEMMA PublishIInv ==
  ASSUME IInv, NEW t \in Thread, Publish(t)
  PROVE  IInv'
<1> USE ConstantsAssumption, Sets DEF IInv, Publish, Goto
<1>1. node[t] \in Node /\ order \in Seq(Node) /\ order' = <<node[t]>> \o order
  BY DEF TypeOK, PushInv, Pushing
<1>2. /\ order' \in Seq(Node)
      /\ Len(order') = Len(order) + 1
      /\ order'[1] = node[t]
      /\ \A i \in 1 .. Len(order) : order'[i + 1] = order[i]
      /\ \A i \in 2 .. Len(order) + 1 : order'[i] = order[i - 1]
  BY <1>1, PushFront
<1>3. Len(order) \in Nat
  BY <1>1
<1>4. TypeOK'
  BY <1>1, <1>2 DEF TypeOK, PushInv, Pushing
<1>5. PushInv'
  <2> SUFFICES ASSUME NEW u \in Thread, Pushing(u)'
               PROVE  /\ node[u] \in allocated
                      /\ data[node[u]] = <<u, sent'[u] + 1>>
                      /\ sent'[u] < MaxPush
                      /\ \A i \in 1 .. Len(order') : order'[i] # node[u]
                      /\ \A v \in Thread : Pushing(v)' /\ v # u => node[v] # node[u]
    BY DEF PushInv
  <2>1. u # t /\ Pushing(u) /\ Pushing(t) /\ sent'[u] = sent[u]
    BY DEF TypeOK, Pushing
  <2>2. \A v \in Thread : Pushing(v)' => Pushing(v)
    BY DEF TypeOK, Pushing
  <2>3. node[u] # node[t] /\ \A i \in 1 .. Len(order) : order[i] # node[u]
    BY <2>1 DEF PushInv
  <2>4. \A i \in 1 .. Len(order') : order'[i] # node[u]
    <3> SUFFICES ASSUME NEW i \in 1 .. Len(order) + 1
                 PROVE  order'[i] # node[u]
      BY <1>2
    <3>1. CASE i = 1
      BY <1>2, <2>3, <3>1
    <3>2. CASE i # 1
      <4>1. i - 1 \in 1 .. Len(order) /\ order'[i] = order[i - 1]
        BY <1>2, <1>3, <3>2
      <4> QED
        BY <2>3, <4>1
    <3> QED
      BY <3>1, <3>2
  <2> QED
    BY <2>1, <2>2, <2>4 DEF PushInv
<1>6. PopInv'
  BY DEF TypeOK, PopInv, Pushing
<1>7. NodeInv'
  <2> SUFFICES ASSUME NEW i \in 1 .. Len(order) + 1
               PROVE  order'[i] \in allocated
    BY <1>2 DEF NodeInv
  <2>1. CASE i = 1
    BY <1>2, <2>1 DEF PushInv, Pushing
  <2>2. CASE i # 1
    <3>1. i - 1 \in 1 .. Len(order) /\ order'[i] = order[i - 1]
      BY <1>2, <1>3, <2>2
    <3> QED
      BY <3>1 DEF NodeInv
  <2> QED
    BY <2>1, <2>2
<1>8. ListIntact'
  <2>1. node[t] \notin Range(order)
    <3>1. \A i \in 1 .. Len(order) : order[i] # node[t]
      BY <1>1 DEF PushInv, Pushing
    <3>2. DOMAIN order = 1 .. Len(order)
      BY DEF TypeOK
    <3> QED
      BY ONLY <3>1, <3>2 DEF Range
  <2>2. Linked(head', next, <<node[t]>> \o order, Null)
    BY <1>1, <2>1, LinkedPush, Intact
  <2> QED
    BY <2>2, Intact DEF ListIntact, Linked, NoTwice
<1> QED
  BY <1>4, <1>5, <1>6, <1>7, <1>8

(* Loading head gives a pop the top node of the list, which nobody pushes. *)
LEMMA ExamineIInv ==
  ASSUME IInv, NEW t \in Thread, LoadHead(t) \/ PopFails(t)
  PROVE  IInv'
<1>0. /\ pc[t] \in {"idle", "popping"} /\ Examine(t)
      /\ pops' \in [Thread -> 0 .. MaxPop]
      /\ UNCHANGED <<head, data, next, allocated, nxt, sent, order>>
  <2>1. CASE LoadHead(t)
    BY <2>1, ConstantsAssumption DEF IInv, TypeOK, LoadHead
  <2>2. CASE PopFails(t)
    BY <2>2 DEF IInv, TypeOK, PopFails
  <2> QED
    BY <2>1, <2>2
<1> USE ConstantsAssumption, Sets, <1>0 DEF IInv
<1>1. head # Null => head \in allocated /\ \A u \in Thread : Pushing(u) => node[u] # head
  <2> SUFFICES ASSUME head # Null
               PROVE  head \in allocated /\ \A u \in Thread : Pushing(u) => node[u] # head
    OBVIOUS
  <2>1. 1 \in 1 .. Len(order) /\ head = order[1]
    BY DEF TypeOK, ListIntact
  <2> QED
    BY <2>1 DEF NodeInv, PushInv
<1>2. CASE head = Null
  <2>1. /\ pc' = [pc EXCEPT ![t] = "idle"]
        /\ result' = [result EXCEPT ![t] = Nothing]
        /\ UNCHANGED node
    BY <1>2 DEF Examine
  <2>2. TypeOK'
    BY <2>1 DEF TypeOK
  <2>3. PushInv'
    BY <2>1 DEF TypeOK, PushInv, Pushing
  <2>4. PopInv'
    <3>1. \A u \in Thread : pc'[u] # "idle" => pc'[u] = pc[u]
      BY <2>1 DEF TypeOK
    <3>2. \A u \in Thread : Pushing(u)' => Pushing(u)
      BY <3>1 DEF Pushing
    <3> QED
      BY <2>1, <3>1, <3>2 DEF PopInv
  <2>5. NodeInv' /\ ListIntact'
    BY DEF NodeInv, ListIntact
  <2> QED
    BY <2>2, <2>3, <2>4, <2>5
<1>3. CASE head # Null
  <2>1. /\ pc' = [pc EXCEPT ![t] = "reading"]
        /\ node' = [node EXCEPT ![t] = head]
        /\ UNCHANGED result
    BY <1>3 DEF Examine
  <2>2. TypeOK'
    <3>1. head \in Node /\ head \in Pointer
      BY <1>3 DEF TypeOK
    <3>2. node' \in [Thread -> Pointer]
      BY <2>1, <3>1 DEF TypeOK
    <3>3. \A u \in Thread : pc'[u] # "idle" => node'[u] \in Node
      BY <2>1, <3>1 DEF TypeOK
    <3>4. pc' \in [Thread -> {"idle", "linking", "publishing", "reading", "popping", "returning"}]
      BY <2>1 DEF TypeOK
    <3> QED
      BY <2>1, <3>2, <3>3, <3>4 DEF TypeOK
  <2>3. PushInv'
    BY <2>1 DEF TypeOK, PushInv, Pushing
  <2>4. PopInv'
    BY <1>1, <1>3, <2>1 DEF TypeOK, PopInv, Pushing
  <2>5. NodeInv' /\ ListIntact'
    BY DEF NodeInv, ListIntact
  <2> QED
    BY <2>2, <2>3, <2>4, <2>5
<1> QED
  BY <1>2, <1>3

LEMMA ReadNextIInv ==
  ASSUME IInv, NEW t \in Thread, ReadNext(t)
  PROVE  IInv'
<1> USE ConstantsAssumption, Sets DEF IInv, ReadNext, Goto
<1>1. node[t] \in Node
  BY DEF TypeOK, PopInv
<1>2. TypeOK'
  BY <1>1 DEF TypeOK
<1>3. PushInv'
  BY DEF TypeOK, PushInv, Pushing
<1>4. PopInv'
  BY DEF TypeOK, PopInv, Pushing
<1>5. NodeInv' /\ ListIntact'
  BY DEF NodeInv, ListIntact
<1> QED
  BY <1>2, <1>3, <1>4, <1>5

LEMMA ReturnIInv ==
  ASSUME IInv, NEW t \in Thread, Return(t)
  PROVE  IInv'
<1> USE ConstantsAssumption, Sets DEF IInv, Return, Goto
<1>1. data[node[t]] \in Answer
  BY DEF TypeOK, PopInv, NodeInv
<1>2. TypeOK'
  BY <1>1 DEF TypeOK
<1>3. PushInv' /\ PopInv'
  BY DEF TypeOK, PushInv, PopInv, Pushing
<1>4. NodeInv' /\ ListIntact'
  BY DEF NodeInv, ListIntact
<1> QED
  BY <1>2, <1>3, <1>4

(* The list is not empty when a pop succeeds, and nxt is its second node. *)
LEMMA PopTopFacts ==
  ASSUME IInv, NEW t \in Thread, PopTop(t)
  PROVE  /\ order # <<>> /\ order[1] = node[t]
         /\ nxt[t] = IF Len(order) = 1 THEN Null ELSE order[2]
<1> USE DEF IInv, PopTop, Goto
<1>1. node[t] \in Node /\ node[t] # Null
  BY Sets DEF TypeOK, PopInv
<1>2. order # <<>> /\ order[1] = node[t]
  BY <1>1 DEF ListIntact
<1>3. Len(order) \in Nat \ {0}
  BY <1>2 DEF TypeOK
<1>4. nxt[t] = next[order[1]]
  BY <1>2 DEF PopInv
<1>5. 1 \in 1 .. Len(order)
  BY <1>3
<1>6. next[order[1]] = IF 1 = Len(order) THEN Null ELSE order[1 + 1]
  BY <1>5 DEF ListIntact
<1> QED
  BY <1>2, <1>4, <1>6

LEMMA PopTopIInv ==
  ASSUME IInv, NEW t \in Thread, PopTop(t)
  PROVE  IInv'
<1> USE ConstantsAssumption, Sets DEF IInv, PopTop, Goto
<1>1. /\ order # <<>> /\ order[1] = node[t]
      /\ nxt[t] = IF Len(order) = 1 THEN Null ELSE order[2]
  BY PopTopFacts
<1>2. /\ order' \in Seq(Node)
      /\ Len(order) > 0
      /\ Len(order') = Len(order) - 1
      /\ \A i \in 1 .. Len(order) - 1 : order'[i] = order[i + 1]
  BY <1>1, PopFront DEF TypeOK
<1>3. Len(order) \in Nat
  BY DEF TypeOK
<1>4. TypeOK'
  BY <1>2 DEF TypeOK
<1>5. PushInv'
  BY <1>2, <1>3 DEF TypeOK, PushInv, Pushing
<1>6. PopInv'
  BY DEF TypeOK, PopInv, Pushing
<1>7. NodeInv'
  BY <1>2, <1>3 DEF TypeOK, NodeInv
<1>8. ListIntact'
  <2>1. nxt[t] = next[order[1]]
    BY <1>1 DEF PopInv
  <2>2. Linked(head', next, Tail(order), Null)
    BY <1>1, <2>1, LinkedPop, Intact DEF TypeOK
  <2> QED
    BY <2>2 DEF ListIntact, Linked, NoTwice
<1> QED
  BY <1>4, <1>5, <1>6, <1>7, <1>8

LEMMA NextIInv == IInv /\ [Next]_vars => IInv'
<1> SUFFICES ASSUME IInv, [Next]_vars
             PROVE  IInv'
  OBVIOUS
<1>1. CASE UNCHANGED vars
  BY <1>1 DEF vars, IInv, TypeOK, PushInv, PopInv, NodeInv, ListIntact, Pushing
<1>2. CASE Next
  <2>1. PICK t \in Thread : Allocate(t) \/ push(t) \/ LoadHead(t) \/ pop(t)
    BY <1>2 DEF Next
  <2> QED
    BY <2>1, AllocateIInv, LinkIInv, PublishIInv, ExamineIInv, ReadNextIInv, ReturnIInv, PopTopIInv
    DEF push, pop
<1> QED
  BY <1>1, <1>2

LEMMA Inductive == Spec => []IInv
BY InitIInv, NextIInv, PTL DEF Spec

(* The types, among them that pop never dereferences a null old_head. *)
THEOREM TypeCorrect == Spec => []TypeOK
<1>1. IInv => TypeOK
  BY DEF IInv
<1> QED
  BY <1>1, Inductive, PTL

(* No interleaving of compare_exchange_weak calls breaks the list: every   *)
(* node whose push succeeded and that no pop has taken is reachable from   *)
(* head, in order, once.                                                   *)
THEOREM ListCorrect == Spec => []ListIntact
<1>1. IInv => ListIntact
  BY DEF IInv
<1> QED
  BY <1>1, Inductive, PTL

-----------------------------------------------------------------------------
(* Refinement *)

LEMMA InitAbstract == Init => Abstract!Init
<1> SUFFICES ASSUME Init
             PROVE  Abstract!Init
  OBVIOUS
<1>1. Content = <<>>
  BY DEF Init, Content
<1>2. Returned = [t \in Thread |-> Nothing]
  BY DEF Init, Returned
<1> QED
  BY <1>1, <1>2 DEF Init, Abstract!Init

(* Steps outside the list leave the stack alone. *)
LEMMA SameContent ==
  ASSUME UNCHANGED order, \A i \in 1 .. Len(order) : data'[order[i]] = data[order[i]]
  PROVE  Content' = Content
BY DEF Content

LEMMA PublishPushes ==
  ASSUME IInv, NEW t \in Thread, Publish(t)
  PROVE  Abstract!Push(t)
<1> USE DEF IInv, Publish, Goto
<1>1. node[t] \in Node /\ order \in Seq(Node) /\ data[node[t]] = <<t, sent[t] + 1>>
  BY DEF TypeOK, PushInv, Pushing
<1>2. Content' = <<data[node[t]]>> \o Content
  <2>1. Content = Items(data, order) /\ Content' = Items(data, <<node[t]>> \o order)
    BY DEF Content, Items
  <2> QED
    BY <1>1, <2>1, ItemsPush
<1>3. Returned' = Returned
  BY DEF TypeOK, Returned
<1> QED
  BY <1>1, <1>2, <1>3 DEF PushInv, Pushing, Abstract!Push

LEMMA PopTopPops ==
  ASSUME IInv, NEW t \in Thread, PopTop(t)
  PROVE  Abstract!Pop(t)
<1>1. order \in Seq(Node) /\ order # <<>> /\ order[1] = node[t]
  BY PopTopFacts DEF IInv, TypeOK
<1>2. /\ Content # <<>> /\ Head(Content) = data[node[t]]
      /\ Content' = Tail(Content)
  BY <1>1, ItemsPop DEF PopTop, Content, Items
<1>3. Returned' = [Returned EXCEPT ![t] = data[node[t]]]
  BY DEF PopTop, Goto, IInv, TypeOK, Returned
<1> QED
  BY <1>2, <1>3 DEF PopTop, Abstract!Pop

(* The list is empty when a pop loads a null head. *)
LEMMA ExamineNothing ==
  ASSUME IInv, NEW t \in Thread, LoadHead(t) \/ PopFails(t)
  PROVE  Abstract!PopNothing(t) \/ UNCHANGED <<Content, sent, Returned>>
<1>1. pc[t] \in {"idle", "popping"} /\ Examine(t) /\ UNCHANGED <<head, data, sent, order>>
  BY DEF LoadHead, PopFails
<1>2. Content' = Content
  BY <1>1 DEF Content
<1>3. CASE head = Null
  <2>1. order = <<>>
    <3> SUFFICES ASSUME order # <<>>
                 PROVE  FALSE
      OBVIOUS
    <3>1. 1 \in 1 .. Len(order) /\ head = order[1]
      BY DEF IInv, TypeOK, ListIntact
    <3> QED
      BY <1>3, <3>1, Sets DEF IInv, TypeOK
  <2>2. Content = <<>>
    BY <2>1 DEF Content
  <2>3. Returned' = [Returned EXCEPT ![t] = Nothing]
    BY <1>1, <1>3 DEF Examine, IInv, TypeOK, Returned
  <2> QED
    BY <1>1, <1>2, <2>2, <2>3 DEF Abstract!PopNothing
<1>4. CASE head # Null
  <2>1. Returned' = Returned
    BY <1>1, <1>4 DEF Examine, IInv, TypeOK, Returned
  <2> QED
    BY <1>1, <1>2, <2>1
<1> QED
  BY <1>3, <1>4

LEMMA OtherStutters ==
  ASSUME IInv, NEW t \in Thread,
         Allocate(t) \/ Link(t) \/ PublishFails(t) \/ ReadNext(t) \/ Return(t)
  PROVE  UNCHANGED <<Content, sent, Returned>>
<1>1. CASE Allocate(t)
  <2>1. Content' = Content
    BY <1>1 DEF Allocate, IInv, TypeOK, NodeInv, Content
  <2>2. Returned' = Returned
    BY <1>1 DEF Allocate, Goto, IInv, TypeOK, PopInv, Returned
  <2> QED
    BY <1>1, <2>1, <2>2 DEF Allocate
<1>2. CASE Link(t)
  BY <1>2 DEF Link, Goto, IInv, TypeOK, Content, Returned
<1>3. CASE PublishFails(t)
  BY <1>3 DEF PublishFails, IInv, TypeOK, Content, Returned
<1>4. CASE ReadNext(t)
  BY <1>4 DEF ReadNext, Goto, IInv, TypeOK, Content, Returned
<1>5. CASE Return(t)
  BY <1>5 DEF Return, Goto, IInv, TypeOK, Content, Returned
<1> QED
  BY <1>1, <1>2, <1>3, <1>4, <1>5

(* The list with its atomic head behaves as a stack whose pushes and pops  *)
(* are single steps, for any number of threads.                            *)
THEOREM ImplementsStack == Spec => IsAStack
<1>1. IInv /\ [Next]_vars => [Abstract!Next]_<<Content, sent, Returned>>
  <2> SUFFICES ASSUME IInv, [Next]_vars
               PROVE  Abstract!Next \/ UNCHANGED <<Content, sent, Returned>>
    OBVIOUS
  <2>1. CASE UNCHANGED vars
    BY <2>1 DEF vars, Content, Returned
  <2>2. CASE Next
    <3>1. PICK t \in Thread : Allocate(t) \/ push(t) \/ LoadHead(t) \/ pop(t)
      BY <2>2 DEF Next
    <3>2. CASE Publish(t)
      BY <3>2, PublishPushes DEF Abstract!Next
    <3>3. CASE PopTop(t)
      BY <3>3, PopTopPops DEF Abstract!Next
    <3>4. CASE LoadHead(t) \/ PopFails(t)
      BY <3>4, ExamineNothing DEF Abstract!Next
    <3>5. CASE Allocate(t) \/ Link(t) \/ PublishFails(t) \/ ReadNext(t) \/ Return(t)
      BY <3>5, OtherStutters
    <3> QED
      BY <3>1, <3>2, <3>3, <3>4, <3>5 DEF push, pop
  <2> QED
    BY <2>1, <2>2
<1> QED
  BY <1>1, InitAbstract, Inductive, PTL DEF Spec, IsAStack, Abstract!Spec

=============================================================================
