------------------------ MODULE FineGrainedQueueProofs ------------------------
(***************************************************************************)
(* Proofs about FineGrainedQueue for every number of threads, nodes and    *)
(* calls: although push and pop hold different mutexes, every node has one *)
(* owner and the class is a queue.  What keeps the two ends apart is that  *)
(* a push writes the dummy only, and that a pop which has seen head differ *)
(* from tail takes a node that is not the dummy, and never will be again.  *)
(***************************************************************************)
EXTENDS FineGrainedQueue, TLAPS, SequenceTheorems

(* The first node taken from a list of nodes. *)
LEMMA PopFront ==
  ASSUME NEW N, NEW o \in Seq(N), o # <<>>
  PROVE  /\ Tail(o) \in Seq(N)
         /\ Len(o) > 0
         /\ Len(Tail(o)) = Len(o) - 1
         /\ Head(o) = o[1]
         /\ \A i \in 1 .. Len(o) - 1 : Tail(o)[i] = o[i + 1]
OBVIOUS

NoTwice(o) == \A i, j \in 1 .. Len(o) : o[i] = o[j] => i = j

LEMMA RangePop ==
  ASSUME NEW N, NEW o \in Seq(N), o # <<>>, NoTwice(o)
  PROVE  /\ o[1] \in Range(o)
         /\ Range(Tail(o)) = Range(o) \ {o[1]}
<1> DEFINE l == Tail(o)
<1>1. /\ Len(o) \in Nat /\ Len(o) > 0 /\ DOMAIN o = 1 .. Len(o)
      /\ DOMAIN l = 1 .. Len(o) - 1
      /\ \A i \in 1 .. Len(o) - 1 : l[i] = o[i + 1]
  BY PopFront
<1> HIDE DEF l
<1>2. o[1] \in Range(o)
  BY <1>1 DEF Range
<1>3. Range(l) \subseteq Range(o) \ {o[1]}
  <2> SUFFICES ASSUME NEW i \in 1 .. Len(o) - 1
               PROVE  l[i] \in Range(o) \ {o[1]}
    BY <1>1 DEF Range
  <2>1. i + 1 \in 1 .. Len(o) /\ i + 1 # 1 /\ 1 \in 1 .. Len(o) /\ l[i] = o[i + 1]
    BY <1>1
  <2>2. o[i + 1] # o[1]
    BY <2>1 DEF NoTwice
  <2> QED
    BY <1>1, <2>1, <2>2 DEF Range
<1>4. Range(o) \ {o[1]} \subseteq Range(l)
  <2> SUFFICES ASSUME NEW i \in 1 .. Len(o), i # 1
               PROVE  o[i] \in Range(l)
    BY <1>1 DEF Range
  <2>1. i - 1 \in 1 .. Len(o) - 1 /\ (i - 1) + 1 = i
    BY <1>1
  <2>2. l[i - 1] = o[i]
    BY <1>1, <2>1
  <2> QED
    BY <1>1, <2>1, <2>2 DEF Range
<1>5. Range(l) = Range(o) \ {o[1]}
  BY <1>3, <1>4
<1> QED
  BY <1>2, <1>5 DEF l

-----------------------------------------------------------------------------
(* The invariant *)

PushPlaces == {"idle", "entering", "data", "next", "tail", "notify"}
PopPlaces ==
  {"idle", "entering", "woken", "comparing", "blocking", "sleeping", "popping", "returning"}

PlacesInv ==
  /\ \A p \in Producer : pc[p] \in PushPlaces
  /\ \A t \in Taker : pc[t] \in PopPlaces

(* Where a thread holds a mutex. *)
LockInv ==
  /\ \A p \in Producer : pc[p] \in {"data", "next", "tail"} => tail_mutex = p
  /\ \A t \in Taker : pc[t] \in {"comparing", "blocking", "popping"} => head_mutex = t

(* A push under way has not been counted. *)
CountInv ==
  \A p \in Producer :
    /\ sent[p] <= calls[p]
    /\ pc[p] \in {"entering", "data", "next", "tail"} => sent[p] < calls[p]

HasNode(t) ==
  \/ t \in Producer /\ pc[t] \in {"entering", "data", "next", "tail"}
  \/ t \in Taker /\ pc[t] = "returning"

(* OneOwnerEach, without the difference between a node and the new tail.   *)
OwnInv ==
  /\ \A t \in Thread : mine[t] # Null <=> HasNode(t)
  /\ \A n \in Node : n \in alive <=> n \in Range(order) \/ \E t \in Thread : mine[t] = n
  /\ \A t \in Thread : mine[t] # Null => mine[t] \notin Range(order)
  /\ \A t, u \in Thread : t # u /\ mine[t] # Null => mine[t] # mine[u]

(* What a push has written to the dummy, and what a pop has seen. *)
CallInv ==
  /\ \A p \in Producer :
       /\ pc[p] \in {"next", "tail"} => data[tail] = <<p, sent[p] + 1>>
       /\ pc[p] = "tail" => next[tail] = mine[p]
  /\ \A t \in Taker : pc[t] = "popping" => head # tail

Control == TypeOK /\ PlacesInv /\ LockInv /\ CountInv
IInv == Control /\ OwnInv /\ CallInv /\ ListIntact

LEMMA Sets ==
  /\ \A p \in Producer : p \in Thread /\ p \notin Taker /\ p # NoThread
  /\ \A t \in Taker : t \in Thread /\ t \notin Producer /\ t # NoThread
  /\ \A c \in Waiter : c \in Taker
  /\ \A c \in Poller : c \in Taker
BY ConstantsAssumption DEF Thread, Taker

(* The two ends of the list. *)
LEMMA Ends ==
  ASSUME IInv
  PROVE  /\ order \in Seq(Node) /\ Len(order) \in Nat \ {0}
         /\ head = order[1] /\ tail = order[Len(order)]
         /\ head \in Range(order) /\ tail \in Range(order)
         /\ NoTwice(order)
         /\ \A n \in Range(order) : n \in Node
         /\ head # tail => Len(order) > 1
         /\ head = tail => Len(order) = 1
<1>1. order \in Seq(Node) /\ order # <<>> /\ NoTwice(order)
      /\ head = order[1] /\ tail = order[Len(order)]
  BY DEF IInv, Control, TypeOK, ListIntact, NoTwice
<1>2. Len(order) \in Nat /\ Len(order) # 0 /\ DOMAIN order = 1 .. Len(order)
  BY <1>1
<1>3. 1 \in 1 .. Len(order) /\ Len(order) \in 1 .. Len(order)
  BY <1>2
<1>4. head \in Range(order) /\ tail \in Range(order) /\ \A n \in Range(order) : n \in Node
  BY <1>1, <1>2, <1>3 DEF Range
<1>5. (head # tail => Len(order) > 1) /\ (head = tail => Len(order) = 1)
  BY <1>1, <1>2, <1>3 DEF NoTwice
<1> QED
  BY <1>1, <1>2, <1>4, <1>5

LEMMA InitIInv == Init => IInv
<1> SUFFICES ASSUME Init
             PROVE  IInv
  OBVIOUS
<1> USE ConstantsAssumption, Sets DEF Init
<1>1. order \in Seq(Node) /\ Len(order) = 1 /\ order[1] = head /\ order # <<>> /\ Range(order) = {head}
  BY DEF Range
<1>2. TypeOK
  BY <1>1 DEF TypeOK
<1>3. PlacesInv /\ LockInv /\ CountInv
  BY DEF PlacesInv, LockInv, CountInv, PushPlaces, PopPlaces
<1>4. OwnInv
  BY <1>1 DEF OwnInv, HasNode
<1>5. CallInv /\ ListIntact
  BY <1>1 DEF CallInv, ListIntact
<1> QED
  BY <1>2, <1>3, <1>4, <1>5 DEF IInv, Control

-----------------------------------------------------------------------------
(* Control: types, places, mutexes and counts *)

LEMMA PushControl ==
  ASSUME IInv, NEW p \in Producer, Allocate(p) \/ LockTail(p) \/ SetData(p) \/ SetNext(p)
  PROVE  Control'
<1> USE ConstantsAssumption, Sets DEF IInv, Control, Goto, heap, counters
<1>1. CASE Allocate(p)
  <2>1. TypeOK'
    BY <1>1 DEF Allocate, Call, TypeOK
  <2>2. PlacesInv' /\ LockInv'
    BY <1>1 DEF Allocate, TypeOK, PlacesInv, LockInv, PushPlaces
  <2>3. CountInv'
    BY <1>1 DEF Allocate, Call, TypeOK, CountInv
  <2> QED
    BY <2>1, <2>2, <2>3
<1>2. CASE LockTail(p)
  <2>1. TypeOK'
    BY <1>2 DEF LockTail, TypeOK
  <2>2. PlacesInv' /\ LockInv'
    BY <1>2 DEF LockTail, TypeOK, PlacesInv, LockInv, PushPlaces
  <2>3. CountInv'
    BY <1>2 DEF LockTail, TypeOK, CountInv
  <2> QED
    BY <2>1, <2>2, <2>3
<1>3. CASE SetData(p)
  <2>1. sent[p] + 1 \in 1 .. MaxCalls
    BY <1>3 DEF SetData, TypeOK, CountInv
  <2>2. TypeOK'
    BY <1>3, <2>1 DEF SetData, TypeOK, Item
  <2>3. PlacesInv' /\ LockInv'
    BY <1>3 DEF SetData, TypeOK, PlacesInv, LockInv, PushPlaces
  <2>4. CountInv'
    BY <1>3 DEF SetData, TypeOK, CountInv
  <2> QED
    BY <2>2, <2>3, <2>4
<1>4. CASE SetNext(p)
  <2>1. TypeOK'
    BY <1>4 DEF SetNext, TypeOK
  <2>2. PlacesInv' /\ LockInv'
    BY <1>4 DEF SetNext, TypeOK, PlacesInv, LockInv, PushPlaces
  <2>3. CountInv'
    BY <1>4 DEF SetNext, TypeOK, CountInv
  <2> QED
    BY <2>1, <2>2, <2>3
<1> QED
  BY <1>1, <1>2, <1>3, <1>4

LEMMA SetTailControl ==
  ASSUME IInv, NEW p \in Producer, SetTail(p)
  PROVE  Control'
<1> USE ConstantsAssumption, Sets DEF IInv, Control, Goto, heap, SetTail
<1>1. mine[p] \in Node
  BY DEF TypeOK, OwnInv, HasNode
<1>2. sent[p] + 1 \in 0 .. MaxCalls /\ sent[p] + 1 <= calls[p]
  BY DEF TypeOK, CountInv
<1>3. TypeOK'
  <2>1. order' \in Seq(Node)
    BY <1>1 DEF TypeOK
  <2> QED
    BY <1>1, <1>2, <2>1 DEF TypeOK
<1>4. PlacesInv' /\ LockInv'
  <2>1. \A q \in Producer : q # p => pc[q] \notin {"data", "next", "tail"}
    BY DEF LockInv
  <2> QED
    BY <2>1 DEF TypeOK, PlacesInv, LockInv, PushPlaces
<1>5. CountInv'
  BY <1>2 DEF TypeOK, CountInv
<1> QED
  BY <1>3, <1>4, <1>5

LEMMA NotifyControl ==
  ASSUME IInv, NEW p \in Producer, Notify(p)
  PROVE  Control'
<1> USE ConstantsAssumption, Sets DEF IInv, Control, heap, counters
<1>1. /\ pc' \in [Thread -> PushPlaces \cup PopPlaces]
      /\ pc[p] = "notify" /\ pc'[p] = "idle"
      /\ \A u \in Thread : u # p => \/ pc'[u] = pc[u]
                                    \/ u \in Waiter /\ pc[u] = "sleeping" /\ pc'[u] = "woken"
  <2>1. CASE Sleeping = {}
    BY <2>1 DEF Notify, TypeOK, PushPlaces, PopPlaces
  <2>2. CASE Sleeping # {}
    <3>1. PICK c \in Sleeping : pc' = [pc EXCEPT ![p] = "idle", ![c] = "woken"]
      BY <2>2 DEF Notify
    <3>2. c \in Waiter /\ pc[c] = "sleeping" /\ c # p
      BY <3>1 DEF Sleeping
    <3> QED
      BY <3>1, <3>2 DEF Notify, TypeOK, PushPlaces, PopPlaces
  <2> QED
    BY <2>1, <2>2
<1>2. UNCHANGED <<heap, head, tail, head_mutex, tail_mutex, mine, counters, order>>
  BY DEF Notify
<1>3. TypeOK'
  BY <1>1, <1>2 DEF TypeOK, PushPlaces, PopPlaces
<1>4. PlacesInv' /\ LockInv'
  BY <1>1, <1>2 DEF PlacesInv, LockInv, PushPlaces, PopPlaces
<1>5. CountInv'
  BY <1>1, <1>2 DEF CountInv
<1> QED
  BY <1>3, <1>4, <1>5

LEMMA PopControl ==
  ASSUME IInv, NEW t \in Taker,
         \/ CallPop(t) \/ LockHead(t) \/ FindData(t) \/ ReturnNothing(t) \/ pop_head(t) \/ Return(t)
         \/ t \in Waiter /\ (FindNoData(t) \/ Sleep(t) \/ SpuriousWakeup(t))
  PROVE  Control'
<1> USE ConstantsAssumption, Sets DEF IInv, Control, Goto, heap, counters
<1>1. PICK q \in PopPlaces :
        /\ pc' = [pc EXCEPT ![t] = q]
        /\ q \in {"comparing", "blocking", "popping"} => head_mutex' = t
  BY DEF CallPop, LockHead, FindData, ReturnNothing, pop_head, Return, FindNoData, Sleep,
         SpuriousWakeup, LockInv, PopPlaces
<1>2. /\ UNCHANGED <<next, data, tail, tail_mutex, sent>>
      /\ \/ head_mutex' = head_mutex
         \/ head_mutex = NoThread /\ head_mutex' = t
         \/ head_mutex = t /\ head_mutex' = NoThread
  BY DEF CallPop, LockHead, FindData, ReturnNothing, pop_head, Return, FindNoData, Sleep,
         SpuriousWakeup, LockInv
<1>3. PlacesInv'
  BY <1>1 DEF TypeOK, PlacesInv
<1>4. LockInv'
  BY <1>1, <1>2 DEF TypeOK, LockInv
<1>5. /\ \A p \in Producer : calls'[p] = calls[p]
      /\ calls' \in [Thread -> 0 .. MaxCalls]
  BY DEF CallPop, Call, LockHead, FindData, ReturnNothing, pop_head, Return, FindNoData, Sleep,
         SpuriousWakeup, TypeOK
<1>6. CountInv'
  BY <1>1, <1>2, <1>5 DEF TypeOK, CountInv
<1>7. head' \in Node /\ order' \in Seq(Node)
  <2>1. CASE pop_head(t)
    <3>1. head # tail
      BY <2>1 DEF pop_head, CallInv
    <3>2. Len(order) > 1 /\ head = order[1] /\ order \in Seq(Node) /\ Len(order) \in Nat
      BY <3>1, Ends
    <3>3. next[head] = order[2]
      BY <3>2 DEF ListIntact
    <3> QED
      BY <2>1, <3>2, <3>3 DEF pop_head
  <2>2. CASE ~pop_head(t)
    BY <2>2 DEF CallPop, LockHead, FindData, ReturnNothing, Return, FindNoData, Sleep,
                SpuriousWakeup, TypeOK
  <2> QED
    BY <2>1, <2>2
<1>8. alive' \subseteq Node /\ mine' \in [Thread -> Node \cup {Null}]
  <2>1. /\ head \in Node /\ Null \in Node \cup {Null}
        /\ alive \subseteq Node /\ mine \in [Thread -> Node \cup {Null}] /\ t \in Thread
    BY DEF TypeOK
  <2>2. alive' \subseteq alive /\ \E n \in Node \cup {Null} : mine' \in {mine, [mine EXCEPT ![t] = n]}
    BY <2>1, Zenon DEF CallPop, LockHead, FindData, ReturnNothing, pop_head, Return, FindNoData, Sleep,
           SpuriousWakeup
  <2> HIDE DEF IInv, Control
  <2> QED
    BY <2>1, <2>2
<1>9. result' \in [Taker -> Item \cup {Nothing}] /\ spurious' \in 0 .. MaxSpurious
  <2>1. CASE Return(t)
    <3>1. mine[t] \in Node
      BY <2>1 DEF Return, TypeOK, OwnInv, HasNode
    <3> QED
      BY <2>1, <3>1 DEF Return, TypeOK
  <2>2. CASE ReturnNothing(t)
    BY <2>2 DEF ReturnNothing, TypeOK
  <2>3. CASE t \in Waiter /\ SpuriousWakeup(t)
    BY <2>3 DEF SpuriousWakeup, TypeOK
  <2>4. CASE ~Return(t) /\ ~ReturnNothing(t) /\ ~(t \in Waiter /\ SpuriousWakeup(t))
    <3>1. UNCHANGED <<result, spurious>>
      BY <2>4 DEF CallPop, LockHead, FindData, pop_head, FindNoData, Sleep
    <3> QED
      BY <3>1 DEF TypeOK
  <2> QED
    BY <2>1, <2>2, <2>3, <2>4
<1>10. TypeOK'
  <2>1. pc' \in [Thread -> {"idle", "entering", "data", "next", "tail", "notify", "woken",
                            "comparing", "blocking", "sleeping", "popping", "returning"}]
    BY <1>1 DEF TypeOK, PopPlaces
  <2>2. head_mutex' \in Taker \cup {NoThread}
    BY <1>2 DEF TypeOK
  <2> QED
    BY <1>2, <1>5, <1>7, <1>8, <1>9, <2>1, <2>2 DEF TypeOK
<1> QED
  BY <1>3, <1>4, <1>6, <1>10

-----------------------------------------------------------------------------
(* The nodes and the list *)

Shape == OwnInv /\ CallInv /\ ListIntact

(* The steps that touch no node. *)
LEMMA QuietShape ==
  ASSUME IInv,
         UNCHANGED <<alive, data, next, head, tail, mine, sent, order>>,
         \A t \in Thread : HasNode(t)' <=> HasNode(t),
         \A p \in Producer : pc'[p] \in {"next", "tail"} => pc'[p] = pc[p],
         \A t \in Taker : pc'[t] = "popping" => pc[t] = "popping" \/ head # tail
  PROVE  Shape'
<1>1. OwnInv'
  BY DEF IInv, OwnInv
<1>2. CallInv'
  BY DEF IInv, CallInv
<1>3. ListIntact'
  BY DEF IInv, ListIntact
<1> QED
  BY <1>1, <1>2, <1>3 DEF Shape

LEMMA QuietPush ==
  ASSUME IInv, NEW p \in Producer, LockTail(p) \/ Notify(p)
  PROVE  Shape'
<1> USE Sets
<1>1. UNCHANGED <<alive, data, next, head, tail, mine, sent, order>>
  BY DEF LockTail, Notify, heap, counters
<1>2. \A u \in Thread :
        \/ pc'[u] = pc[u]
        \/ u \in Producer /\ pc[u] = "entering" /\ pc'[u] = "data"
        \/ u \in Producer /\ pc[u] = "notify" /\ pc'[u] = "idle"
        \/ u \in Taker /\ pc[u] = "sleeping" /\ pc'[u] = "woken"
  <2>1. CASE LockTail(p)
    BY <2>1 DEF LockTail, Goto, IInv, Control, TypeOK
  <2>2. CASE Notify(p) /\ Sleeping = {}
    BY <2>2 DEF Notify, IInv, Control, TypeOK
  <2>3. CASE Notify(p) /\ Sleeping # {}
    <3>1. PICK c \in Sleeping : pc' = [pc EXCEPT ![p] = "idle", ![c] = "woken"]
      BY <2>3 DEF Notify
    <3>2. c \in Waiter /\ pc[c] = "sleeping" /\ c # p
      BY <3>1 DEF Sleeping
    <3>3. pc \in [Thread -> PushPlaces \cup PopPlaces] /\ pc[p] = "notify"
      BY <2>3 DEF Notify, IInv, Control, TypeOK, PushPlaces, PopPlaces
    <3> QED
      BY <3>1, <3>2, <3>3
  <2> QED
    BY <2>1, <2>2, <2>3
<1>3. \A u \in Thread : HasNode(u)' <=> HasNode(u)
  BY <1>2 DEF HasNode
<1>4. \A q \in Producer : pc'[q] \in {"next", "tail"} => pc'[q] = pc[q]
  BY <1>2
<1>5. \A u \in Taker : pc'[u] = "popping" => pc[u] = "popping"
  BY <1>2
<1> QED
  BY <1>1, <1>3, <1>4, <1>5, QuietShape

LEMMA QuietPop ==
  ASSUME IInv, NEW t \in Taker,
         \/ CallPop(t) \/ LockHead(t) \/ FindData(t) \/ ReturnNothing(t)
         \/ t \in Waiter /\ (FindNoData(t) \/ Sleep(t) \/ SpuriousWakeup(t))
  PROVE  Shape'
<1> USE Sets
<1>1. UNCHANGED <<alive, data, next, head, tail, mine, sent, order>>
  BY DEF CallPop, LockHead, FindData, ReturnNothing, FindNoData, Sleep, SpuriousWakeup, heap,
         counters
<1>2. PICK q \in PopPlaces \ {"returning"} :
        /\ pc' = [pc EXCEPT ![t] = q] /\ pc[t] # "returning"
        /\ q = "popping" => head # tail
  BY DEF CallPop, LockHead, FindData, ReturnNothing, FindNoData, Sleep, SpuriousWakeup, Goto,
         PopPlaces
<1>3. \A u \in Thread : pc'[u] = IF u = t THEN q ELSE pc[u]
  BY <1>2 DEF IInv, Control, TypeOK
<1>4. \A u \in Thread : HasNode(u)' <=> HasNode(u)
  BY <1>2, <1>3 DEF HasNode
<1>5. \A p \in Producer : pc'[p] = pc[p]
  BY <1>3
<1>6. \A u \in Taker : pc'[u] = "popping" => pc[u] = "popping" \/ head # tail
  BY <1>2, <1>3
<1> QED
  BY <1>1, <1>4, <1>5, <1>6, QuietShape

LEMMA AllocateShape ==
  ASSUME IInv, NEW p \in Producer, Allocate(p)
  PROVE  Shape'
<1> USE ConstantsAssumption, Sets
<1>1. PICK n \in Node \ alive :
        /\ alive' = alive \cup {n}
        /\ data' = [data EXCEPT ![n] = Nothing]
        /\ next' = [next EXCEPT ![n] = Null]
        /\ mine' = [mine EXCEPT ![p] = n]
  BY DEF Allocate
<1>2. UNCHANGED <<head, tail, sent, order>> /\ pc[p] = "idle"
  BY DEF Allocate, Goto
<1>3. \A u \in Thread : /\ pc'[u] = IF u = p THEN "entering" ELSE pc[u]
                        /\ mine'[u] = IF u = p THEN n ELSE mine[u]
  BY <1>1 DEF Allocate, Goto, IInv, Control, TypeOK
<1>4. n \notin Range(order) /\ n # Null /\ \A u \in Thread : mine[u] # n
  BY <1>1 DEF IInv, OwnInv
<1>5. mine[p] = Null
  BY <1>2 DEF IInv, OwnInv, HasNode
<1>6. OwnInv'
  <2>1. \A u \in Thread : mine'[u] # Null <=> HasNode(u)'
    BY <1>3, <1>4 DEF IInv, OwnInv, HasNode
  <2>2. \A m \in Node : m \in alive' <=> m \in Range(order) \/ \E u \in Thread : mine'[u] = m
    BY <1>1, <1>3, <1>5 DEF IInv, OwnInv
  <2>3. \A u \in Thread : mine'[u] # Null => mine'[u] \notin Range(order)
    BY <1>3, <1>4 DEF IInv, OwnInv
  <2>4. \A u, v \in Thread : u # v /\ mine'[u] # Null => mine'[u] # mine'[v]
    BY <1>3, <1>4 DEF IInv, OwnInv
  <2> QED
    BY <1>2, <2>1, <2>2, <2>3, <2>4 DEF OwnInv
<1>7. \A m \in Node : m # n => data'[m] = data[m] /\ next'[m] = next[m]
  BY <1>1 DEF IInv, Control, TypeOK
<1>8. \A m \in Range(order) : data'[m] = data[m] /\ next'[m] = next[m]
  BY <1>4, <1>7, Ends
<1>9. CallInv'
  <2>1. data'[tail] = data[tail] /\ next'[tail] = next[tail]
    BY <1>8, Ends
  <2> QED
    BY <1>2, <1>3, <2>1 DEF IInv, CallInv
<1>10. ListIntact'
  <2>1. \A i \in 1 .. Len(order) - 1 : order[i] \in Range(order)
    BY Ends DEF Range
  <2> QED
    BY <1>2, <1>8, <2>1 DEF IInv, ListIntact
<1> QED
  BY <1>6, <1>9, <1>10 DEF Shape

(* A push that writes holds tail_mutex alone, and writes to the dummy.     *)
LEMMA SetDataShape ==
  ASSUME IInv, NEW p \in Producer, SetData(p)
  PROVE  Shape'
<1> USE Sets
<1>1. \A q \in Producer : q # p => pc[q] \notin {"data", "next", "tail"}
  BY DEF SetData, Goto, IInv, Control, LockInv
<1>2. /\ pc[p] = "data" /\ data' = [data EXCEPT ![tail] = <<p, sent[p] + 1>>]
      /\ UNCHANGED <<alive, next, head, tail, mine, sent, order>>
  BY DEF SetData, Goto, counters
<1>3. \A u \in Thread : pc'[u] = IF u = p THEN "next" ELSE pc[u]
  BY DEF SetData, Goto, IInv, Control, TypeOK
<1>4. OwnInv'
  <2>1. \A u \in Thread : HasNode(u)' <=> HasNode(u)
    BY <1>2, <1>3 DEF HasNode
  <2> QED
    BY <1>2, <2>1 DEF IInv, OwnInv
<1>5. CallInv'
  <2>1. data'[tail] = <<p, sent[p] + 1>>
    BY <1>2 DEF IInv, Control, TypeOK
  <2> QED
    BY <1>1, <1>2, <1>3, <2>1 DEF IInv, CallInv
<1>6. ListIntact'
  BY <1>2 DEF IInv, ListIntact
<1> QED
  BY <1>4, <1>5, <1>6 DEF Shape

LEMMA SetNextShape ==
  ASSUME IInv, NEW p \in Producer, SetNext(p)
  PROVE  Shape'
<1> USE Sets
<1>1. \A q \in Producer : q # p => pc[q] \notin {"data", "next", "tail"}
  BY DEF SetNext, Goto, IInv, Control, LockInv
<1>2. /\ pc[p] = "next" /\ next' = [next EXCEPT ![tail] = mine[p]]
      /\ UNCHANGED <<alive, data, head, tail, mine, sent, order>>
  BY DEF SetNext, Goto, counters
<1>3. \A u \in Thread : pc'[u] = IF u = p THEN "tail" ELSE pc[u]
  BY DEF SetNext, Goto, IInv, Control, TypeOK
<1>4. OwnInv'
  <2>1. \A u \in Thread : HasNode(u)' <=> HasNode(u)
    BY <1>2, <1>3 DEF HasNode
  <2> QED
    BY <1>2, <2>1 DEF IInv, OwnInv
<1>5. CallInv'
  <2>1. next'[tail] = mine[p]
    BY <1>2 DEF IInv, Control, TypeOK
  <2> QED
    BY <1>1, <1>2, <1>3, <2>1 DEF IInv, CallInv
<1>6. ListIntact'
  <2>1. \A i \in 1 .. Len(order) - 1 : next'[order[i]] = next[order[i]]
    <3> SUFFICES ASSUME NEW i \in 1 .. Len(order) - 1
                 PROVE  next'[order[i]] = next[order[i]]
      OBVIOUS
    <3>1. i \in 1 .. Len(order) /\ Len(order) \in 1 .. Len(order) /\ i # Len(order)
      BY Ends
    <3>2. order[i] # tail /\ order[i] \in Node
      BY <3>1, Ends DEF NoTwice
    <3> QED
      BY <1>2, <3>2 DEF IInv, Control, TypeOK
  <2> QED
    BY <1>2, <2>1 DEF IInv, ListIntact
<1> QED
  BY <1>4, <1>5, <1>6 DEF Shape

LEMMA AppendNode ==
  ASSUME NEW N, NEW o \in Seq(N), NEW n \in N
  PROVE  /\ Append(o, n) \in Seq(N) /\ Append(o, n) # <<>>
         /\ Len(Append(o, n)) = Len(o) + 1
         /\ \A i \in 1 .. Len(o) : Append(o, n)[i] = o[i]
         /\ Append(o, n)[Len(o) + 1] = n
         /\ Range(Append(o, n)) = Range(o) \cup {n}
<1>1. /\ Append(o, n) \in Seq(N) /\ Append(o, n) # <<>>
      /\ Len(Append(o, n)) = Len(o) + 1 /\ Len(o) \in Nat
      /\ \A i \in 1 .. Len(o) : Append(o, n)[i] = o[i]
      /\ Append(o, n)[Len(o) + 1] = n
      /\ DOMAIN Append(o, n) = 1 .. Len(o) + 1 /\ DOMAIN o = 1 .. Len(o)
  OBVIOUS
<1>2. Range(Append(o, n)) = Range(o) \cup {n}
  BY <1>1 DEF Range
<1> QED
  BY <1>1, <1>2

(* The new tail enters the list, behind the old one whose next it is.      *)
LEMMA SetTailShape ==
  ASSUME IInv, NEW p \in Producer, SetTail(p)
  PROVE  Shape'
<1> USE ConstantsAssumption, Sets
<1> DEFINE n == mine[p]
<1>1. \A q \in Producer : q # p => pc[q] \notin {"data", "next", "tail"}
  BY DEF SetTail, Goto, IInv, Control, LockInv
<1>2. /\ pc[p] = "tail" /\ tail' = n /\ order' = Append(order, n)
      /\ mine' = [mine EXCEPT ![p] = Null]
      /\ UNCHANGED <<alive, data, next, head>>
  BY DEF SetTail, Goto, heap
<1>3. \A u \in Thread : /\ pc'[u] = IF u = p THEN "notify" ELSE pc[u]
                        /\ mine'[u] = IF u = p THEN Null ELSE mine[u]
  BY <1>2 DEF SetTail, Goto, IInv, Control, TypeOK
<1>4. n \in Node /\ n # Null /\ n \notin Range(order)
  BY <1>2 DEF IInv, Control, TypeOK, OwnInv, HasNode
<1>5. next[tail] = n
  BY <1>2 DEF IInv, CallInv
<1> HIDE DEF n
<1>6. /\ order' \in Seq(Node) /\ order' # <<>>
      /\ Len(order') = Len(order) + 1
      /\ \A i \in 1 .. Len(order) : order'[i] = order[i]
      /\ order'[Len(order) + 1] = n
      /\ Range(order') = Range(order) \cup {n}
  BY <1>2, <1>4, Ends, AppendNode
<1>7. OwnInv'
  <2>0. OwnInv
    BY DEF IInv
  <2>1. \A u \in Thread : mine'[u] # Null <=> HasNode(u)'
    BY <1>3, <2>0 DEF OwnInv, HasNode
  <2>2. \A m \in Node : m \in alive <=> m \in Range(order') \/ \E u \in Thread : mine'[u] = m
    BY <1>3, <1>6, <2>0 DEF OwnInv, n
  <2>3. \A u \in Thread : mine'[u] # Null => mine'[u] \notin Range(order')
    BY <1>3, <1>6, <2>0 DEF OwnInv, n
  <2>4. \A u, v \in Thread : u # v /\ mine'[u] # Null => mine'[u] # mine'[v]
    BY <1>3, <2>0 DEF OwnInv
  <2> QED
    BY <1>2, <2>1, <2>2, <2>3, <2>4 DEF OwnInv
<1>8. CallInv'
  <2>1. head # n
    BY <1>4, Ends
  <2> QED
    BY <1>1, <1>2, <1>3, <2>1 DEF IInv, CallInv
<1>9. ListIntact'
  <2>1. Len(order) \in Nat /\ Len(order) > 0 /\ tail = order[Len(order)] /\ head = order[1]
    BY Ends
  <2>2. order'[1] = head /\ order'[Len(order')] = n
    BY <1>6, <2>1
  <2>3. \A i \in 1 .. Len(order') - 1 : next[order'[i]] = order'[i + 1]
    <3> SUFFICES ASSUME NEW i \in 1 .. Len(order)
                 PROVE  next[order'[i]] = order'[i + 1]
      BY <1>6, <2>1
    <3>1. CASE i = Len(order)
      BY <1>5, <1>6, <2>1, <3>1
    <3>2. CASE i # Len(order)
      <4>1. i \in 1 .. Len(order) - 1 /\ i + 1 \in 1 .. Len(order)
        BY <2>1, <3>2
      <4> QED
        BY <1>6, <4>1 DEF IInv, ListIntact
    <3> QED
      BY <3>1, <3>2
  <2>4. \A i, j \in 1 .. Len(order') : order'[i] = order'[j] => i = j
    <3>1. \A i \in 1 .. Len(order) : order[i] # n
      BY <1>4, Ends DEF Range
    <3> SUFFICES ASSUME NEW i \in 1 .. Len(order) + 1, NEW j \in 1 .. Len(order) + 1,
                        order'[i] = order'[j]
                 PROVE  i = j
      BY <1>6
    <3>2. CASE i \in 1 .. Len(order) /\ j \in 1 .. Len(order)
      BY <1>6, <3>2 DEF IInv, ListIntact
    <3>3. CASE i = Len(order) + 1 \/ j = Len(order) + 1
      BY <1>6, <2>1, <3>1, <3>3
    <3> QED
      BY <2>1, <3>2, <3>3
  <2> QED
    BY <1>2, <1>6, <2>2, <2>3, <2>4 DEF ListIntact
<1> QED
  BY <1>7, <1>8, <1>9 DEF Shape

(* A pop takes the node at head, which is not the dummy.                   *)
LEMMA pop_head_Shape ==
  ASSUME IInv, NEW t \in Taker, pop_head(t)
  PROVE  Shape'
<1> USE ConstantsAssumption, Sets
<1>1. /\ pc[t] = "popping" /\ head' = next[head] /\ order' = Tail(order)
      /\ mine' = [mine EXCEPT ![t] = head]
      /\ UNCHANGED <<alive, data, next, tail, sent>>
  BY DEF pop_head, Goto, heap, counters
<1>2. \A u \in Thread : /\ pc'[u] = IF u = t THEN "returning" ELSE pc[u]
                        /\ mine'[u] = IF u = t THEN head ELSE mine[u]
  BY <1>1 DEF pop_head, Goto, IInv, Control, TypeOK
<1>3. /\ order \in Seq(Node) /\ Len(order) \in Nat /\ Len(order) > 1 /\ order # <<>>
      /\ head = order[1] /\ tail = order[Len(order)] /\ NoTwice(order)
      /\ head \in Range(order) /\ head \in Node
  <2>1. head # tail
    BY <1>1 DEF IInv, CallInv
  <2> QED
    BY <2>1, Ends
<1>4. /\ order' \in Seq(Node)
      /\ Len(order') = Len(order) - 1
      /\ \A i \in 1 .. Len(order) - 1 : order'[i] = order[i + 1]
      /\ Range(order') = Range(order) \ {head}
  BY <1>1, <1>3, PopFront, RangePop
<1>5. OwnInv'
  <2>0. OwnInv /\ head # Null
    BY <1>3 DEF IInv
  <2>1. mine[t] = Null
    BY <1>1, <2>0 DEF OwnInv, HasNode
  <2>2. \A u \in Thread : mine'[u] # Null <=> HasNode(u)'
    BY <1>2, <2>0 DEF OwnInv, HasNode
  <2>3. \A m \in Node : m \in alive <=> m \in Range(order') \/ \E u \in Thread : mine'[u] = m
    BY <1>2, <1>3, <1>4, <2>0, <2>1 DEF OwnInv
  <2>4. \A u \in Thread : mine'[u] # Null => mine'[u] \notin Range(order')
    BY <1>2, <1>4, <2>0 DEF OwnInv
  <2>5. \A u, v \in Thread : u # v /\ mine'[u] # Null => mine'[u] # mine'[v]
    BY <1>2, <1>3, <2>0 DEF OwnInv
  <2> QED
    BY <1>1, <2>2, <2>3, <2>4, <2>5 DEF OwnInv
<1>6. CallInv'
  <2>1. \A u \in Taker : pc'[u] # "popping"
    <3>1. \A u \in Taker : u # t => pc[u] # "popping"
      BY <1>1 DEF IInv, Control, LockInv
    <3> QED
      BY <1>2, <3>1
  <2>2. \A q \in Producer : pc'[q] = pc[q] /\ mine'[q] = mine[q]
    BY <1>2
  <2> QED
    BY <1>1, <2>1, <2>2 DEF IInv, CallInv
<1>7. ListIntact'
  <2>1. order' # <<>>
    BY <1>3, <1>4
  <2>2. order'[1] = next[head]
    BY <1>3, <1>4 DEF IInv, ListIntact
  <2>3. order'[Len(order')] = tail
    BY <1>3, <1>4
  <2>4. \A i \in 1 .. Len(order') - 1 : next[order'[i]] = order'[i + 1]
    <3> SUFFICES ASSUME NEW i \in 1 .. Len(order) - 2
                 PROVE  next[order'[i]] = order'[i + 1]
      BY <1>3, <1>4
    <3>1. i \in 1 .. Len(order) - 1 /\ i + 1 \in 1 .. Len(order) - 1
      BY <1>3
    <3>2. order'[i] = order[i + 1] /\ order'[i + 1] = order[i + 1 + 1]
      BY <1>4, <3>1
    <3>3. next[order[i + 1]] = order[i + 1 + 1]
      BY <3>1 DEF IInv, ListIntact
    <3> QED
      BY <3>2, <3>3
  <2>5. \A i, j \in 1 .. Len(order') : order'[i] = order'[j] => i = j
    <3> SUFFICES ASSUME NEW i \in 1 .. Len(order) - 1, NEW j \in 1 .. Len(order) - 1,
                        order'[i] = order'[j]
                 PROVE  i = j
      BY <1>4
    <3>1. /\ order[i + 1] = order[j + 1]
          /\ i + 1 \in 1 .. Len(order) /\ j + 1 \in 1 .. Len(order)
      BY <1>3, <1>4
    <3>2. i + 1 = j + 1
      BY <3>1 DEF IInv, ListIntact
    <3> QED
      BY <3>2
  <2> QED
    BY <1>1, <2>1, <2>2, <2>3, <2>4, <2>5 DEF ListIntact
<1> QED
  BY <1>5, <1>6, <1>7 DEF Shape

LEMMA ReturnShape ==
  ASSUME IInv, NEW t \in Taker, Return(t)
  PROVE  Shape'
<1> USE ConstantsAssumption, Sets
<1>1. /\ pc[t] = "returning" /\ alive' = alive \ {mine[t]}
      /\ UNCHANGED <<data, next, head, tail, sent, order>>
  BY DEF Return, Goto
<1>2. \A u \in Thread : /\ pc'[u] = IF u = t THEN "idle" ELSE pc[u]
                        /\ mine'[u] = IF u = t THEN Null ELSE mine[u]
  BY DEF Return, Goto, IInv, Control, TypeOK
<1>3. OwnInv'
  <2>0. OwnInv /\ mine[t] # Null
    BY <1>1 DEF IInv, OwnInv, HasNode
  <2>1. \A u \in Thread : mine'[u] # Null <=> HasNode(u)'
    BY <1>2, <2>0 DEF OwnInv, HasNode
  <2>2. \A m \in Node : m \in alive' <=> m \in Range(order) \/ \E u \in Thread : mine'[u] = m
    BY <1>1, <1>2, <2>0 DEF OwnInv
  <2>3. \A u \in Thread : mine'[u] # Null => mine'[u] \notin Range(order)
    BY <1>2, <2>0 DEF OwnInv
  <2>4. \A u, v \in Thread : u # v /\ mine'[u] # Null => mine'[u] # mine'[v]
    BY <1>2, <2>0 DEF OwnInv
  <2> QED
    BY <1>1, <2>1, <2>2, <2>3, <2>4 DEF OwnInv
<1>4. CallInv'
  BY <1>1, <1>2 DEF IInv, CallInv
<1>5. ListIntact'
  BY <1>1 DEF IInv, ListIntact
<1> QED
  BY <1>3, <1>4, <1>5 DEF Shape

-----------------------------------------------------------------------------
(* Safety *)

(* The steps of the two kinds of takers. *)
Pops(t) ==
  \/ CallPop(t) \/ LockHead(t) \/ FindData(t) \/ ReturnNothing(t) \/ pop_head(t) \/ Return(t)
  \/ t \in Waiter /\ (FindNoData(t) \/ Sleep(t) \/ SpuriousWakeup(t))

LEMMA NextIInv == IInv /\ [Next]_vars => IInv'
<1> SUFFICES ASSUME IInv, [Next]_vars
             PROVE  IInv'
  OBVIOUS
<1>1. CASE UNCHANGED vars
  BY <1>1 DEF vars, heap, counters, IInv, Control, TypeOK, PlacesInv, LockInv, CountInv, OwnInv,
              HasNode, CallInv, ListIntact
<1>2. ASSUME NEW p \in Producer, Allocate(p) \/ push(p)
      PROVE  IInv'
  <2>1. Control'
    BY <1>2, PushControl, SetTailControl, NotifyControl DEF push
  <2>2. Shape'
    BY <1>2, QuietPush, AllocateShape, SetDataShape, SetNextShape, SetTailShape DEF push
  <2> QED
    BY <2>1, <2>2 DEF IInv, Shape
<1>3. ASSUME NEW t \in Taker, Pops(t)
      PROVE  IInv'
  <2>1. Control'
    BY <1>3, PopControl DEF Pops
  <2>2. Shape'
    BY <1>3, QuietPop, pop_head_Shape, ReturnShape DEF Pops
  <2> QED
    BY <2>1, <2>2 DEF IInv, Shape
<1>4. CASE Next
  <2>1. \/ \E p \in Producer : Allocate(p) \/ push(p)
        \/ \E t \in Taker : Pops(t)
    BY <1>4, Sets, Zenon DEF Next, wait_and_pop, try_pop, Pops
  <2> QED
    BY <1>2, <1>3, <2>1
<1> QED
  BY <1>1, <1>4

LEMMA Inductive == Spec => []IInv
BY InitIInv, NextIInv, PTL DEF Spec

(* The types, among them that head and tail never are null.                *)
THEOREM TypeCorrect == Spec => []TypeOK
<1>1. IInv => TypeOK
  BY DEF IInv, Control
<1> QED
  BY <1>1, Inductive, PTL

(* For any number of threads: the list hangs together, every node alive    *)
(* has one owner, and no thread uses a node that another has deleted.      *)
THEOREM OwnersCorrect == Spec => []OneOwnerEach
<1>1. IInv => OneOwnerEach
  <2> SUFFICES ASSUME IInv, NEW n \in Node
               PROVE  /\ n \in alive <=> n \in Range(order) \/ LinkedIn(n) \/ Owner(n) # {}
                      /\ \A t, u \in Owner(n) : t = u
                      /\ ~(n \in Range(order) /\ LinkedIn(n))
                      /\ n \in Range(order) \/ LinkedIn(n) => Owner(n) = {}
    BY DEF IInv, OneOwnerEach
  <2> USE ConstantsAssumption, Sets
  <2>1. OwnInv /\ n # Null
    BY DEF IInv
  <2>2. LinkedIn(n) \/ Owner(n) # {} <=> \E t \in Thread : mine[t] = n
    <3>1. \A t \in Thread : mine[t] = n => LinkedIn(n) \/ t \in Owner(n)
      BY <2>1 DEF OwnInv, HasNode, LinkedIn, Owner
    <3> QED
      BY <3>1 DEF LinkedIn, Owner
  <2>3. \A t, u \in Owner(n) : t = u
    BY <2>1 DEF OwnInv, Owner
  <2>4. LinkedIn(n) => Owner(n) = {}
    BY <2>1 DEF OwnInv, LinkedIn, Owner
  <2>5. n \in Range(order) => ~LinkedIn(n) /\ Owner(n) = {}
    BY <2>1 DEF OwnInv, LinkedIn, Owner
  <2> QED
    BY <2>1, <2>2, <2>3, <2>4, <2>5 DEF OwnInv
<1> QED
  BY <1>1, Inductive, PTL

-----------------------------------------------------------------------------
(* Refinement *)

(* The data of all nodes but the last. *)
Front(d, o) == [i \in 1 .. Len(o) - 1 |-> d[o[i]]]

LEMMA FrontAppend ==
  ASSUME NEW d, NEW N, NEW o \in Seq(N), o # <<>>, NEW n \in N
  PROVE  Front(d, Append(o, n)) = Append(Front(d, o), d[o[Len(o)]])
<1> DEFINE S == {d[m] : m \in N}
           l == Append(o, n)
           k == Len(o)
           lhs == Front(d, l)
           rhs == Append(Front(d, o), d[o[k]])
<1>1. /\ k \in Nat /\ k # 0 /\ Len(l) = k + 1
      /\ \A i \in 1 .. k : l[i] = o[i] /\ o[i] \in N
  BY AppendNode
<1> HIDE DEF l, k
<1>2. lhs \in Seq(S) /\ Len(lhs) = k /\ \A i \in 1 .. k : lhs[i] = d[o[i]]
  BY <1>1 DEF Front
<1>3. /\ Front(d, o) \in Seq(S) /\ Len(Front(d, o)) = k - 1
      /\ \A i \in 1 .. k - 1 : Front(d, o)[i] = d[o[i]]
  BY <1>1 DEF Front, k
<1>4. d[o[k]] \in S
  BY <1>1
<1> HIDE DEF S
<1>5. rhs \in Seq(S) /\ Len(rhs) = k
      /\ \A i \in 1 .. k : rhs[i] = IF i = k THEN d[o[k]] ELSE Front(d, o)[i]
  BY <1>1, <1>3, <1>4
<1> HIDE DEF lhs, rhs
<1>6. \A i \in 1 .. k : lhs[i] = rhs[i]
  <2> TAKE i \in 1 .. k
  <2>1. lhs[i] = d[o[i]]
    BY <1>2
  <2>2. i # k => rhs[i] = d[o[i]]
    <3>1. i # k => i \in 1 .. k - 1
      BY <1>1
    <3> QED
      BY <3>1, <1>3, <1>5
  <2>3. i = k => rhs[i] = d[o[i]]
    BY <1>5
  <2> QED
    BY <2>1, <2>2, <2>3
<1>7. lhs = rhs
  BY <1>1, <1>2, <1>5, <1>6, SeqEqual
<1> QED
  BY <1>7 DEF lhs, rhs, l, k

LEMMA FrontTail ==
  ASSUME NEW d, NEW N, NEW o \in Seq(N), Len(o) > 1
  PROVE  /\ Front(d, o) # <<>>
         /\ Head(Front(d, o)) = d[o[1]]
         /\ Tail(Front(d, o)) = Front(d, Tail(o))
<1> DEFINE S == {d[m] : m \in N}
           k == Len(o)
           all == Front(d, o)
           rest == Front(d, Tail(o))
<1>1. /\ Tail(o) \in Seq(N) /\ k \in Nat /\ k > 1 /\ Len(Tail(o)) = k - 1
      /\ \A i \in 1 .. k - 1 : Tail(o)[i] = o[i + 1]
      /\ \A i \in 1 .. k : o[i] \in N
  BY PopFront
<1>2. all \in Seq(S) /\ Len(all) = k - 1 /\ \A i \in 1 .. k - 1 : all[i] = d[o[i]]
  BY <1>1 DEF Front
<1>3. /\ rest \in Seq(S) /\ Len(rest) = k - 2
      /\ \A i \in 1 .. k - 2 : rest[i] = d[o[i + 1]]
  <2>1. \A i \in 1 .. k - 2 : Tail(o)[i] = o[i + 1] /\ o[i + 1] \in N
    BY <1>1
  <2> QED
    BY <1>1, <2>1 DEF Front
<1> HIDE DEF S, all, rest, k
<1>4. all # <<>> /\ Head(all) = all[1] /\ all[1] = d[o[1]]
  BY <1>1, <1>2
<1>5. /\ Tail(all) \in Seq(S) /\ Len(Tail(all)) = k - 2
      /\ \A i \in 1 .. k - 2 : Tail(all)[i] = all[i + 1]
  BY <1>1, <1>2, <1>4
<1>6. \A i \in 1 .. k - 2 : Tail(all)[i] = rest[i]
  <2> TAKE i \in 1 .. k - 2
  <2>1. i + 1 \in 1 .. k - 1
    BY <1>1
  <2>2. Tail(all)[i] = all[i + 1]
    BY <1>5
  <2>3. all[i + 1] = d[o[i + 1]]
    BY <1>2, <2>1
  <2>4. rest[i] = d[o[i + 1]]
    BY <1>3
  <2> QED
    BY <2>2, <2>3, <2>4
<1>7. Tail(all) = rest
  BY <1>1, <1>3, <1>5, <1>6, SeqEqual
<1> QED
  BY <1>4, <1>7 DEF all, rest

(* What the last pop of each thread has returned or is about to return. *)
Returned == [t \in Taker |-> IF pc[t] = "returning" THEN data[mine[t]] ELSE result[t]]

LEMMA InitAbstract == Init => Abstract!Init
<1> SUFFICES ASSUME Init
             PROVE  Abstract!Init
  OBVIOUS
<1> USE Sets DEF Init
<1>1. Content = <<>>
  BY DEF Content
<1>2. Returned = [t \in Taker |-> Nothing]
  BY DEF Returned
<1> QED
  BY <1>1, <1>2 DEF Abstract!Init, Returned

LEMMA SetTailPushes ==
  ASSUME IInv, NEW p \in Producer, SetTail(p)
  PROVE  Abstract!Push(p)
<1> USE Sets
<1>1. /\ pc[p] = "tail" /\ order' = Append(order, mine[p]) /\ UNCHANGED <<data, result>>
      /\ sent' = [sent EXCEPT ![p] = @ + 1]
      /\ pc' = [pc EXCEPT ![p] = "notify"] /\ mine' = [mine EXCEPT ![p] = Null]
  BY DEF SetTail, Goto, heap
<1>2. /\ mine[p] \in Node /\ sent[p] < MaxCalls
      /\ data[tail] = <<p, sent[p] + 1>>
  BY <1>1, ConstantsAssumption DEF IInv, Control, TypeOK, CountInv, CallInv, OwnInv, HasNode
<1>3. order \in Seq(Node) /\ order # <<>> /\ tail = order[Len(order)]
  BY Ends DEF IInv, ListIntact
<1>4. Content' = Append(Content, data[tail])
  <2>1. Front(data, Append(order, mine[p])) = Append(Front(data, order), data[tail])
    BY <1>2, <1>3, FrontAppend
  <2> QED
    BY <1>1, <2>1 DEF Content, Front
<1>5. Returned' = Returned
  BY <1>1 DEF IInv, Control, TypeOK, Returned
<1> QED
  BY <1>1, <1>2, <1>4, <1>5 DEF Abstract!Push, Returned

LEMMA pop_head_Pops ==
  ASSUME IInv, NEW t \in Taker, pop_head(t)
  PROVE  Abstract!Pop(t)
<1> USE Sets
<1>1. /\ pc[t] = "popping" /\ order' = Tail(order) /\ UNCHANGED <<data, sent, result>>
      /\ mine' = [mine EXCEPT ![t] = head] /\ pc' = [pc EXCEPT ![t] = "returning"]
  BY DEF pop_head, Goto, heap, counters
<1>2. order \in Seq(Node) /\ Len(order) > 1 /\ head = order[1]
  BY <1>1, Ends DEF IInv, CallInv
<1>3. /\ Content # <<>> /\ Head(Content) = data[head]
      /\ Content' = Tail(Content)
  <2>1. /\ Front(data, order) # <<>> /\ Head(Front(data, order)) = data[order[1]]
        /\ Tail(Front(data, order)) = Front(data, Tail(order))
    BY <1>2, FrontTail
  <2>2. Content = Front(data, order) /\ Content' = Front(data, Tail(order))
    BY <1>1 DEF Content, Front
  <2> QED
    BY <1>2, <2>1, <2>2
<1>4. Returned' = [Returned EXCEPT ![t] = data[head]]
  BY <1>1 DEF IInv, Control, TypeOK, Returned
<1> QED
  BY <1>1, <1>3, <1>4 DEF Abstract!Pop, Returned

LEMMA ReturnsNothing ==
  ASSUME IInv, NEW t \in Taker, ReturnNothing(t)
  PROVE  Abstract!PopNothing(t)
<1> USE Sets
<1>1. /\ head = tail /\ pc[t] = "comparing" /\ pc' = [pc EXCEPT ![t] = "idle"]
      /\ result' = [result EXCEPT ![t] = Nothing]
      /\ UNCHANGED <<data, mine, sent, order>>
  BY DEF ReturnNothing, Goto, heap
<1>2. Content = <<>>
  <2>1. Len(order) = 1
    BY <1>1, Ends
  <2>2. Content = [i \in 1 .. 0 |-> data[order[i]]]
    BY <2>1 DEF Content
  <2> QED
    BY <2>2
<1>3. Content' = Content
  BY <1>1 DEF Content
<1>4. Returned' = [Returned EXCEPT ![t] = Nothing]
  BY <1>1 DEF IInv, Control, TypeOK, Returned
<1> QED
  BY <1>1, <1>2, <1>3, <1>4 DEF Abstract!PopNothing, Returned

(* The node that is written is the dummy or is not in the list. *)
LEMMA WritesStutter ==
  ASSUME IInv, NEW p \in Producer, Allocate(p) \/ SetData(p)
  PROVE  UNCHANGED <<Content, sent, Returned>>
<1> USE Sets
<1>1. PICK n \in Node :
        /\ \A i \in 1 .. Len(order) - 1 : order[i] # n
        /\ \A t \in Taker : mine[t] # n
        /\ \A m \in Node : m # n => data'[m] = data[m]
  <2>1. CASE Allocate(p)
    <3>1. PICK n \in Node \ alive : data' = [data EXCEPT ![n] = Nothing]
      BY <2>1 DEF Allocate
    <3>2. n \notin Range(order) /\ \A t \in Thread : mine[t] # n
      BY <3>1 DEF IInv, OwnInv
    <3>3. \A i \in 1 .. Len(order) - 1 : order[i] \in Range(order)
      BY Ends DEF Range
    <3>4. \A m \in Node : m # n => data'[m] = data[m]
      BY <3>1 DEF IInv, Control, TypeOK
    <3> QED
      BY <3>2, <3>3, <3>4
  <2>2. CASE SetData(p)
    <3>1. tail \in Node /\ \A m \in Node : m # tail => data'[m] = data[m]
      BY <2>2 DEF SetData, IInv, Control, TypeOK
    <3>2. tail \in Range(order) /\ tail # Null
      BY <3>1, Ends, ConstantsAssumption
    <3>3. \A t \in Taker : mine[t] # tail
      BY <3>2 DEF IInv, OwnInv
    <3>4. \A i \in 1 .. Len(order) - 1 : order[i] # tail
      <4> SUFFICES ASSUME NEW i \in 1 .. Len(order) - 1
                   PROVE  order[i] # tail
        OBVIOUS
      <4>1. i \in 1 .. Len(order) /\ Len(order) \in 1 .. Len(order) /\ i # Len(order)
        BY Ends
      <4> QED
        BY <4>1, Ends DEF NoTwice
    <3> QED
      BY <3>1, <3>3, <3>4
  <2> QED
    BY <2>1, <2>2
<1>2. UNCHANGED <<order, sent, result>>
  BY DEF Allocate, SetData, counters
<1>3. \A i \in 1 .. Len(order) - 1 : order[i] \in Node
  BY Ends
<1>4. Content' = Content
  BY <1>1, <1>2, <1>3 DEF Content
<1>5. \A t \in Taker : /\ pc'[t] = pc[t] /\ mine'[t] = mine[t]
                       /\ pc[t] = "returning" => mine[t] \in Node
  BY DEF Allocate, SetData, Goto, IInv, Control, TypeOK, OwnInv, HasNode
<1>6. Returned' = Returned
  BY <1>1, <1>2, <1>5 DEF Returned
<1> QED
  BY <1>2, <1>4, <1>6

LEMMA ReturnStutters ==
  ASSUME IInv, NEW t \in Taker, Return(t)
  PROVE  UNCHANGED <<Content, sent, Returned>>
<1> USE Sets
<1>1. Content' = Content /\ sent' = sent
  BY DEF Return, Content
<1>2. Returned' = Returned
  BY DEF Return, Goto, IInv, Control, TypeOK, Returned
<1> QED
  BY <1>1, <1>2

LEMMA OtherStutters ==
  ASSUME IInv, NEW t \in Thread,
         \/ t \in Producer /\ (LockTail(t) \/ SetNext(t) \/ Notify(t))
         \/ t \in Taker /\ (CallPop(t) \/ LockHead(t) \/ FindData(t))
         \/ t \in Waiter /\ (FindNoData(t) \/ Sleep(t) \/ SpuriousWakeup(t))
  PROVE  UNCHANGED <<Content, sent, Returned>>
<1> USE Sets
<1>1. UNCHANGED <<data, order, sent, result, mine>>
  BY DEF LockTail, SetNext, Notify, CallPop, LockHead, FindData, FindNoData, Sleep, SpuriousWakeup,
         heap, counters
<1>2. Content' = Content
  BY <1>1 DEF Content
<1>3. \A u \in Taker : pc'[u] = "returning" <=> pc[u] = "returning"
  <2>1. CASE Notify(t)
    <3>1. CASE Sleeping = {}
      BY <2>1, <3>1 DEF Notify, IInv, Control, TypeOK
    <3>2. CASE Sleeping # {}
      BY <2>1, <3>2 DEF Notify, Sleeping, IInv, Control, TypeOK
    <3> QED
      BY <3>1, <3>2
  <2>2. CASE ~Notify(t)
    <3>1. /\ pc[t] # "returning"
          /\ \E q \in {"data", "tail", "entering", "comparing", "popping", "blocking", "sleeping",
                       "woken"} : pc' = [pc EXCEPT ![t] = q]
      BY <2>2 DEF LockTail, SetNext, CallPop, LockHead, FindData, FindNoData, Sleep,
                  SpuriousWakeup, Goto
    <3> QED
      BY <3>1 DEF IInv, Control, TypeOK
  <2> QED
    BY <2>1, <2>2
<1>4. Returned' = Returned
  BY <1>1, <1>3 DEF Returned
<1> QED
  BY <1>1, <1>2, <1>4

(* For any number of threads the class is a queue: a push takes effect     *)
(* when tail moves, a pop when head does.                                  *)
THEOREM ImplementsQueue == Spec => IsAQueue
<1>1. IInv /\ [Next]_vars => [Abstract!Next]_<<Content, sent, Returned>>
  <2> SUFFICES ASSUME IInv, [Next]_vars
               PROVE  Abstract!Next \/ UNCHANGED <<Content, sent, Returned>>
    OBVIOUS
  <2>1. CASE UNCHANGED vars
    BY <2>1 DEF vars, heap, counters, Content, Returned
  <2>2. ASSUME NEW p \in Producer, Allocate(p) \/ push(p)
        PROVE  Abstract!Next \/ UNCHANGED <<Content, sent, Returned>>
    BY <2>2, Sets, SetTailPushes, WritesStutter, OtherStutters DEF push, Abstract!Next
  <2>3. ASSUME NEW c \in Waiter, CallPop(c) \/ wait_and_pop(c) \/ SpuriousWakeup(c)
        PROVE  Abstract!Next \/ UNCHANGED <<Content, sent, Returned>>
    BY <2>3, Sets, pop_head_Pops, ReturnStutters, OtherStutters DEF wait_and_pop, Abstract!Next
  <2>4. ASSUME NEW t \in Poller, CallPop(t) \/ try_pop(t)
        PROVE  Abstract!Next \/ UNCHANGED <<Content, sent, Returned>>
    BY <2>4, Sets, pop_head_Pops, ReturnsNothing, ReturnStutters, OtherStutters
    DEF try_pop, Abstract!Next
  <2> QED
    BY <2>1, <2>2, <2>3, <2>4 DEF Next
<1>2. IInv /\ [Next]_vars => [Abstract!Next]_<<Content, sent,
        [t \in Taker |-> IF pc[t] = "returning" THEN data[mine[t]] ELSE result[t]]>>
  BY <1>1 DEF Returned
<1> QED
  BY <1>2, InitAbstract, Inductive, PTL DEF Spec, IsAQueue, Abstract!Spec

=============================================================================
