-------------------------- MODULE SpscQueueProofs --------------------------
(***************************************************************************)
(* Proofs about SpscQueue for every number of pushes and pops: no node is  *)
(* used after its delete, the threads never race on a node, no node is     *)
(* lost, and the two ends implement AbstractQueue.                         *)
(***************************************************************************)
EXTENDS SpscQueue, TLAPS, SequenceTheorems

(* What push knows between its statements. *)
ProducerInv ==
  /\ tail = sent
  /\ ppc # "idle" => p = sent + 1 /\ sent < MaxPush
  /\ ppc \in {"swap_data", "set_next", "store_tail"} => old_tail = tail
  /\ ppc \in {"set_next", "store_tail"} => data[tail] = tail + 1
  /\ ppc = "store_tail" => next[tail] = tail + 1

(* What pop knows between its statements. *)
ConsumerInv ==
  /\ cpc \in {"compare", "read_next", "store_head"} => old_head = head
  /\ cpc \in {"read_next", "store_head"} => head < tail
  /\ cpc = "store_head" => new_head = head + 1
  /\ cpc \in {"read_data", "delete"} => head > 0 /\ old_head = head - 1
  /\ cpc = "delete" => res = old_head + 1
  /\ pops < MaxPop \/ cpc = "idle"

(* The list from head to tail, and the nodes that pop has passed. *)
ListInv ==
  /\ head <= tail
  /\ \A n \in 0 .. tail - 1 : data[n] = n + 1 /\ next[n] = n + 1

IInv == TypeOK /\ ProducerInv /\ ConsumerInv /\ ListInv /\ NoLeak

LEMMA InitIInv == Init => IInv
BY ConstantsAssumption
DEF Init, IInv, TypeOK, ProducerInv, ConsumerInv, ListInv, NoLeak, Node, Value, Null, Nothing

LEMMA NextIInv == IInv /\ [Next]_vars => IInv'
<1> SUFFICES ASSUME IInv, [Next]_vars
             PROVE  IInv'
  OBVIOUS
<1> USE ConstantsAssumption
        DEF IInv, TypeOK, ProducerInv, ConsumerInv, ListInv, NoLeak, Node, Value, Null,
            Nothing, memory, producer, consumer
<1>1. CASE Allocate
  BY <1>1 DEF Allocate
<1>2. CASE LoadTail
  BY <1>2 DEF LoadTail
<1>3. CASE SwapData
  BY <1>3 DEF SwapData
<1>4. CASE SetNext
  BY <1>4 DEF SetNext
<1>5. CASE StoreTail
  <2>1. (TypeOK /\ ProducerInv /\ ConsumerInv)'
    BY <1>5 DEF StoreTail
  <2>2. ListInv'
    BY <1>5 DEF StoreTail
  <2>3. NoLeak'
    BY <1>5 DEF StoreTail
  <2> QED
    BY <2>1, <2>2, <2>3
<1>6. CASE LoadHead
  BY <1>6 DEF LoadHead
<1>7. CASE FindEmpty
  BY <1>7 DEF FindEmpty
<1>8. CASE FindNode
  BY <1>8 DEF FindNode
<1>9. CASE ReadNext
  BY <1>9 DEF ReadNext
<1>10. CASE StoreHead
  BY <1>10 DEF StoreHead
<1>11. CASE ReadData
  BY <1>11 DEF ReadData
<1>12. CASE DeleteHead
  BY <1>12 DEF DeleteHead
<1>13. CASE UNCHANGED vars
  BY <1>13 DEF vars
<1> QED
  BY <1>1, <1>2, <1>3, <1>4, <1>5, <1>6, <1>7, <1>8, <1>9, <1>10, <1>11, <1>12, <1>13
  DEF Next, push, pop

LEMMA Inductive == Spec => []IInv
BY InitIInv, NextIInv, PTL DEF Spec

(* The types, among them that next of a popped node is never null. *)
THEOREM TypeCorrect == Spec => []TypeOK
<1>1. IInv => TypeOK
  BY DEF IInv
<1> QED
  BY <1>1, Inductive, PTL

(* push and pop never touch a deleted node, and exactly the nodes in the   *)
(* list and those that a call still owns are alive.                        *)
THEOREM MemorySafe == Spec => []MemorySafety
<1>1. IInv => MemorySafety
  BY DEF IInv, TypeOK, ProducerInv, ConsumerInv, ListInv, MemorySafety, NoLeak,
         NoDanglingUse, Node
<1> QED
  BY <1>1, Inductive, PTL

(* push and pop never work on the same node at once. *)
THEOREM RaceFree == Spec => []NoDataRace
<1>1. IInv => NoDataRace
  BY DEF IInv, TypeOK, ProducerInv, ConsumerInv, ListInv, NoDataRace, Node
<1> QED
  BY <1>1, Inductive, PTL

-----------------------------------------------------------------------------

(* The values in a stretch of the list, as callers see them. *)
Segment(d, h, t) == [i \in 1 .. t - h |-> <<"producer", d[h + i - 1]>>]

(* Segment of a list one node longer at its tail. *)
LEMMA SegmentAppend ==
  ASSUME NEW d, NEW h \in Int, NEW t \in Int, h <= t
  PROVE  Segment(d, h, t + 1) = Append(Segment(d, h, t), <<"producer", d[t]>>)
BY DEF Segment

(* A segment is a sequence of as many values as it has nodes. *)
LEMMA SegmentType ==
  ASSUME NEW d, NEW h \in Int, NEW t \in Int, h <= t,
         NEW S, \A n \in h .. t - 1 : <<"producer", d[n]>> \in S
  PROVE  Segment(d, h, t) \in Seq(S) /\ Len(Segment(d, h, t)) = t - h
BY DEF Segment

(* Segment of a list without its first node. *)
LEMMA SegmentTail ==
  ASSUME NEW d, NEW h \in Int, NEW t \in Int, h < t
  PROVE  /\ Segment(d, h, t) # <<>>
         /\ Head(Segment(d, h, t)) = <<"producer", d[h]>>
         /\ Tail(Segment(d, h, t)) = Segment(d, h + 1, t)
<1> DEFINE S == {<<"producer", d[n]>> : n \in Int}
           whole == Segment(d, h, t)
           rest == Segment(d, h + 1, t)
<1>0. \A n \in Int : <<"producer", d[n]>> \in S
  OBVIOUS
<1> HIDE DEF S
<1>1. whole \in Seq(S) /\ Len(whole) = t - h
  BY <1>0, SegmentType
<1>2. rest \in Seq(S) /\ Len(rest) = t - h - 1
  <2>1. h + 1 \in Int /\ h + 1 <= t
    OBVIOUS
  <2>2. rest \in Seq(S) /\ Len(rest) = t - (h + 1)
    BY <1>0, <2>1, SegmentType
  <2> QED
    BY <2>2
<1>3. /\ \A i \in 1 .. t - h : whole[i] = <<"producer", d[h + i - 1]>>
      /\ \A i \in 1 .. t - h - 1 : rest[i] = <<"producer", d[h + i]>>
  BY DEF Segment
<1> HIDE DEF whole, rest
<1>4. whole # <<>>
  BY <1>1, EmptySeq
<1>5. Head(whole) = whole[1]
  BY <1>1, <1>4
<1>6. /\ Tail(whole) \in Seq(S) /\ Len(Tail(whole)) = t - h - 1
      /\ \A i \in 1 .. t - h - 1 : Tail(whole)[i] = whole[i + 1]
  BY <1>1, <1>4, HeadTailProperties
<1>7. \A i \in 1 .. t - h - 1 : Tail(whole)[i] = rest[i]
  <2> TAKE i \in 1 .. t - h - 1
  <2>1. i + 1 \in 1 .. t - h /\ h + (i + 1) - 1 = h + i
    OBVIOUS
  <2> QED
    BY <1>3, <1>6, <2>1
<1>8. Tail(whole) = rest
  BY <1>2, <1>6, <1>7, SeqEqual
<1> QED
  BY <1>3, <1>4, <1>5, <1>8 DEF whole, rest

(* A push takes effect in StoreTail; a pop takes effect in StoreHead, or   *)
(* in FindEmpty when there is nothing.  All other steps are invisible.     *)
THEOREM ImplementsQueue == Spec => IsAQueue
<1> DEFINE Answer == [c \in {"consumer"} |->
                        CASE cpc = "read_data" -> Returned(data[old_head])
                          [] cpc = "delete" -> Returned(res)
                          [] OTHER -> Returned(result)]
           Sent == [q \in {"producer"} |-> sent]
<1>1. Content = Segment(data, head, tail)
  BY DEF Content, Segment
<1>2. Init => Abstract!Init
  <2>1. SUFFICES ASSUME Init
                 PROVE  Content = <<>>
    BY DEF Init, Abstract!Init, Returned
  <2> QED
    BY <2>1 DEF Init, Content
<1>3. IInv /\ IInv' /\ [Next]_vars => [Abstract!Next]_<<Content, Sent, Answer>>
  <2> SUFFICES ASSUME IInv, IInv', [Next]_vars
               PROVE  Abstract!Next \/ UNCHANGED <<Content, Sent, Answer>>
    OBVIOUS
  <2> USE ConstantsAssumption DEF memory, producer, consumer
  <2>0. head \in Int /\ tail \in Int /\ head <= tail /\ sent \in Int
    BY DEF IInv, TypeOK, ListInv, Node
  <2>1. CASE StoreTail
    <3>1. /\ tail' = tail + 1 /\ sent' = sent + 1 /\ sent < MaxPush
          /\ data[tail] = sent + 1
          /\ UNCHANGED <<head, data, cpc, old_head, res, result>>
      BY <2>0, <2>1 DEF StoreTail, IInv, ProducerInv
    <3>2. Content' = Append(Content, <<"producer", sent + 1>>)
      BY <1>1, <2>0, <3>1, SegmentAppend DEF Content, Segment
    <3>3. Sent' = [Sent EXCEPT !["producer"] = @ + 1] /\ Answer' = Answer
      BY <3>1
    <3>4. Abstract!Push("producer")
      BY <3>1, <3>2, <3>3 DEF Abstract!Push
    <3> QED
      BY <3>4 DEF Abstract!Next
  <2>2. CASE StoreHead
    <3>1. /\ head' = head + 1 /\ head < tail /\ old_head = head
          /\ cpc' = "read_data" /\ data[head] # Nothing
          /\ UNCHANGED <<tail, data, sent, old_head, res, result>>
      BY <2>0, <2>2 DEF StoreHead, IInv, TypeOK, ConsumerInv, ListInv, Nothing
    <3>2. /\ Content # <<>>
          /\ Head(Content) = <<"producer", data[head]>>
          /\ Content' = Tail(Content)
      <4>1. Content' = Segment(data, head + 1, tail)
        BY <3>1 DEF Content, Segment
      <4> QED
        BY <1>1, <2>0, <3>1, <4>1, SegmentTail
    <3>3. Answer' = [Answer EXCEPT !["consumer"] = Head(Content)] /\ Sent' = Sent
      BY <3>1, <3>2 DEF Returned
    <3>4. Abstract!Pop("consumer")
      BY <3>2, <3>3 DEF Abstract!Pop
    <3> QED
      BY <3>4 DEF Abstract!Next
  <2>3. CASE FindEmpty
    <3>1. /\ head = tail /\ cpc' = "idle" /\ result' = Nothing
          /\ UNCHANGED <<head, tail, data, sent>>
      BY <2>3 DEF FindEmpty, IInv, ConsumerInv
    <3>2. Content = <<>> /\ Content' = Content
      BY <2>0, <3>1 DEF Content
    <3>3. Answer' = [Answer EXCEPT !["consumer"] = <<>>] /\ Sent' = Sent
      BY <3>1 DEF Returned
    <3>4. Abstract!PopNothing("consumer")
      BY <3>2, <3>3 DEF Abstract!PopNothing
    <3> QED
      BY <3>4 DEF Abstract!Next
  <2>4. CASE SwapData
    <3>1. /\ UNCHANGED <<head, tail, sent, cpc, old_head, res, result>>
          /\ data' = [data EXCEPT ![tail] = sent + 1]
          /\ cpc = "read_data" => old_head < tail /\ old_head \in Int
      BY <2>0, <2>4 DEF SwapData, IInv, ProducerInv, ConsumerInv
    <3>2. \A n \in Int : n < tail => data'[n] = data[n]
      BY <2>0, <3>1 DEF IInv, TypeOK
    <3>3. Content' = Content
      BY <2>0, <3>1, <3>2 DEF Content
    <3> QED
      BY <3>1, <3>2, <3>3
  <2>5. CASE ReadData
    BY <2>5 DEF ReadData, Content
  <2>6. CASE DeleteHead
    BY <2>6 DEF DeleteHead, Content
  <2>7. CASE LoadHead \/ FindNode \/ ReadNext
    BY <2>7 DEF LoadHead, FindNode, ReadNext, Content
  <2>8. CASE Allocate \/ LoadTail \/ SetNext
    BY <2>8 DEF Allocate, LoadTail, SetNext, Content
  <2>9. CASE UNCHANGED vars
    BY <2>9 DEF vars, Content
  <2> QED
    BY <2>1, <2>2, <2>3, <2>4, <2>5, <2>6, <2>7, <2>8, <2>9 DEF Next, push, pop
<1> QED
  BY <1>2, <1>3, Inductive, PTL DEF Spec, IsAQueue, Abstract!Spec

=============================================================================
