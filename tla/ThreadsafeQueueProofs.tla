------------------------ MODULE ThreadsafeQueueProofs ------------------------
(***************************************************************************)
(* Proofs about ThreadsafeQueue for every finite set of threads and every  *)
(* bound: it implements AbstractQueue, and while a consumer sleeps every   *)
(* item has a thread on the way to it, but for the exceptions of pops.     *)
(***************************************************************************)
EXTENDS ThreadsafeQueue, TLAPS, FiniteSetTheorems, SequenceTheorems

(* Where a thread can be depends on the operation it calls. *)
Roles ==
  /\ \A p \in Producer : pc[p] \in {"idle", "entering", "locked", "pushed"}
  /\ \A c \in Consumer : pc[c] \in {"idle", "entering", "locked", "sleeping", "woken", "read"}
  /\ \A t \in Poller : pc[t] \in {"idle", "entering", "locked", "read"}

(* The item a pop has read is still the first one when it is removed. *)
ReadIsFront ==
  \A t \in Taker : pc[t] = "read" => queue # <<>> /\ front[t] = Head(queue)

(* A call pushes at most one item. *)
SentBound ==
  \A p \in Producer :
    IF pc[p] \in {"entering", "locked"} THEN sent[p] < calls[p] ELSE sent[p] <= calls[p]

IInv == TypeOK /\ Roles /\ ReadIsFront /\ SentBound

LEMMA InitIInv == Init => IInv
BY ConstantsAssumption
DEF Init, IInv, TypeOK, Roles, MutexHeld, ReadIsFront, SentBound, Holding, Thread, Taker, Item

LEMMA Threads ==
  /\ Producer \subseteq Thread /\ Taker \subseteq Thread
  /\ Consumer \subseteq Taker /\ Poller \subseteq Taker
  /\ \A p \in Producer : p \notin Taker
  /\ \A c \in Consumer : c \notin Poller
  /\ NoThread \notin Thread
BY ConstantsAssumption DEF Thread, Taker

LEMMA NextIInv == IInv /\ [Next]_vars => IInv'
<1> SUFFICES ASSUME IInv, [Next]_vars
             PROVE  IInv'
  OBVIOUS
<1> USE ConstantsAssumption, Threads
        DEF IInv, TypeOK, Roles, MutexHeld, ReadIsFront, SentBound, Holding, Goto
<1>1. ASSUME NEW t \in Thread, Call(t)
      PROVE  IInv'
  <2>1. TypeOK'
    BY <1>1 DEF Call
  <2>2. Roles' /\ MutexHeld'
    BY <1>1 DEF Call
  <2>3. ReadIsFront'
    BY <1>1 DEF Call
  <2>4. SentBound'
    BY <1>1 DEF Call
  <2> QED
    BY <2>1, <2>2, <2>3, <2>4
<1>2. ASSUME NEW t \in Thread, Lock(t)
      PROVE  IInv'
  <2>1. TypeOK'
    BY <1>2 DEF Lock
  <2>2. Roles'
    <3>1. pc' = [pc EXCEPT ![t] = "locked"]
      BY <1>2 DEF Lock
    <3> QED
      BY <3>1
  <2>3. MutexHeld'
    BY <1>2 DEF Lock
  <2>4. ReadIsFront'
    BY <1>2 DEF Lock
  <2>5. SentBound'
    BY <1>2 DEF Lock
  <2> QED
    BY <2>1, <2>2, <2>3, <2>4, <2>5
<1>3. ASSUME NEW p \in Producer, PushBack(p)
      PROVE  IInv'
  <2>1. TypeOK'
    BY <1>3 DEF PushBack, Item
  <2>2. Roles' /\ MutexHeld'
    BY <1>3 DEF PushBack, Item
  <2>3. ReadIsFront'
    BY <1>3 DEF PushBack, Item
  <2>4. SentBound'
    BY <1>3 DEF PushBack, Item
  <2> QED
    BY <2>1, <2>2, <2>3, <2>4
<1>4. ASSUME NEW p \in Producer, PushThrows(p)
      PROVE  IInv'
  <2>1. TypeOK'
    BY <1>4 DEF PushThrows
  <2>2. Roles' /\ MutexHeld'
    BY <1>4 DEF PushThrows
  <2>3. ReadIsFront'
    BY <1>4 DEF PushThrows
  <2>4. SentBound'
    BY <1>4 DEF PushThrows
  <2> QED
    BY <2>1, <2>2, <2>3, <2>4
<1>5. ASSUME NEW p \in Producer, Notify(p)
      PROVE  IInv'
  <2>1. PICK q \in Consumer \cup {p} :
           /\ q # p => pc[q] = "sleeping"
           /\ pc' = IF q = p THEN [pc EXCEPT ![p] = "idle"]
                           ELSE [pc EXCEPT ![p] = "idle", ![q] = "woken"]
    BY <1>5 DEF Notify, Sleeping
  <2>2. pc[p] = "pushed" /\ mut' = NoThread /\ UNCHANGED <<queue, front, calls, sent, result, spurious, thrown>>
    BY <1>5 DEF Notify
  <2>3. TypeOK'
    BY <2>1, <2>2
  <2>4. Roles' /\ MutexHeld'
    BY <2>1, <2>2
  <2>5. ReadIsFront'
    BY <2>1, <2>2
  <2>6. SentBound'
    BY <2>1, <2>2
  <2> QED
    BY <2>3, <2>4, <2>5, <2>6
<1>6. ASSUME NEW c \in Consumer, Sleep(c)
      PROVE  IInv'
  <2>1. TypeOK'
    BY <1>6 DEF Sleep
  <2>2. Roles' /\ MutexHeld'
    BY <1>6 DEF Sleep
  <2>3. ReadIsFront'
    BY <1>6 DEF Sleep
  <2>4. SentBound'
    BY <1>6 DEF Sleep
  <2> QED
    BY <2>1, <2>2, <2>3, <2>4
<1>7. ASSUME NEW c \in Consumer, SpuriousWakeup(c)
      PROVE  IInv'
  <2>1. TypeOK'
    BY <1>7 DEF SpuriousWakeup
  <2>2. Roles' /\ MutexHeld'
    BY <1>7 DEF SpuriousWakeup
  <2>3. ReadIsFront'
    BY <1>7 DEF SpuriousWakeup
  <2>4. SentBound'
    BY <1>7 DEF SpuriousWakeup
  <2> QED
    BY <2>1, <2>2, <2>3, <2>4
<1>8. ASSUME NEW t \in Taker, Read(t)
      PROVE  IInv'
  <2>1. TypeOK'
    BY <1>8 DEF Read
  <2>2. Roles' /\ MutexHeld'
    BY <1>8 DEF Read
  <2>3. ReadIsFront'
    BY <1>8 DEF Read
  <2>4. SentBound'
    BY <1>8 DEF Read
  <2> QED
    BY <2>1, <2>2, <2>3, <2>4
<1>9. ASSUME NEW t \in Taker, ReadThrows(t)
      PROVE  IInv'
  <2>1. TypeOK'
    BY <1>9 DEF ReadThrows
  <2>2. Roles' /\ MutexHeld'
    BY <1>9 DEF ReadThrows
  <2>3. ReadIsFront'
    BY <1>9 DEF ReadThrows
  <2>4. SentBound'
    BY <1>9 DEF ReadThrows
  <2> QED
    BY <2>1, <2>2, <2>3, <2>4
<1>10. ASSUME NEW t \in Taker, PopFront(t)
       PROVE  IInv'
  <2>1. Tail(queue) \in Seq(Item)
    BY <1>10, HeadTailProperties DEF PopFront
  <2>2. TypeOK'
    BY <1>10, <2>1 DEF PopFront
  <2>3. Roles' /\ MutexHeld'
    BY <1>10, <2>1 DEF PopFront
  <2>4. ReadIsFront'
    BY <1>10, <2>1 DEF PopFront
  <2>5. SentBound'
    BY <1>10, <2>1 DEF PopFront
  <2> QED
    BY <2>2, <2>3, <2>4, <2>5
<1>11. ASSUME NEW t \in Poller, ReturnNothing(t)
       PROVE  IInv'
  <2>1. TypeOK'
    BY <1>11 DEF ReturnNothing
  <2>2. Roles' /\ MutexHeld'
    BY <1>11 DEF ReturnNothing
  <2>3. ReadIsFront'
    BY <1>11 DEF ReturnNothing
  <2>4. SentBound'
    BY <1>11 DEF ReturnNothing
  <2> QED
    BY <2>1, <2>2, <2>3, <2>4
<1>12. CASE UNCHANGED vars
  BY <1>12 DEF vars
<1> QED
  BY <1>1, <1>2, <1>3, <1>4, <1>5, <1>6, <1>7, <1>8, <1>9, <1>10, <1>11, <1>12
  DEF Next, push, wait_and_pop, try_pop

(* Types, the exclusion of threads in their critical sections, and the     *)
(* item a pop holds on to while it may still throw.                        *)
THEOREM TypeCorrect == Spec => []TypeOK
<1>1. IInv => TypeOK
  BY DEF IInv
<1> QED
  BY <1>1, InitIInv, NextIInv, PTL DEF Spec

LEMMA Inductive == Spec => []IInv
BY InitIInv, NextIInv, PTL DEF Spec

-----------------------------------------------------------------------------

(* push takes effect in PushBack, a pop in PopFront or ReturnNothing;      *)
(* every other step, the throwing ones too, is invisible to the callers.   *)
THEOREM ImplementsQueue == Spec => IsAQueue
<1>1. Init => Abstract!Init
  BY DEF Init, Abstract!Init, Taker
<1>2. IInv /\ [Next]_vars => [Abstract!Next]_<<queue, sent, result>>
  <2> SUFFICES ASSUME IInv, [Next]_vars
               PROVE  Abstract!Next \/ UNCHANGED <<queue, sent, result>>
    OBVIOUS
  <2> USE ConstantsAssumption DEF Goto
  <2>1. ASSUME NEW p \in Producer, PushBack(p)
        PROVE  Abstract!Push(p)
    <3>1. sent[p] < MaxCalls
      BY <2>1 DEF IInv, TypeOK, SentBound, PushBack, Thread
    <3> QED
      BY <2>1, <3>1 DEF PushBack, Abstract!Push
  <2>2. ASSUME NEW t \in Taker, PopFront(t)
        PROVE  Abstract!Pop(t)
    BY <2>2 DEF IInv, ReadIsFront, PopFront, Abstract!Pop
  <2>3. ASSUME NEW t \in Poller, ReturnNothing(t)
        PROVE  Abstract!PopNothing(t)
    BY <2>3 DEF ReturnNothing, Abstract!PopNothing
  <2>4. \/ \E p \in Producer : PushBack(p)
        \/ \E t \in Taker : PopFront(t)
        \/ \E t \in Poller : ReturnNothing(t)
        \/ UNCHANGED <<queue, sent, result>>
    BY DEF Next, push, wait_and_pop, try_pop, vars, Taker, Call, Lock, PushThrows,
           Notify, Sleep, SpuriousWakeup, Read, ReadThrows
  <2> QED
    BY <2>1, <2>2, <2>3, <2>4 DEF Abstract!Next, Taker
<1> QED
  BY <1>1, <1>2, Inductive, PTL DEF Spec, IsAQueue, Abstract!Spec

-----------------------------------------------------------------------------

LEMMA OnTheWayFinite == IsFiniteSet(OnTheWay)
<1>1. OnTheWay \in SUBSET Thread
  BY DEF OnTheWay, Thread
<1> QED
  BY <1>1, ConstantsAssumption, FS_Subset

(* How the threads on the way may change without breaking the bound. *)
Compensated ==
  \/ /\ Len(queue') <= Len(queue) /\ thrown' >= thrown
     /\ OnTheWay \subseteq OnTheWay' /\ IsFiniteSet(OnTheWay')
  \/ /\ Len(queue') <= Len(queue) + 1 /\ thrown' >= thrown
     /\ \E x : x \notin OnTheWay /\ OnTheWay' = OnTheWay \cup {x}
  \/ /\ Len(queue') - thrown' <= Len(queue) - thrown - 1
     /\ \E x : x \in OnTheWay /\ OnTheWay' = OnTheWay \ {x}
  \/ /\ Len(queue') <= Len(queue) /\ thrown' >= thrown
     /\ \E x, y : x \in OnTheWay /\ y \notin OnTheWay /\ OnTheWay' = (OnTheWay \ {x}) \cup {y}

LEMMA CompensatedKeeps ==
  ASSUME TypeOK, TypeOK', Compensated,
         Len(queue) <= Cardinality(OnTheWay) + thrown
  PROVE  Len(queue') <= Cardinality(OnTheWay') + thrown'
<1> USE DEF TypeOK
<1>1. Cardinality(OnTheWay) \in Nat
  BY OnTheWayFinite, FS_CardinalityType
<1>2. CASE /\ Len(queue') <= Len(queue) /\ thrown' >= thrown
           /\ OnTheWay \subseteq OnTheWay' /\ IsFiniteSet(OnTheWay')
  <2>1. Cardinality(OnTheWay') \in Nat /\ Cardinality(OnTheWay) <= Cardinality(OnTheWay')
    BY <1>2, FS_Subset, FS_CardinalityType
  <2> QED
    BY <1>1, <1>2, <2>1
<1>3. CASE /\ Len(queue') <= Len(queue) + 1 /\ thrown' >= thrown
           /\ \E x : x \notin OnTheWay /\ OnTheWay' = OnTheWay \cup {x}
  <2>1. Cardinality(OnTheWay') = Cardinality(OnTheWay) + 1
    BY <1>3, OnTheWayFinite, FS_AddElement
  <2> QED
    BY <1>1, <1>3, <2>1
<1>4. CASE /\ Len(queue') - thrown' <= Len(queue) - thrown - 1
           /\ \E x : x \in OnTheWay /\ OnTheWay' = OnTheWay \ {x}
  <2>1. Cardinality(OnTheWay') = Cardinality(OnTheWay) - 1
    BY <1>4, OnTheWayFinite, FS_RemoveElement
  <2> QED
    BY <1>1, <1>4, <2>1
<1>5. CASE /\ Len(queue') <= Len(queue) /\ thrown' >= thrown
           /\ \E x, y : /\ x \in OnTheWay /\ y \notin OnTheWay
                        /\ OnTheWay' = (OnTheWay \ {x}) \cup {y}
  <2>1. PICK x, y : /\ x \in OnTheWay /\ y \notin OnTheWay
                    /\ OnTheWay' = (OnTheWay \ {x}) \cup {y}
    BY <1>5
  <2>2. /\ IsFiniteSet(OnTheWay \ {x})
        /\ Cardinality(OnTheWay \ {x}) = Cardinality(OnTheWay) - 1
    BY <2>1, OnTheWayFinite, FS_RemoveElement
  <2>3. Cardinality(OnTheWay') = Cardinality(OnTheWay \ {x}) + 1
    BY <2>1, <2>2, FS_AddElement
  <2> QED
    BY <1>1, <1>5, <2>2, <2>3
<1> QED
  BY <1>2, <1>3, <1>4, <1>5 DEF Compensated

(* Every step but Sleep keeps the sleepers within those of before and pays *)
(* for what it does to the threads on the way.                             *)
LEMMA StepCompensated ==
  ASSUME IInv, IInv', [Next]_vars, Sleeping' # {},
         ~ \E c \in Consumer : Sleep(c)
  PROVE  Sleeping # {} /\ Compensated
<1> USE Threads DEF IInv, TypeOK, Roles, Goto, Sleeping
<1>1. IsFiniteSet(OnTheWay)
  BY OnTheWayFinite
<1>2. OnTheWay' = {c \in Consumer : pc'[c] \in {"woken", "locked", "read"}}
                    \cup {p \in Producer : pc'[p] = "pushed"}
  BY DEF OnTheWay
<1>3. ASSUME NEW t \in Thread, Call(t)
      PROVE  Sleeping # {} /\ Compensated
  <2>1. OnTheWay' = OnTheWay
    BY <1>2, <1>3 DEF Call, OnTheWay
  <2> QED
    BY <1>1, <1>3, <2>1 DEF Call, Compensated
<1>4. ASSUME NEW t \in Thread, Lock(t)
      PROVE  Sleeping # {} /\ Compensated
  <2>1. CASE t \in Consumer /\ pc[t] = "entering"
    <3>1. t \notin OnTheWay /\ OnTheWay' = OnTheWay \cup {t}
      BY <1>2, <1>4, <2>1 DEF Lock, OnTheWay
    <3>2. Sleeping # {}
      BY <1>4 DEF Lock
    <3>3. Len(queue') <= Len(queue) + 1 /\ thrown' >= thrown
      BY <1>4 DEF Lock
    <3> QED
      BY <3>1, <3>2, <3>3 DEF Compensated
  <2>2. CASE ~(t \in Consumer /\ pc[t] = "entering")
    <3>1. OnTheWay' = OnTheWay
      BY <1>2, <1>4, <2>2 DEF Lock, OnTheWay
    <3> QED
      BY <1>1, <1>4, <3>1 DEF Lock, Compensated
  <2> QED
    BY <2>1, <2>2
<1>5. ASSUME NEW p \in Producer, PushBack(p)
      PROVE  Sleeping # {} /\ Compensated
  <2>1. p \notin OnTheWay /\ OnTheWay' = OnTheWay \cup {p}
    BY <1>2, <1>5 DEF PushBack, OnTheWay
  <2>2. Len(queue') = Len(queue) + 1
    BY <1>5 DEF PushBack
  <2> QED
    BY <1>5, <2>1, <2>2 DEF PushBack, Compensated
<1>6. ASSUME NEW p \in Producer, PushThrows(p)
      PROVE  Sleeping # {} /\ Compensated
  <2>1. OnTheWay' = OnTheWay
    BY <1>2, <1>6 DEF PushThrows, OnTheWay
  <2> QED
    BY <1>1, <1>6, <2>1 DEF PushThrows, Compensated
<1>7. ASSUME NEW p \in Producer, Notify(p)
      PROVE  Sleeping # {} /\ Compensated
  <2>1. Sleeping # {}
    BY <1>7 DEF Notify
  <2>2. PICK c \in Consumer : pc[c] = "sleeping" /\ pc' = [pc EXCEPT ![p] = "idle", ![c] = "woken"]
    BY <1>7, <2>1 DEF Notify
  <2>3. p \in OnTheWay /\ c \notin OnTheWay
    BY <1>7, <2>2 DEF Notify, OnTheWay
  <2>4. OnTheWay' = (OnTheWay \ {p}) \cup {c}
    BY <1>2, <1>7, <2>2 DEF Notify, OnTheWay
  <2> QED
    BY <1>7, <2>1, <2>3, <2>4 DEF Notify, Compensated
<1>8. ASSUME NEW c \in Consumer, SpuriousWakeup(c)
      PROVE  Sleeping # {} /\ Compensated
  <2>1. c \notin OnTheWay /\ OnTheWay' = OnTheWay \cup {c}
    BY <1>2, <1>8 DEF SpuriousWakeup, OnTheWay
  <2> QED
    BY <1>8, <2>1 DEF SpuriousWakeup, Compensated
<1>9. ASSUME NEW t \in Taker, Read(t)
      PROVE  Sleeping # {} /\ Compensated
  <2>1. OnTheWay' = OnTheWay
    BY <1>2, <1>9 DEF Read, OnTheWay
  <2> QED
    BY <1>1, <1>9, <2>1 DEF Read, Compensated
<1>10. ASSUME NEW t \in Taker, ReadThrows(t)
       PROVE  Sleeping # {} /\ Compensated
  <2>1. OnTheWay' = OnTheWay \/ (t \in OnTheWay /\ OnTheWay' = OnTheWay \ {t})
    BY <1>2, <1>10 DEF ReadThrows, OnTheWay
  <2>2. Len(queue) \in Nat
    OBVIOUS
  <2>3. Sleeping # {}
    BY <1>10 DEF ReadThrows
  <2>4. thrown \in Nat
    OBVIOUS
  <2>5. CASE OnTheWay' = OnTheWay
    BY <1>1, <1>10, <2>2, <2>3, <2>4, <2>5 DEF ReadThrows, Compensated
  <2>6. CASE t \in OnTheWay /\ OnTheWay' = OnTheWay \ {t}
    <3>1. Len(queue') - thrown' <= Len(queue) - thrown - 1
      BY <1>10, <2>2, <2>4 DEF ReadThrows
    <3> QED
      BY <2>3, <2>6, <3>1 DEF Compensated
  <2> QED
    BY <2>1, <2>5, <2>6
<1>11. ASSUME NEW t \in Taker, PopFront(t)
       PROVE  Sleeping # {} /\ Compensated
  <2>1. OnTheWay' = OnTheWay \/ (t \in OnTheWay /\ OnTheWay' = OnTheWay \ {t})
    BY <1>2, <1>11 DEF PopFront, OnTheWay
  <2>2. Len(queue) \in Nat /\ Len(queue') = Len(queue) - 1
    BY <1>11, HeadTailProperties DEF PopFront, ReadIsFront
  <2>3. Sleeping # {}
    BY <1>11 DEF PopFront
  <2>4. thrown \in Nat
    OBVIOUS
  <2>5. CASE OnTheWay' = OnTheWay
    BY <1>1, <1>11, <2>2, <2>3, <2>4, <2>5 DEF PopFront, Compensated
  <2>6. CASE t \in OnTheWay /\ OnTheWay' = OnTheWay \ {t}
    <3>1. Len(queue') - thrown' <= Len(queue) - thrown - 1
      BY <1>11, <2>2, <2>4 DEF PopFront
    <3> QED
      BY <2>3, <2>6, <3>1 DEF Compensated
  <2> QED
    BY <2>1, <2>5, <2>6
<1>12. ASSUME NEW t \in Poller, ReturnNothing(t)
       PROVE  Sleeping # {} /\ Compensated
  <2>1. OnTheWay' = OnTheWay
    BY <1>2, <1>12 DEF ReturnNothing, OnTheWay
  <2> QED
    BY <1>1, <1>12, <2>1 DEF ReturnNothing, Compensated
<1>13. CASE UNCHANGED vars
  <2>1. OnTheWay' = OnTheWay
    BY <1>2, <1>13 DEF vars, OnTheWay
  <2> QED
    BY <1>1, <1>13, <2>1 DEF vars, Compensated
<1> QED
  BY <1>3, <1>4, <1>5, <1>6, <1>7, <1>8, <1>9, <1>10, <1>11, <1>12, <1>13
  DEF Next, push, wait_and_pop, try_pop

(* While a consumer sleeps, every item in the queue has a thread of its    *)
(* own on the way to it, but for one item per exception thrown in a pop.   *)
THEOREM NoLostWakeup == Spec => []WakeupPerItem
<1>1. Init => WakeupPerItem
  BY Threads DEF Init, WakeupPerItem, Sleeping
<1>2. IInv /\ IInv' /\ WakeupPerItem /\ [Next]_vars => WakeupPerItem'
  <2> SUFFICES ASSUME IInv, IInv', WakeupPerItem, [Next]_vars, Sleeping' # {}
               PROVE  Len(queue') <= Cardinality(OnTheWay') + thrown'
    BY DEF WakeupPerItem
  <2>1. CASE \E c \in Consumer : Sleep(c)
    <3>1. Len(queue') = 0
      BY <2>1 DEF Sleep
    <3>2. OnTheWay' \in SUBSET Thread
      BY Threads DEF OnTheWay
    <3>3. Cardinality(OnTheWay') \in Nat
      BY <3>2, ConstantsAssumption, FS_Subset, FS_CardinalityType
    <3> QED
      BY <3>1, <3>3 DEF IInv, TypeOK
  <2>2. CASE ~ \E c \in Consumer : Sleep(c)
    BY <2>2, StepCompensated, CompensatedKeeps DEF IInv, WakeupPerItem
  <2> QED
    BY <2>1, <2>2
<1> QED
  BY <1>1, <1>2, Inductive, PTL DEF Spec

=============================================================================
