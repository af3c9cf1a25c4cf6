----------------------- MODULE HierarchicalMutexProofs -----------------------
(***************************************************************************)
(* Proofs about HierarchicalMutex for every set of threads and mutexes and *)
(* every assignment of levels: the type invariant, the meaning of the      *)
(* thread-local value, descending acquisition and freedom from deadlock.   *)
(***************************************************************************)
EXTENDS HierarchicalMutex, TLAPS, WellFoundedInduction

(* Every step of the class and its client keeps the variables well typed:  *)
(* no owner, saved value or thread-local value ever leaves its range.      *)
THEOREM TypeCorrect == Spec => []TypeOK
<1>1. Init => TypeOK
  BY ConstantsAssumption DEF Init, TypeOK
<1>2. TypeOK /\ [Next]_vars => TypeOK'
  <2> SUFFICES ASSUME TypeOK, [Next]_vars
               PROVE  TypeOK'
    OBVIOUS
  <2> USE ConstantsAssumption DEF TypeOK, Goto
  <2>1. ASSUME NEW t \in Thread, Locking(t)
        PROVE  TypeOK'
    <3>1. CASE \E m \in Mutex : Reject(t, m)
      BY <3>1 DEF Reject
    <3>2. CASE \E m \in Mutex : LockCheck(t, m)
      BY <3>2 DEF LockCheck
    <3>3. CASE \E m \in Mutex : TryLock(t, m)
      BY <3>3 DEF TryLock, vars
    <3>4. CASE Resume(t)
      BY <3>4 DEF Resume
    <3>5. CASE LockInternal(t)
      BY <3>5 DEF LockInternal
    <3>6. CASE Update(t)
      BY <3>6 DEF Update
    <3> QED
      BY <2>1, <3>1, <3>2, <3>3, <3>4, <3>5, <3>6 DEF Locking
  <2>2. ASSUME NEW t \in Thread, NEW m \in Mutex, UnlockRestore(t, m)
        PROVE  TypeOK'
    BY <2>2 DEF UnlockRestore
  <2>3. ASSUME NEW t \in Thread, UnlockInternal(t)
        PROVE  TypeOK'
    BY <2>3 DEF UnlockInternal
  <2>4. CASE UNCHANGED vars
    BY <2>4 DEF vars
  <2> QED
    BY <2>1, <2>2, <2>3, <2>4 DEF Next
<1> QED
  BY <1>1, <1>2, PTL DEF Spec

-----------------------------------------------------------------------------

(* What an action may do to thread u without disturbing the invariant: its *)
(* settled mutexes, their saved values and its level stay as they were.    *)
Undisturbed(u) ==
  /\ Settled(u)' = Settled(u)
  /\ \A m \in Settled(u) : previous'[m] = previous[m]
  /\ threadLevel'[u] = threadLevel[u]

(* The parts of the invariant that speak of a single thread. *)
ChainOf(t) ==
  /\ \A m \in Settled(t) : threadLevel[t] <= Level[m]
  /\ threadLevel[t] = MaxLevel \/ \E m \in Settled(t) : Level[m] = threadLevel[t]
  /\ \A m \in Settled(t) :
       /\ Level[m] < previous[m]
       /\ \A n \in Settled(t) :
            /\ n # m => Level[n] # Level[m]
            /\ Level[m] < Level[n] => previous[m] <= Level[n]
       /\ previous[m] = MaxLevel \/ \E n \in Settled(t) : Level[n] = previous[m]

LEMMA ChainOfUndisturbed ==
  ASSUME NEW t, ChainOf(t), Undisturbed(t)
  PROVE  ChainOf(t)'
BY DEF ChainOf, Undisturbed

LEMMA IInvByThread ==
  IInv <=> TypeOK /\ InsideClass /\ \A t \in Thread : ChainOf(t)
BY DEF IInv, LevelIsLowestHeld, SavedLevelsChain, ChainOf

(* A thread other than the one that moves is never disturbed: the mutexes  *)
(* it holds are not acquired, released or updated by anybody else.         *)
LEMMA OthersUndisturbed ==
  ASSUME TypeOK, InsideClass, NEW t \in Thread, NEW u \in Thread \ {t},
         \/ Locking(t)
         \/ \E m \in Mutex : UnlockRestore(t, m)
         \/ UnlockInternal(t)
  PROVE  Undisturbed(u)
<1> USE ConstantsAssumption DEF TypeOK, InsideClass, Undisturbed, Settled, Goto
<1>1. CASE \E m \in Mutex : Reject(t, m)
  BY <1>1 DEF Reject
<1>2. CASE \E m \in Mutex : LockCheck(t, m)
  BY <1>2 DEF LockCheck
<1>3. CASE \E m \in Mutex : TryLock(t, m)
  BY <1>3 DEF TryLock, vars
<1>4. CASE Resume(t)
  BY <1>4 DEF Resume
<1>5. CASE LockInternal(t)
  BY <1>5 DEF LockInternal
<1>6. CASE Update(t)
  BY <1>6 DEF Update
<1>7. CASE \E m \in Mutex : UnlockRestore(t, m)
  BY <1>7 DEF UnlockRestore
<1>8. CASE UnlockInternal(t)
  BY <1>8 DEF UnlockInternal
<1> QED
  BY <1>1, <1>2, <1>3, <1>4, <1>5, <1>6, <1>7, <1>8 DEF Locking

(* lock() pushes a level below all the others its thread holds. *)
LEMMA UpdateChain ==
  ASSUME TypeOK, InsideClass, NEW t \in Thread, ChainOf(t), Update(t)
  PROVE  ChainOf(t)'
<1> USE ConstantsAssumption DEF TypeOK, Goto
<1> DEFINE m == target[t]
<1>1. /\ m \in Mutex
      /\ m \notin Settled(t)
      /\ Level[m] < threadLevel[t]
  BY DEF InsideClass, Settled, Update
<1>2. Settled(t)' = Settled(t) \cup {m}
  BY DEF InsideClass, Settled, Update
<1>3. /\ threadLevel'[t] = Level[m]
      /\ previous'[m] = threadLevel[t]
      /\ \A n \in Settled(t) : previous'[n] = previous[n]
  BY <1>1 DEF Update, Settled
<1>4. Settled(t) \subseteq Mutex
  BY DEF Settled
<1> HIDE DEF m
<1> QED
  BY <1>1, <1>2, <1>3, <1>4 DEF ChainOf

(* unlock() of the lowest level pops it and brings the next one back. *)
LEMMA UnlockRestoreChain ==
  ASSUME TypeOK, InsideClass, NEW t \in Thread, ChainOf(t),
         NEW m \in Mutex, IsLowestHeld(t, m), UnlockRestore(t, m)
  PROVE  ChainOf(t)'
<1> USE ConstantsAssumption DEF TypeOK, Goto
<1>1. Settled(t)' = Settled(t) \ {m}
  BY DEF Settled, UnlockRestore
<1>2. /\ m \in Settled(t)
      /\ \A n \in Settled(t) : Level[m] <= Level[n]
  BY DEF Settled, UnlockRestore, IsLowestHeld, Held
<1>3. threadLevel'[t] = previous[m] /\ previous' = previous
  BY DEF UnlockRestore
<1>4. Settled(t) \subseteq Mutex
  BY DEF Settled
<1> QED
  BY <1>1, <1>2, <1>3, <1>4 DEF ChainOf

(* Every other step leaves the chain of its thread as it was. *)
LEMMA OtherStepsChain ==
  ASSUME TypeOK, InsideClass, NEW t \in Thread, ChainOf(t),
         \/ Locking(t) /\ ~Update(t)
         \/ UnlockInternal(t)
  PROVE  ChainOf(t)'
<1> USE ConstantsAssumption DEF TypeOK, InsideClass, Undisturbed, Settled, Goto
<1>1. CASE \E m \in Mutex : Reject(t, m)
  <2>1. Undisturbed(t)
    BY <1>1 DEF Reject
  <2> QED
    BY <2>1, ChainOfUndisturbed
<1>2. CASE \E m \in Mutex : LockCheck(t, m)
  <2>1. Undisturbed(t)
    BY <1>2 DEF LockCheck
  <2> QED
    BY <2>1, ChainOfUndisturbed
<1>3. CASE \E m \in Mutex : TryLock(t, m)
  <2>1. Undisturbed(t)
    BY <1>3 DEF TryLock, vars
  <2> QED
    BY <2>1, ChainOfUndisturbed
<1>4. CASE Resume(t)
  <2>1. Undisturbed(t)
    BY <1>4 DEF Resume
  <2> QED
    BY <2>1, ChainOfUndisturbed
<1>5. CASE LockInternal(t)
  <2>1. Undisturbed(t)
    BY <1>5 DEF LockInternal
  <2> QED
    BY <2>1, ChainOfUndisturbed
<1>6. CASE UnlockInternal(t)
  <2>1. Undisturbed(t)
    BY <1>6 DEF UnlockInternal
  <2> QED
    BY <2>1, ChainOfUndisturbed
<1> QED
  BY <1>1, <1>2, <1>3, <1>4, <1>5, <1>6 DEF Locking

(* No step leaves a thread inside the class without what its next          *)
(* statement relies on.                                                    *)
LEMMA InsideClassStep ==
  ASSUME TypeOK, InsideClass, NEW t \in Thread,
         \/ Locking(t)
         \/ \E m \in Mutex : UnlockRestore(t, m)
         \/ UnlockInternal(t)
  PROVE  InsideClass'
<1> USE ConstantsAssumption DEF TypeOK, InsideClass, Goto
<1>1. CASE \E m \in Mutex : Reject(t, m)
  BY <1>1 DEF Reject
<1>2. CASE \E m \in Mutex : LockCheck(t, m)
  BY <1>2 DEF LockCheck, MayLock
<1>3. CASE \E m \in Mutex : TryLock(t, m)
  BY <1>3 DEF TryLock, MayLock, vars
<1>4. CASE Resume(t)
  BY <1>4 DEF Resume
<1>5. CASE LockInternal(t)
  BY <1>5 DEF LockInternal
<1>6. CASE Update(t)
  BY <1>6 DEF Update
<1>7. CASE \E m \in Mutex : UnlockRestore(t, m)
  BY <1>7 DEF UnlockRestore
<1>8. CASE UnlockInternal(t)
  BY <1>8 DEF UnlockInternal
<1> QED
  BY <1>1, <1>2, <1>3, <1>4, <1>5, <1>6, <1>7, <1>8 DEF Locking

-----------------------------------------------------------------------------

LEMMA Inductive == Spec => []IInv
<1>1. Init => IInv
  BY ConstantsAssumption
  DEF Init, IInv, TypeOK, LevelIsLowestHeld, SavedLevelsChain, InsideClass, Settled
<1>2. IInv /\ TypeOK' /\ [Next]_vars => IInv'
  <2> SUFFICES ASSUME IInv, TypeOK', [Next]_vars
               PROVE  IInv'
    OBVIOUS
  <2>1. TypeOK /\ InsideClass /\ \A t \in Thread : ChainOf(t)
    BY IInvByThread
  <2>2. ASSUME NEW t \in Thread,
               \/ Locking(t)
               \/ \E m \in Mutex : IsLowestHeld(t, m) /\ UnlockRestore(t, m)
               \/ UnlockInternal(t)
        PROVE  IInv'
    <3>1. InsideClass'
      BY <2>1, <2>2, InsideClassStep
    <3>2. ChainOf(t)'
      BY <2>1, <2>2, UpdateChain, UnlockRestoreChain, OtherStepsChain
    <3>3. ASSUME NEW u \in Thread \ {t}
          PROVE  ChainOf(u)'
      BY <2>1, <2>2, OthersUndisturbed, ChainOfUndisturbed
    <3> QED
      BY <3>1, <3>2, <3>3
      DEF IInv, LevelIsLowestHeld, SavedLevelsChain, ChainOf
  <2>3. CASE UNCHANGED vars
    BY <2>3
    DEF vars, IInv, TypeOK, LevelIsLowestHeld, SavedLevelsChain, InsideClass, Settled
  <2> QED
    BY <2>2, <2>3 DEF Next
<1> QED
  BY <1>1, <1>2, TypeCorrect, PTL DEF Spec

(* this_thread_hierarchical_value is always the lowest level its thread    *)
(* holds: what check_for_hierarchical_violation takes it for.              *)
THEOREM LevelCorrect == Spec => []LevelIsLowestHeld
<1>1. IInv => LevelIsLowestHeld
  BY DEF IInv
<1> QED
  BY <1>1, Inductive, PTL

(* The saved values are the thread's higher levels, each once, so unlock() *)
(* in the client's order brings them back one by one.                      *)
THEOREM SavedLevelsCorrect == Spec => []SavedLevelsChain
<1>1. IInv => SavedLevelsChain
  BY DEF IInv
<1> QED
  BY <1>1, Inductive, PTL

(* No step acquires a mutex that is not below all those its thread holds.  *)
THEOREM AcquisitionDescends == Spec => AcquiresDescend
<1> DEFINE Descends ==
      \A t \in Thread, m \in Mutex :
        owner[m] # t /\ owner'[m] = t => \A n \in Held(t) : Level[m] < Level[n]
<1>1. IInv /\ [Next]_vars => [Descends]_vars
  <2> SUFFICES ASSUME IInv, Next,
                      NEW t \in Thread, NEW m \in Mutex,
                      owner[m] # t, owner'[m] = t,
                      NEW n \in Held(t)
               PROVE  Level[m] < Level[n]
    OBVIOUS
  <2> USE ConstantsAssumption DEF IInv, TypeOK
  <2>1. (n \in Settled(t) /\ threadLevel[t] <= Level[n]) \/ pc[t] \in {"updating", "unlocking"}
    BY DEF Held, Settled, LevelIsLowestHeld
  <2>2. (LockInternal(t) /\ target[t] = m) \/ TryLock(t, m)
    BY DEF Next, Locking, Reject, LockCheck, TryLock, Resume, LockInternal,
           Update, UnlockRestore, UnlockInternal, vars
  <2>3. Level[m] < threadLevel[t] /\ pc[t] \in {"idle", "locking"}
    BY <2>2 DEF LockInternal, TryLock, MayLock, InsideClass, Goto
  <2>4. n \in Mutex
    BY DEF Held
  <2> QED
    BY <2>1, <2>3, <2>4
<1> QED
  BY <1>1, Inductive, PTL DEF Spec, AcquiresDescend

-----------------------------------------------------------------------------

(* A thread that waits inside lock() waits for a level below every one it  *)
(* holds, so along a chain of waiting threads the levels strictly descend. *)
LEMMA WaitsDescendInv == IInv => WaitsDescend
BY ConstantsAssumption
DEF IInv, TypeOK, InsideClass, LevelIsLowestHeld, WaitsDescend, Waiting, Settled

(* No group of threads waits for mutexes held inside the group: the member *)
(* that waits for the lowest level waits for a mutex whose owner would     *)
(* have to wait for a lower one still.                                     *)
THEOREM DeadlockFree == Spec => []NoDeadlock
<1>1. IInv => NoDeadlock
  <2> SUFFICES ASSUME IInv,
                      NEW S \in SUBSET Thread, S # {},
                      \A t \in S : Waiting(t) /\ owner[target[t]] \in S
               PROVE  FALSE
    BY DEF NoDeadlock
  <2> DEFINE Wanted == {Level[target[t]] : t \in S}
  <2>1. Wanted \subseteq Nat /\ Wanted # {}
    BY ConstantsAssumption DEF IInv, TypeOK
  <2>2. PICK low \in Wanted : \A l \in Wanted : ~(<<l, low>> \in OpToRel(<, Nat))
    <3> HIDE DEF Wanted
    <3> QED
      BY <2>1, NatLessThanWellFounded, WFMin
  <2>3. \A l \in Wanted : ~(l < low)
    BY <2>1, <2>2 DEF OpToRel
  <2>4. PICK t \in S : low = Level[target[t]]
    BY <2>2
  <2>5. Level[target[owner[target[t]]]] < low
    BY <2>4, WaitsDescendInv DEF WaitsDescend
  <2> QED
    BY <2>3, <2>5
<1> QED
  BY <1>1, Inductive, PTL

=============================================================================
