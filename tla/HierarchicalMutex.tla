-------------------------- MODULE HierarchicalMutex --------------------------
(***************************************************************************)
(* The class hierarchical_mutex of src/3.8.hierarchical_mutex: a mutex     *)
(* with a fixed level which a thread may lock only while the thread-local  *)
(* this_thread_hierarchical_value is above that level.  Each lock saves    *)
(* the thread's value in the mutex, each unlock restores it from there.    *)
(*                                                                         *)
(* The steps of lock(), try_lock() and unlock() are separate wherever      *)
(* another thread can run between them, so the order in which the class    *)
(* touches internal_mutex, previous_hierarchical_value and the             *)
(* thread-local value is part of the model.                                *)
(***************************************************************************)
EXTENDS Integers

CONSTANTS
  Thread,    \* the threads that use the mutexes
  Mutex,     \* the hierarchical_mutex objects
  Level,     \* hierarchical_value of each mutex
  MaxLevel,  \* ULONG_MAX, the value a thread starts with
  NoThread   \* owner of a free internal_mutex

ASSUME ConstantsAssumption ==
  /\ MaxLevel \in Nat
  /\ Level \in [Mutex -> 0 .. MaxLevel]
  /\ NoThread \notin Thread

VARIABLES
  owner,        \* holder of each internal_mutex
  previous,     \* previous_hierarchical_value of each mutex
  threadLevel,  \* this_thread_hierarchical_value of each thread
  pc,           \* where each thread is inside the class
  target        \* the mutex that thread is working on

vars == <<owner, previous, threadLevel, pc, target>>

Init ==
  /\ owner = [m \in Mutex |-> NoThread]
  /\ previous = [m \in Mutex |-> 0]
  /\ threadLevel = [t \in Thread |-> MaxLevel]
  /\ pc = [t \in Thread |-> "idle"]
  /\ target \in [Thread -> Mutex]

Goto(t, from, to) ==
  /\ pc[t] = from
  /\ pc' = [pc EXCEPT ![t] = to]

-----------------------------------------------------------------------------

(* Mutant of MayLock: check_for_hierarchical_violation throws on < only.   *)
MayLockSameLevel(t, m) == threadLevel[t] >= Level[m]

(* check_for_hierarchical_violation does not throw. *)
MayLock(t, m) == threadLevel[t] > Level[m]

(* The check fails: logic_error leaves lock() or try_lock() and the client *)
(* catches it.                                                             *)
Reject(t, m) ==
  /\ ~MayLock(t, m)
  /\ Goto(t, "idle", "caught")
  /\ UNCHANGED <<owner, previous, threadLevel, target>>

(* The client goes on after its catch block. *)
Resume(t) ==
  /\ Goto(t, "caught", "idle")
  /\ UNCHANGED <<owner, previous, threadLevel, target>>

(* lock(): the check passes and the thread goes to internal_mutex.lock(). *)
LockCheck(t, m) ==
  /\ MayLock(t, m)
  /\ Goto(t, "idle", "locking")
  /\ target' = [target EXCEPT ![t] = m]
  /\ UNCHANGED <<owner, previous, threadLevel>>

(* lock(): internal_mutex.lock() returns. *)
LockInternal(t) ==
  /\ owner[target[t]] = NoThread
  /\ Goto(t, "locking", "updating")
  /\ owner' = [owner EXCEPT ![target[t]] = t]
  /\ UNCHANGED <<previous, threadLevel, target>>

(* try_lock(): the check, then internal_mutex.try_lock(), which may also   *)
(* return false on a free mutex.                                           *)
TryLock(t, m) ==
  /\ MayLock(t, m)
  /\ pc[t] = "idle"
  /\ \/ /\ owner[m] = NoThread
        /\ Goto(t, "idle", "updating")
        /\ owner' = [owner EXCEPT ![m] = t]
        /\ target' = [target EXCEPT ![t] = m]
        /\ UNCHANGED <<previous, threadLevel>>
     \/ UNCHANGED vars

(* Mutant of Update: the two assignments in the wrong order. *)
UpdateSwapped(t) ==
  /\ Goto(t, "updating", "idle")
  /\ threadLevel' = [threadLevel EXCEPT ![t] = Level[target[t]]]
  /\ previous' = [previous EXCEPT ![target[t]] = threadLevel'[t]]
  /\ UNCHANGED <<owner, target>>

(* update_hierarchical_value, run with internal_mutex held. *)
Update(t) ==
  /\ Goto(t, "updating", "idle")
  /\ previous' = [previous EXCEPT ![target[t]] = threadLevel[t]]
  /\ threadLevel' = [threadLevel EXCEPT ![t] = Level[target[t]]]
  /\ UNCHANGED <<owner, target>>

(* Mutant of UnlockRestore: restores one level above the saved one. *)
UnlockRestoreAbove(t, m) ==
  /\ owner[m] = t
  /\ Goto(t, "idle", "unlocking")
  /\ target' = [target EXCEPT ![t] = m]
  /\ threadLevel' = [threadLevel EXCEPT ![t] = previous[m] + 1]
  /\ UNCHANGED <<owner, previous>>

(* unlock(): restore the thread's value while internal_mutex is still held.*)
(* std::mutex requires the caller to own the mutex.                        *)
UnlockRestore(t, m) ==
  /\ owner[m] = t
  /\ Goto(t, "idle", "unlocking")
  /\ target' = [target EXCEPT ![t] = m]
  /\ threadLevel' = [threadLevel EXCEPT ![t] = previous[m]]
  /\ UNCHANGED <<owner, previous>>

(* unlock(): internal_mutex.unlock(). *)
UnlockInternal(t) ==
  /\ Goto(t, "unlocking", "idle")
  /\ owner' = [owner EXCEPT ![target[t]] = NoThread]
  /\ UNCHANGED <<previous, threadLevel, target>>

-----------------------------------------------------------------------------

Held(t) == {m \in Mutex : owner[m] = t}

(* The client of main(), lines 60 to 67, unlocks the lowest of the levels  *)
(* it holds first.  The class does not ask for that: after an unlock in    *)
(* another order the thread-local value is no longer the lowest level      *)
(* held, and nothing here is true of such clients.                         *)
IsLowestHeld(t, m) == \A n \in Held(t) : Level[m] <= Level[n]

(* lock(), try_lock() and the catch block of the client. *)
Locking(t) ==
  \/ \E m \in Mutex : Reject(t, m) \/ LockCheck(t, m) \/ TryLock(t, m)
  \/ Resume(t)
  \/ LockInternal(t)
  \/ Update(t)

Next ==
  \E t \in Thread :
    \/ Locking(t)
    \/ \E m \in Mutex : IsLowestHeld(t, m) /\ UnlockRestore(t, m)
    \/ UnlockInternal(t)

Spec == Init /\ [][Next]_vars

-----------------------------------------------------------------------------

(* Every variable of the class has a value of its C++ type. *)
TypeOK ==
  /\ owner \in [Mutex -> Thread \cup {NoThread}]
  /\ previous \in [Mutex -> 0 .. MaxLevel]
  /\ threadLevel \in [Thread -> 0 .. MaxLevel]
  /\ pc \in [Thread -> {"idle", "caught", "locking", "updating", "unlocking"}]
  /\ target \in [Thread -> Mutex]

Waiting(t) == pc[t] = "locking"

(* No deadlock: no group of threads all wait inside internal_mutex.lock()  *)
(* for mutexes that the group itself holds.                                *)
NoDeadlock ==
  \A S \in SUBSET Thread :
    ~ /\ S # {}
      /\ \A t \in S : Waiting(t) /\ owner[target[t]] \in S

(* Along a chain of waiting threads the levels strictly descend, which is  *)
(* why a chain cannot close: if t waits for a mutex whose owner waits too, *)
(* the owner waits for a lower level.                                      *)
WaitsDescend ==
  \A t, u \in Thread :
    Waiting(t) /\ Waiting(u) /\ owner[target[t]] = u
      => Level[target[u]] < Level[target[t]]

(* The mutexes a thread holds with their lock() finished and their         *)
(* unlock() not begun.                                                     *)
Settled(t) ==
  {m \in Mutex : owner[m] = t /\ ~(pc[t] \in {"updating", "unlocking"} /\ m = target[t])}

(* Whatever was locked and unlocked before, this_thread_hierarchical_value *)
(* is the lowest level the thread holds, or ULONG_MAX when it holds none,  *)
(* so the check of the next lock() compares with the right mutex.          *)
LevelIsLowestHeld ==
  \A t \in Thread :
    /\ \A m \in Settled(t) : threadLevel[t] <= Level[m]
    /\ threadLevel[t] = MaxLevel \/ \E m \in Settled(t) : Level[m] = threadLevel[t]

(* The values saved in a thread's mutexes form the same chain as its       *)
(* levels: previous_hierarchical_value of a held mutex is the next higher  *)
(* level held, or ULONG_MAX for the highest, and no two are equal.         *)
SavedLevelsChain ==
  \A t \in Thread : \A m \in Settled(t) :
    /\ Level[m] < previous[m]
    /\ \A n \in Settled(t) :
         /\ n # m => Level[n] # Level[m]
         /\ Level[m] < Level[n] => previous[m] <= Level[n]
    /\ previous[m] = MaxLevel \/ \E n \in Settled(t) : Level[n] = previous[m]

(* What the steps of lock() and unlock() rely on from the steps before.    *)
InsideClass ==
  \A t \in Thread :
    /\ pc[t] \in {"locking", "updating"} => Level[target[t]] < threadLevel[t]
    /\ pc[t] \in {"updating", "unlocking"} => owner[target[t]] = t

(* The inductive invariant. *)
IInv == TypeOK /\ LevelIsLowestHeld /\ SavedLevelsChain /\ InsideClass

(* A mutex is acquired only below every mutex its thread already holds:    *)
(* what the block commented "Incorrect using" of main() relies on when it  *)
(* expects lock() of level 5 to throw while level 2 is held.               *)
AcquiresDescend ==
  [][\A t \in Thread, m \in Mutex :
       owner[m] # t /\ owner'[m] = t
         => \A n \in Held(t) : Level[m] < Level[n]]_vars

=============================================================================
