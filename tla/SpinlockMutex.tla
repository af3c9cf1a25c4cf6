--------------------------- MODULE SpinlockMutex ---------------------------
(***************************************************************************)
(* The spinlock_mutex of listings 5.1 and 7.1: an atomic_flag that lock()  *)
(* sets with acquire order and unlock() clears with release order.         *)
(*                                                                         *)
(* Every thread writes the data that the mutex protects once in each of    *)
(* its critical sections.  The data are a version number; seen is the      *)
(* newest version that the memory order makes visible to a thread, and     *)
(* carried the one that an acquire of the flag's present value yields.     *)
(* A test_and_set that fails leaves the flag as it was, and continues the  *)
(* release sequence of the clear before it.                                *)
(***************************************************************************)
EXTENDS Integers

CONSTANTS
  Locker,    \* the threads that lock the mutex
  MaxCalls   \* bound on the critical sections of one thread

ConstantsAssumption == MaxCalls \in Nat

VARIABLES
  flag,      \* the atomic_flag
  carried,   \* version of the data released with the flag
  version,   \* version of the data
  seen,      \* version of the data that each thread sees
  calls,     \* critical sections of each thread
  pc

vars == <<flag, carried, version, seen, calls, pc>>

Init ==
  /\ flag = FALSE
  /\ carried = 0
  /\ version = 0
  /\ seen = [t \in Locker |-> 0]
  /\ calls = [t \in Locker |-> 0]
  /\ pc = [t \in Locker |-> "idle"]

Newer(v, w) == IF v > w THEN v ELSE w

Goto(t, from, to) ==
  /\ pc[t] = from
  /\ pc' = [pc EXCEPT ![t] = to]

Call(t) ==
  /\ calls[t] < MaxCalls
  /\ Goto(t, "idle", "locking")
  /\ calls' = [calls EXCEPT ![t] = @ + 1]
  /\ UNCHANGED <<flag, carried, version, seen>>

(* Mutant of TestAndSet: memory_order_relaxed. *)
TestAndSetRelaxed(t) ==
  /\ Goto(t, "locking", "entered")
  /\ ~flag
  /\ flag' = TRUE
  /\ UNCHANGED <<carried, version, seen, calls>>

(* test_and_set(memory_order_acquire) finds the flag clear. *)
TestAndSet(t) ==
  /\ Goto(t, "locking", "entered")
  /\ ~flag
  /\ flag' = TRUE
  /\ seen' = [seen EXCEPT ![t] = Newer(@, carried)]
  /\ UNCHANGED <<carried, version, calls>>

(* It finds the flag set, and has acquired what the flag carries. *)
Spin(t) ==
  /\ pc[t] = "locking"
  /\ flag
  /\ seen' = [seen EXCEPT ![t] = Newer(@, carried)]
  /\ UNCHANGED <<flag, carried, version, calls, pc>>

(* The critical section. *)
Write(t) ==
  /\ Goto(t, "entered", "clearing")
  /\ version' = version + 1
  /\ seen' = [seen EXCEPT ![t] = version + 1]
  /\ UNCHANGED <<flag, carried, calls>>

(* clear(memory_order_release) *)
unlock(t) ==
  /\ Goto(t, "clearing", "idle")
  /\ flag' = FALSE
  /\ carried' = seen[t]
  /\ UNCHANGED <<version, seen, calls>>

lock(t) == TestAndSet(t) \/ Spin(t)

Next == \E t \in Locker : Call(t) \/ lock(t) \/ Write(t) \/ unlock(t)

Spec == Init /\ [][Next]_vars

-----------------------------------------------------------------------------

Holds(t) == pc[t] \in {"entered", "clearing"}

(* Every variable has a value of its type; the flag is set exactly while a *)
(* thread holds the mutex.                                                 *)
TypeOK ==
  /\ flag \in BOOLEAN
  /\ carried \in Nat /\ version \in Nat
  /\ seen \in [Locker -> Nat]
  /\ calls \in [Locker -> 0 .. MaxCalls]
  /\ pc \in [Locker -> {"idle", "locking", "entered", "clearing"}]
  /\ flag <=> \E t \in Locker : Holds(t)

(* One thread at a time is between lock() and unlock(). *)
MutualExclusion == \A t, u \in Locker : Holds(t) /\ Holds(u) => t = u

(* A critical section sees what every earlier one has written: acquire and *)
(* release order accesses of data that lock() itself never touches, so     *)
(* these do not race.                                                      *)
SectionsOrdered == \A t \in Locker : Holds(t) => seen[t] = version

=============================================================================
