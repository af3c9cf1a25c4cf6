---------------------------- MODULE ListingsProofs ----------------------------
(***************************************************************************)
(* The safety properties of Listings, for every value of the constants.    *)
(*                                                                         *)
(* Each part has an inductive invariant: SpinlockInv, SortInv, SumInv,     *)
(* Atomic!Outline and Outline.  The last two say what holds at each place  *)
(* of each program: that the code of a program fits its outline is proved  *)
(* once for every program, and that a step keeps the outline once for      *)
(* every instruction, whatever program it is in.                           *)
(***************************************************************************)
EXTENDS Listings, TLAPS, FiniteSetTheorems

-----------------------------------------------------------------------------
(* The spinlock, for every set of threads. *)

(* While nobody holds the mutex, the flag carries the newest version. *)
SpinlockInv ==
  /\ Spinlock!TypeOK
  /\ Spinlock!MutualExclusion
  /\ Spinlock!SectionsOrdered
  /\ ~spinFlag => carried = version
  /\ \A t \in Locker : seen[t] <= version
  /\ carried <= version

LEMMA SpinlockStarts == Spinlock!Init => SpinlockInv
<1> SUFFICES ASSUME Spinlock!Init
             PROVE  SpinlockInv
  OBVIOUS
<1>1. \A t \in Locker : ~Spinlock!Holds(t)
  BY Zenon DEF Spinlock!Init, Spinlock!Holds
<1>2. Spinlock!TypeOK
  <2>1. spinFlag <=> \E t \in Locker : Spinlock!Holds(t)
    BY <1>1, Zenon DEF Spinlock!Init, Spinlock!Holds
  <2>2. /\ carried \in Nat /\ version \in Nat
        /\ seen \in [Locker -> Nat]
        /\ calls \in [Locker -> 0 .. MaxCalls]
        /\ spinPc \in [Locker -> {"idle", "locking", "entered", "clearing"}]
    BY ListingsAssumption DEF Spinlock!ConstantsAssumption, Spinlock!Init
  <2>3. spinFlag \in BOOLEAN
    BY Zenon DEF Spinlock!Init
  <2> QED
    BY <2>1, <2>2, <2>3, Zenon DEF Spinlock!TypeOK
<1> QED
  BY <1>1, <1>2
  DEF Spinlock!Init, SpinlockInv, Spinlock!MutualExclusion, Spinlock!SectionsOrdered

LEMMA SpinlockGoesOn ==
  ASSUME SpinlockInv, Spinlock!Next \/ UNCHANGED spinlock
  PROVE  SpinlockInv'
<1> USE ListingsAssumption
        DEF SpinlockInv, Spinlock!TypeOK, Spinlock!MutualExclusion, Spinlock!SectionsOrdered,
            Spinlock!Holds, Spinlock!Goto, Spinlock!Newer, Spinlock!ConstantsAssumption
<1>1. ASSUME NEW t \in Locker, Spinlock!Call(t)
      PROVE  SpinlockInv'
  BY <1>1 DEF Spinlock!Call
<1>2. ASSUME NEW t \in Locker, Spinlock!TestAndSet(t)
      PROVE  SpinlockInv'
  BY <1>2 DEF Spinlock!TestAndSet
<1>3. ASSUME NEW t \in Locker, Spinlock!Spin(t)
      PROVE  SpinlockInv'
  BY <1>3 DEF Spinlock!Spin
<1>4. ASSUME NEW t \in Locker, Spinlock!Write(t)
      PROVE  SpinlockInv'
  BY <1>4 DEF Spinlock!Write
<1>5. ASSUME NEW t \in Locker, Spinlock!unlock(t)
      PROVE  SpinlockInv'
  BY <1>5 DEF Spinlock!unlock
<1>6. CASE UNCHANGED spinlock
  BY <1>6 DEF spinlock
<1> QED
  BY <1>1, <1>2, <1>3, <1>4, <1>5, <1>6 DEF Spinlock!Next, Spinlock!lock

-----------------------------------------------------------------------------
(* The programs of chapters 1 to 4. *)

(* The code of t is the one given. *)
Reads(p, t, code) ==
  Len(Code[p][t]) = Len(code) /\ \A i \in 1 .. Len(code) : Code[p][t][i] = code[i]

USE DEF ThreadFits, Do, DoOr, Start, Join, Begin, End, Read, Write, Lock, Unlock, StdLock, Get,
  SetValue, Push, None, Reads, Places, CodeOf, Sound, SoundPlaces, SoundTypes, SoundLocks,
  SoundPops, SoundOnce, SoundLoans, SoundStart, SoundAccesses, Apart, ObjectOf, Changes, Looks,
  GoesTo, Branches, Thread, Waits, Mutex, Locals, Initialises, CallsOnce, DepthAt, HoldsAt,
  TwiceAt, Recursive, ScopeOf, BorrowsAt, LentAt

LEMMA HelloParallelWorldFits == ProgramFits("hello_parallel_world")
<1>1. Code["hello_parallel_world"] = HelloParallelWorld /\ Repeats \in Nat \ {0}
  BY ListingsAssumption DEF Code, ConstantsAssumption
<1>2. Reads("hello_parallel_world", "main", <<Start("a"), Join("a")>>)
  BY <1>1 DEF HelloParallelWorld, One
<1>3. \A t \in {"a", "b", "c", "d", "e"} : Len(Code["hello_parallel_world"][t]) = 0
  BY <1>1 DEF HelloParallelWorld, One
<1>4. ThreadFits("hello_parallel_world", "main")
  BY <1>1, <1>2
<1>5. \A t \in {"a", "b", "c", "d", "e"} : ThreadFits("hello_parallel_world", t)
  BY <1>1, <1>3
<1> HIDE DEF ThreadFits
<1> QED
  BY <1>4, <1>5 DEF ProgramFits

LEMMA ReturnProtectedDataFits == ProgramFits("return_protected_data")
<1>1. Code["return_protected_data"] = ReturnProtectedData /\ Repeats \in Nat \ {0}
  BY ListingsAssumption DEF Code, ConstantsAssumption
<1>2. Reads("return_protected_data", "main", <<Lock("m"), Unlock("m"), Read("data")>>)
  BY <1>1 DEF ReturnProtectedData, One
<1>3. \A t \in {"a", "b", "c", "d", "e"} : Len(Code["return_protected_data"][t]) = 0
  BY <1>1 DEF ReturnProtectedData, One
<1>4. ThreadFits("return_protected_data", "main")
  BY <1>1, <1>2
<1>5. \A t \in {"a", "b", "c", "d", "e"} : ThreadFits("return_protected_data", t)
  BY <1>1, <1>3
<1> HIDE DEF ThreadFits
<1> QED
  BY <1>4, <1>5 DEF ProgramFits

LEMMA AsyncArgumentsFits == ProgramFits("async_arguments")
<1>1. Code["async_arguments"] = AsyncArguments /\ Repeats \in Nat \ {0}
  BY ListingsAssumption DEF Code, ConstantsAssumption
<1>2. Reads("async_arguments", "main",
        <<Begin("x"), Do("async", "a"), Get("a"), Begin("str"), Do("async", "b"), Get("b"),
          Begin("y"), Do("async", "c"), Do("async", "d"), Get("c"), Get("d"), Do("async", "e"),
          Get("e"), End("y"), End("str"), End("x")>>)
  BY <1>1 DEF AsyncArguments, job_of
<1>3. Reads("async_arguments", "a", <<Read("x"), SetValue("a")>>)
  BY <1>1 DEF AsyncArguments, job_of
<1>4. Reads("async_arguments", "b", <<Read("str"), SetValue("b")>>)
  BY <1>1 DEF AsyncArguments, job_of
<1>5. Reads("async_arguments", "c", <<SetValue("c")>>)
  BY <1>1 DEF AsyncArguments, job_of
<1>6. Reads("async_arguments", "d", <<Read("y"), SetValue("d")>>)
  BY <1>1 DEF AsyncArguments, job_of
<1>7. Reads("async_arguments", "e", <<Read("x"), SetValue("e")>>)
  BY <1>1 DEF AsyncArguments, job_of
<1>8. ThreadFits("async_arguments", "main")
  <2>1. ASSUME NEW i \in Places("async_arguments", "main")
        PROVE  Sound("async_arguments", "main", i)
    <3>1. SoundPlaces("async_arguments", "main", i)
      BY <1>1, <1>2, SMTT(30)
    <3>2. SoundTypes("async_arguments", "main", i)
      BY <1>1, <1>2
    <3>3. SoundLocks("async_arguments", "main", i)
      BY <1>1, <1>2, SMTT(30)
    <3>4. SoundPops("async_arguments", "main", i)
      BY <1>1, <1>2, SMTT(30)
    <3>5. SoundOnce("async_arguments", "main", i)
      BY <1>1, <1>2
    <3>6. SoundLoans("async_arguments", "main", i)
      <4>1. CASE i <= 5
        BY <1>1, <1>2, <4>1
      <4>2. CASE i \in 6 .. 10
        BY <1>1, <1>2, <4>2
      <4>3. CASE i > 10
        BY <1>1, <1>2, <4>3, SMTT(30)
      <4>4. i \in 1 .. 16
        BY <1>2
      <4> HIDE DEF SoundLoans
      <4> QED
        BY <4>1, <4>2, <4>3, <4>4
    <3> HIDE DEF SoundPlaces, SoundTypes, SoundLocks, SoundPops, SoundOnce, SoundLoans
    <3> QED
      BY <3>1, <3>2, <3>3, <3>4, <3>5, <3>6
  <2>2. SoundStart("async_arguments", "main")
    BY <1>1, <1>2
  <2>3. ASSUME NEW u \in Thread PROVE SoundAccesses("async_arguments", "main", u)
    <3>1. \A i \in Places("async_arguments", "main") :
            CodeOf("async_arguments", "main")[i].op \notin Changes
      BY <1>1, <1>2
    <3> HIDE DEF Places, CodeOf, Changes
    <3> QED
      BY <3>1
  <2> HIDE DEF Sound, Places, SoundStart, SoundAccesses
  <2> QED
    BY <2>1, <2>2, <2>3
<1>9. ThreadFits("async_arguments", "a")
  BY <1>1, <1>3
<1>10. ThreadFits("async_arguments", "b")
  BY <1>1, <1>4
<1>11. ThreadFits("async_arguments", "c")
  BY <1>1, <1>5
<1>12. ThreadFits("async_arguments", "d")
  BY <1>1, <1>6
<1>13. ThreadFits("async_arguments", "e")
  BY <1>1, <1>7
<1> HIDE DEF ThreadFits
<1> QED
  BY <1>8, <1>9, <1>10, <1>11, <1>12, <1>13 DEF ProgramFits

LEMMA WaitTimeoutFits == ProgramFits("wait_timeout")
<1>1. Code["wait_timeout"] = WaitTimeout /\ Repeats \in Nat \ {0}
  BY ListingsAssumption DEF Code, ConstantsAssumption
<1>2. Reads("wait_timeout", "main",
        <<Lock("m"), Do("wait_until", "m"), Lock("m"), Read("done"), Unlock("m")>>)
  BY <1>1 DEF WaitTimeout, One, wait_loop
<1>3. \A t \in {"a", "b", "c", "d", "e"} : Len(Code["wait_timeout"][t]) = 0
  BY <1>1 DEF WaitTimeout, One, wait_loop
<1>4. ThreadFits("wait_timeout", "main")
  BY <1>1, <1>2
<1>5. \A t \in {"a", "b", "c", "d", "e"} : ThreadFits("wait_timeout", t)
  BY <1>1, <1>3
<1> HIDE DEF ThreadFits
<1> QED
  BY <1>4, <1>5 DEF ProgramFits

LEMMA LocalVarDetachFits == ProgramFits("local_var_detach")
<1>1. Code["local_var_detach"] = LocalVarDetach /\ Repeats \in Nat \ {0}
  BY ListingsAssumption DEF Code, ConstantsAssumption
<1>2. Reads("local_var_detach", "main",
        <<Begin("local_val"), Start("a"), End("local_val"), Do("return", "main")>>)
  BY <1>1 DEF LocalVarDetach, One, oops, func, Times
<1>3. Reads("local_var_detach", "a", [i \in 1 .. Repeats |-> Read("local_val")])
  BY <1>1 DEF LocalVarDetach, One, oops, func, Times
<1>4. \A t \in {"b", "c", "d", "e"} : Len(Code["local_var_detach"][t]) = 0
  BY <1>1 DEF LocalVarDetach, One, oops, func, Times
<1>5. ThreadFits("local_var_detach", "main")
  BY <1>1, <1>2
<1>6. ThreadFits("local_var_detach", "a")
  BY <1>1, <1>3
<1>7. \A t \in {"b", "c", "d", "e"} : ThreadFits("local_var_detach", t)
  BY <1>1, <1>4
<1> HIDE DEF ThreadFits
<1> QED
  BY <1>5, <1>6, <1>7 DEF ProgramFits

LEMMA LocalVarJoinFits == ProgramFits("local_var_join")
<1>1. Code["local_var_join"] = LocalVarJoin /\ Repeats \in Nat \ {0}
  BY ListingsAssumption DEF Code, ConstantsAssumption
<1>2. Reads("local_var_join", "main",
        <<Begin("local_val"), Start("a"), Join("a"), End("local_val")>>)
  BY <1>1 DEF LocalVarJoin, One, join, func, Times
<1>3. Reads("local_var_join", "a", [i \in 1 .. Repeats |-> Read("local_val")])
  BY <1>1 DEF LocalVarJoin, One, join, func, Times
<1>4. \A t \in {"b", "c", "d", "e"} : Len(Code["local_var_join"][t]) = 0
  BY <1>1 DEF LocalVarJoin, One, join, func, Times
<1>5. ThreadFits("local_var_join", "main")
  BY <1>1, <1>2
<1>6. ThreadFits("local_var_join", "a")
  BY <1>1, <1>3
<1>7. \A t \in {"b", "c", "d", "e"} : ThreadFits("local_var_join", t)
  BY <1>1, <1>4
<1> HIDE DEF ThreadFits
<1> QED
  BY <1>5, <1>6, <1>7 DEF ProgramFits

LEMMA RAIIFits == ProgramFits("raii")
<1>1. Code["raii"] = RAII /\ Repeats \in Nat \ {0}
  BY ListingsAssumption DEF Code, ConstantsAssumption
<1>2. Reads("raii", "main", <<Begin("local_val"), Start("a"), Join("a"), End("local_val")>>)
  BY <1>1 DEF RAII, One, raii, func, Times
<1>3. Reads("raii", "a", [i \in 1 .. Repeats |-> Read("local_val")])
  BY <1>1 DEF RAII, One, raii, func, Times
<1>4. \A t \in {"b", "c", "d", "e"} : Len(Code["raii"][t]) = 0
  BY <1>1 DEF RAII, One, raii, func, Times
<1>5. ThreadFits("raii", "main")
  BY <1>1, <1>2
<1>6. ThreadFits("raii", "a")
  BY <1>1, <1>3
<1>7. \A t \in {"b", "c", "d", "e"} : ThreadFits("raii", t)
  BY <1>1, <1>4
<1> HIDE DEF ThreadFits
<1> QED
  BY <1>5, <1>6, <1>7 DEF ProgramFits

LEMMA ScopedThreadFits == ProgramFits("scoped_thread")
<1>1. Code["scoped_thread"] = ScopedThread /\ Repeats \in Nat \ {0}
  BY ListingsAssumption DEF Code, ConstantsAssumption
<1>2. Reads("scoped_thread", "main",
        <<Begin("local_val"), Start("a"), Join("a"), End("local_val")>>)
  BY <1>1 DEF ScopedThread, One, foo_scoped, func, Times
<1>3. Reads("scoped_thread", "a", [i \in 1 .. Repeats |-> Read("local_val")])
  BY <1>1 DEF ScopedThread, One, foo_scoped, func, Times
<1>4. \A t \in {"b", "c", "d", "e"} : Len(Code["scoped_thread"][t]) = 0
  BY <1>1 DEF ScopedThread, One, foo_scoped, func, Times
<1>5. ThreadFits("scoped_thread", "main")
  BY <1>1, <1>2
<1>6. ThreadFits("scoped_thread", "a")
  BY <1>1, <1>3
<1>7. \A t \in {"b", "c", "d", "e"} : ThreadFits("scoped_thread", t)
  BY <1>1, <1>4
<1> HIDE DEF ThreadFits
<1> QED
  BY <1>5, <1>6, <1>7 DEF ProgramFits

LEMMA MovingThreadFits == ProgramFits("moving_thread")
<1>1. Code["moving_thread"] = MovingThread /\ Repeats \in Nat \ {0}
  BY ListingsAssumption DEF Code, ConstantsAssumption
<1>2. Reads("moving_thread", "main", <<Start("a"), Join("a")>>)
  BY <1>1 DEF MovingThread, One
<1>3. \A t \in {"a", "b", "c", "d", "e"} : Len(Code["moving_thread"][t]) = 0
  BY <1>1 DEF MovingThread, One
<1>4. ThreadFits("moving_thread", "main")
  BY <1>1, <1>2
<1>5. \A t \in {"a", "b", "c", "d", "e"} : ThreadFits("moving_thread", t)
  BY <1>1, <1>3
<1> HIDE DEF ThreadFits
<1> QED
  BY <1>4, <1>5 DEF ProgramFits

LEMMA ContainersFits == ProgramFits("containers")
<1>1. Code["containers"] = Containers /\ Repeats \in Nat \ {0}
  BY ListingsAssumption DEF Code, ConstantsAssumption
<1>2. Reads("containers", "main",
        <<Start("a"), Start("b"), Start("c"), Start("d"), Join("a"), Join("b"), Join("c"),
          Join("d")>>)
  BY <1>1 DEF Containers, One
<1>3. \A t \in {"a", "b", "c", "d", "e"} : Len(Code["containers"][t]) = 0
  BY <1>1 DEF Containers, One
<1>4. ThreadFits("containers", "main")
  <2>1. \A i \in Places("containers", "main") : Sound("containers", "main", i)
    BY <1>1, <1>2
  <2>2. SoundStart("containers", "main")
    BY <1>1, <1>2
  <2>3. ASSUME NEW u \in Thread PROVE SoundAccesses("containers", "main", u)
    <3>1. \A i \in Places("containers", "main") :
            CodeOf("containers", "main")[i].op \notin Changes
      BY <1>1, <1>2
    <3> HIDE DEF Places, CodeOf, Changes
    <3> QED
      BY <3>1
  <2> HIDE DEF Sound, Places, SoundStart, SoundAccesses
  <2> QED
    BY <2>1, <2>2, <2>3
<1>5. \A t \in {"a", "b", "c", "d", "e"} : ThreadFits("containers", t)
  BY <1>1, <1>3
<1> HIDE DEF ThreadFits
<1> QED
  BY <1>4, <1>5 DEF ProgramFits

LEMMA MovingMutexFits == ProgramFits("moving_mutex")
<1>1. Code["moving_mutex"] = MovingMutex /\ Repeats \in Nat \ {0}
  BY ListingsAssumption DEF Code, ConstantsAssumption
<1>2. Reads("moving_mutex", "main",
        <<Begin("local_m"), Lock("m"), End("local_m"), Read("local_m"), Unlock("m")>>)
  BY <1>1 DEF MovingMutex, One, return_lock, acquire_lock
<1>3. \A t \in {"a", "b", "c", "d", "e"} : Len(Code["moving_mutex"][t]) = 0
  BY <1>1 DEF MovingMutex, One, return_lock, acquire_lock
<1>4. ThreadFits("moving_mutex", "main")
  BY <1>1, <1>2
<1>5. \A t \in {"a", "b", "c", "d", "e"} : ThreadFits("moving_mutex", t)
  BY <1>1, <1>3
<1> HIDE DEF ThreadFits
<1> QED
  BY <1>4, <1>5 DEF ProgramFits

LEMMA StdLockProgramFits == ProgramFits("std_lock")
<1>1. Code["std_lock"] = StdLockProgram /\ Repeats \in Nat \ {0}
  BY ListingsAssumption DEF Code, ConstantsAssumption
<1>2. Reads("std_lock", "main", <<Start("a"), Start("b"), Join("a"), Join("b")>>)
  BY <1>1 DEF StdLockProgram, Two, swap_X, Swap
<1>3. Reads("std_lock", "a",
        <<StdLock, Write("data"), Write("other"), Unlock("n"), Unlock("m")>>)
  BY <1>1 DEF StdLockProgram, Two, swap_X, Swap
<1>4. Reads("std_lock", "b",
        <<StdLock, Write("data"), Write("other"), Unlock("m"), Unlock("n")>>)
  BY <1>1 DEF StdLockProgram, Two, swap_X, Swap
<1>5. \A t \in {"c", "d", "e"} : Len(Code["std_lock"][t]) = 0
  BY <1>1 DEF StdLockProgram, Two, swap_X, Swap
<1>6. ThreadFits("std_lock", "main")
  BY <1>1, <1>2
<1>7. ThreadFits("std_lock", "a")
  <2>1. \A i \in Places("std_lock", "a") : Sound("std_lock", "a", i)
    BY <1>1, <1>3
  <2>2. SoundStart("std_lock", "a")
    BY <1>1, <1>3
  <2>3. SoundAccesses("std_lock", "a", "main")
    BY <1>1, <1>3, <1>2
  <2>4. SoundAccesses("std_lock", "a", "b")
    BY <1>1, <1>3, <1>4
  <2>5. \A u \in {"c", "d", "e"} : SoundAccesses("std_lock", "a", u)
    BY <1>5
  <2> HIDE DEF Sound, Places, SoundStart, SoundAccesses
  <2> QED
    BY <2>1, <2>2, <2>3, <2>4, <2>5
<1>8. ThreadFits("std_lock", "b")
  <2>1. \A i \in Places("std_lock", "b") : Sound("std_lock", "b", i)
    BY <1>1, <1>4
  <2>2. SoundStart("std_lock", "b")
    BY <1>1, <1>4
  <2>3. SoundAccesses("std_lock", "b", "main")
    BY <1>1, <1>4, <1>2
  <2>4. SoundAccesses("std_lock", "b", "a")
    BY <1>1, <1>4, <1>3
  <2>5. \A u \in {"c", "d", "e"} : SoundAccesses("std_lock", "b", u)
    BY <1>5
  <2> HIDE DEF Sound, Places, SoundStart, SoundAccesses
  <2> QED
    BY <2>1, <2>2, <2>3, <2>4, <2>5
<1>9. \A t \in {"c", "d", "e"} : ThreadFits("std_lock", t)
  BY <1>1, <1>5
<1> HIDE DEF ThreadFits
<1> QED
  BY <1>6, <1>7, <1>8, <1>9 DEF ProgramFits

LEMMA UniqueLockProgramFits == ProgramFits("std_lock_and_unique_lock")
<1>1. Code["std_lock_and_unique_lock"] = UniqueLockProgram /\ Repeats \in Nat \ {0}
  BY ListingsAssumption DEF Code, ConstantsAssumption
<1>2. Reads("std_lock_and_unique_lock", "main",
        <<Start("a"), Start("b"), Join("a"), Join("b")>>)
  BY <1>1 DEF UniqueLockProgram, Two, swap_deferred, Swap
<1>3. Reads("std_lock_and_unique_lock", "a", <<StdLock, Write("data"), Write("other")>>)
  BY <1>1 DEF UniqueLockProgram, Two, swap_deferred, Swap
<1>4. Reads("std_lock_and_unique_lock", "b", <<StdLock, Write("data"), Write("other")>>)
  BY <1>1 DEF UniqueLockProgram, Two, swap_deferred, Swap
<1>5. \A t \in {"c", "d", "e"} : Len(Code["std_lock_and_unique_lock"][t]) = 0
  BY <1>1 DEF UniqueLockProgram, Two, swap_deferred, Swap
<1>6. ThreadFits("std_lock_and_unique_lock", "main")
  BY <1>1, <1>2
<1>7. ThreadFits("std_lock_and_unique_lock", "a")
  <2>1. \A i \in Places("std_lock_and_unique_lock", "a") :
          Sound("std_lock_and_unique_lock", "a", i)
    BY <1>1, <1>3
  <2>2. SoundStart("std_lock_and_unique_lock", "a")
    BY <1>1, <1>3
  <2>3. SoundAccesses("std_lock_and_unique_lock", "a", "main")
    BY <1>1, <1>3, <1>2
  <2>4. SoundAccesses("std_lock_and_unique_lock", "a", "b")
    BY <1>1, <1>3, <1>4
  <2>5. \A u \in {"c", "d", "e"} : SoundAccesses("std_lock_and_unique_lock", "a", u)
    BY <1>5
  <2> HIDE DEF Sound, Places, SoundStart, SoundAccesses
  <2> QED
    BY <2>1, <2>2, <2>3, <2>4, <2>5
<1>8. ThreadFits("std_lock_and_unique_lock", "b")
  <2>1. \A i \in Places("std_lock_and_unique_lock", "b") :
          Sound("std_lock_and_unique_lock", "b", i)
    BY <1>1, <1>4
  <2>2. SoundStart("std_lock_and_unique_lock", "b")
    BY <1>1, <1>4
  <2>3. SoundAccesses("std_lock_and_unique_lock", "b", "main")
    BY <1>1, <1>4, <1>2
  <2>4. SoundAccesses("std_lock_and_unique_lock", "b", "a")
    BY <1>1, <1>4, <1>3
  <2>5. \A u \in {"c", "d", "e"} : SoundAccesses("std_lock_and_unique_lock", "b", u)
    BY <1>5
  <2> HIDE DEF Sound, Places, SoundStart, SoundAccesses
  <2> QED
    BY <2>1, <2>2, <2>3, <2>4, <2>5
<1>9. \A t \in {"c", "d", "e"} : ThreadFits("std_lock_and_unique_lock", t)
  BY <1>1, <1>5
<1> HIDE DEF ThreadFits
<1> QED
  BY <1>6, <1>7, <1>8, <1>9 DEF ProgramFits

LEMMA GranularComparisonFits == ProgramFits("granular_comparison")
<1>1. Code["granular_comparison"] = GranularComparison /\ Repeats \in Nat \ {0}
  BY ListingsAssumption DEF Code, ConstantsAssumption
<1>2. Reads("granular_comparison", "main", <<Start("a"), Start("b"), Join("a"), Join("b")>>)
  BY <1>1 DEF GranularComparison, Two, get_detail
<1>3. Reads("granular_comparison", "a",
        <<Lock("m"), Read("data"), Unlock("m"), Lock("n"), Read("other"), Unlock("n")>>)
  BY <1>1 DEF GranularComparison, Two, get_detail
<1>4. Reads("granular_comparison", "b",
        <<Lock("n"), Read("other"), Unlock("n"), Lock("m"), Read("data"), Unlock("m")>>)
  BY <1>1 DEF GranularComparison, Two, get_detail
<1>5. \A t \in {"c", "d", "e"} : Len(Code["granular_comparison"][t]) = 0
  BY <1>1 DEF GranularComparison, Two, get_detail
<1>6. ThreadFits("granular_comparison", "main")
  <2>1. \A i \in Places("granular_comparison", "main") : Sound("granular_comparison", "main", i)
    BY <1>1, <1>2
  <2>2. SoundStart("granular_comparison", "main")
    BY <1>1, <1>2
  <2>3. ASSUME NEW u \in Thread PROVE SoundAccesses("granular_comparison", "main", u)
    <3>1. \A i \in Places("granular_comparison", "main") :
            CodeOf("granular_comparison", "main")[i].op \notin Changes
      BY <1>1, <1>2
    <3> HIDE DEF Places, CodeOf, Changes
    <3> QED
      BY <3>1
  <2> HIDE DEF Sound, Places, SoundStart, SoundAccesses
  <2> QED
    BY <2>1, <2>2, <2>3
<1>7. ThreadFits("granular_comparison", "a")
  <2>1. \A i \in Places("granular_comparison", "a") : Sound("granular_comparison", "a", i)
    BY <1>1, <1>3
  <2>2. SoundStart("granular_comparison", "a")
    BY <1>1, <1>3
  <2>3. ASSUME NEW u \in Thread PROVE SoundAccesses("granular_comparison", "a", u)
    <3>1. \A i \in Places("granular_comparison", "a") :
            CodeOf("granular_comparison", "a")[i].op \notin Changes
      BY <1>1, <1>3
    <3> HIDE DEF Places, CodeOf, Changes
    <3> QED
      BY <3>1
  <2> HIDE DEF Sound, Places, SoundStart, SoundAccesses
  <2> QED
    BY <2>1, <2>2, <2>3
<1>8. ThreadFits("granular_comparison", "b")
  <2>1. \A i \in Places("granular_comparison", "b") : Sound("granular_comparison", "b", i)
    BY <1>1, <1>4
  <2>2. SoundStart("granular_comparison", "b")
    BY <1>1, <1>4
  <2>3. ASSUME NEW u \in Thread PROVE SoundAccesses("granular_comparison", "b", u)
    <3>1. \A i \in Places("granular_comparison", "b") :
            CodeOf("granular_comparison", "b")[i].op \notin Changes
      BY <1>1, <1>4
    <3> HIDE DEF Places, CodeOf, Changes
    <3> QED
      BY <3>1
  <2> HIDE DEF Sound, Places, SoundStart, SoundAccesses
  <2> QED
    BY <2>1, <2>2, <2>3
<1>9. \A t \in {"c", "d", "e"} : ThreadFits("granular_comparison", t)
  BY <1>1, <1>5
<1> HIDE DEF ThreadFits
<1> QED
  BY <1>6, <1>7, <1>8, <1>9 DEF ProgramFits

LEMMA GranularityFits == ProgramFits("granularity")
<1>1. Code["granularity"] = Granularity /\ Repeats \in Nat \ {0}
  BY ListingsAssumption DEF Code, ConstantsAssumption
<1>2. Reads("granularity", "main", <<Start("a"), Start("b"), Join("a"), Join("b")>>)
  BY <1>1 DEF Granularity, Two, data_process
<1>3. Reads("granularity", "a",
        <<Lock("m"), Read("data"), Unlock("m"), Lock("m"), Write("data"), Unlock("m")>>)
  BY <1>1 DEF Granularity, Two, data_process
<1>4. Reads("granularity", "b",
        <<Lock("m"), Read("data"), Unlock("m"), Lock("m"), Write("data"), Unlock("m")>>)
  BY <1>1 DEF Granularity, Two, data_process
<1>5. \A t \in {"c", "d", "e"} : Len(Code["granularity"][t]) = 0
  BY <1>1 DEF Granularity, Two, data_process
<1>6. ThreadFits("granularity", "main")
  BY <1>1, <1>2
<1>7. ThreadFits("granularity", "a")
  <2>1. \A i \in Places("granularity", "a") : Sound("granularity", "a", i)
    BY <1>1, <1>3
  <2>2. SoundStart("granularity", "a")
    BY <1>1, <1>3
  <2>3. SoundAccesses("granularity", "a", "main")
    BY <1>1, <1>3, <1>2
  <2>4. SoundAccesses("granularity", "a", "b")
    BY <1>1, <1>3, <1>4
  <2>5. \A u \in {"c", "d", "e"} : SoundAccesses("granularity", "a", u)
    BY <1>5
  <2> HIDE DEF Sound, Places, SoundStart, SoundAccesses
  <2> QED
    BY <2>1, <2>2, <2>3, <2>4, <2>5
<1>8. ThreadFits("granularity", "b")
  <2>1. \A i \in Places("granularity", "b") : Sound("granularity", "b", i)
    BY <1>1, <1>4
  <2>2. SoundStart("granularity", "b")
    BY <1>1, <1>4
  <2>3. SoundAccesses("granularity", "b", "main")
    BY <1>1, <1>4, <1>2
  <2>4. SoundAccesses("granularity", "b", "a")
    BY <1>1, <1>4, <1>3
  <2>5. \A u \in {"c", "d", "e"} : SoundAccesses("granularity", "b", u)
    BY <1>5
  <2> HIDE DEF Sound, Places, SoundStart, SoundAccesses
  <2> QED
    BY <2>1, <2>2, <2>3, <2>4, <2>5
<1>9. \A t \in {"c", "d", "e"} : ThreadFits("granularity", t)
  BY <1>1, <1>5
<1> HIDE DEF ThreadFits
<1> QED
  BY <1>6, <1>7, <1>8, <1>9 DEF ProgramFits

LEMMA OpenConnectionFits == ProgramFits("open_connection")
<1>1. Code["open_connection"] = OpenConnection /\ Repeats \in Nat \ {0}
  BY ListingsAssumption DEF Code, ConstantsAssumption
<1>2. Reads("open_connection", "main", <<Start("a"), Start("b"), Join("a"), Join("b")>>)
  BY <1>1 DEF OpenConnection, Two, send_data, receive_data, CallOnce
<1>3. Reads("open_connection", "a",
        <<DoOr("once", "flag", 4), Do("init", "data"), Do("once_done", "flag"), Read("data"),
          DoOr("once", "flag", 8), Do("init", "data"), Do("once_done", "flag"), Read("data")>>)
  BY <1>1 DEF OpenConnection, Two, send_data, receive_data, CallOnce
<1>4. Reads("open_connection", "b",
        <<DoOr("once", "flag", 4), Do("init", "data"), Do("once_done", "flag"), Read("data")>>)
  BY <1>1 DEF OpenConnection, Two, send_data, receive_data, CallOnce
<1>5. \A t \in {"c", "d", "e"} : Len(Code["open_connection"][t]) = 0
  BY <1>1 DEF OpenConnection, Two, send_data, receive_data, CallOnce
<1>6. ThreadFits("open_connection", "main")
  BY <1>1, <1>2
<1>7. ThreadFits("open_connection", "a")
  <2>1. \A i \in Places("open_connection", "a") : Sound("open_connection", "a", i)
    BY <1>1, <1>3
  <2>2. SoundStart("open_connection", "a")
    BY <1>1, <1>3
  <2>3. SoundAccesses("open_connection", "a", "main")
    BY <1>1, <1>3, <1>2
  <2>4. SoundAccesses("open_connection", "a", "b")
    BY <1>1, <1>3, <1>4
  <2>5. \A u \in {"c", "d", "e"} : SoundAccesses("open_connection", "a", u)
    BY <1>5
  <2> HIDE DEF Sound, Places, SoundStart, SoundAccesses
  <2> QED
    BY <2>1, <2>2, <2>3, <2>4, <2>5
<1>8. ThreadFits("open_connection", "b")
  <2>1. \A i \in Places("open_connection", "b") : Sound("open_connection", "b", i)
    BY <1>1, <1>4
  <2>2. SoundStart("open_connection", "b")
    BY <1>1, <1>4
  <2>3. SoundAccesses("open_connection", "b", "main")
    BY <1>1, <1>4, <1>2
  <2>4. SoundAccesses("open_connection", "b", "a")
    BY <1>1, <1>4, <1>3
  <2>5. \A u \in {"c", "d", "e"} : SoundAccesses("open_connection", "b", u)
    BY <1>5
  <2> HIDE DEF Sound, Places, SoundStart, SoundAccesses
  <2> QED
    BY <2>1, <2>2, <2>3, <2>4, <2>5
<1>9. \A t \in {"c", "d", "e"} : ThreadFits("open_connection", t)
  BY <1>1, <1>5
<1> HIDE DEF ThreadFits
<1> QED
  BY <1>6, <1>7, <1>8, <1>9 DEF ProgramFits

LEMMA InitObjectFits == ProgramFits("init_object")
<1>1. Code["init_object"] = InitObject /\ Repeats \in Nat \ {0}
  BY ListingsAssumption DEF Code, ConstantsAssumption
<1>2. Reads("init_object", "main", <<Start("a"), Start("b"), Join("a"), Join("b")>>)
  BY <1>1 DEF InitObject, Two, foo_resource, CallOnce
<1>3. Reads("init_object", "a",
        <<DoOr("once", "flag", 4), Do("init", "data"), Do("once_done", "flag"), Read("data"),
          DoOr("once", "flag", 8), Do("init", "data"), Do("once_done", "flag"), Read("data")>>)
  BY <1>1 DEF InitObject, Two, foo_resource, CallOnce
<1>4. Reads("init_object", "b",
        <<DoOr("once", "flag", 4), Do("init", "data"), Do("once_done", "flag"), Read("data")>>)
  BY <1>1 DEF InitObject, Two, foo_resource, CallOnce
<1>5. \A t \in {"c", "d", "e"} : Len(Code["init_object"][t]) = 0
  BY <1>1 DEF InitObject, Two, foo_resource, CallOnce
<1>6. ThreadFits("init_object", "main")
  BY <1>1, <1>2
<1>7. ThreadFits("init_object", "a")
  <2>1. \A i \in Places("init_object", "a") : Sound("init_object", "a", i)
    BY <1>1, <1>3
  <2>2. SoundStart("init_object", "a")
    BY <1>1, <1>3
  <2>3. SoundAccesses("init_object", "a", "main")
    BY <1>1, <1>3, <1>2
  <2>4. SoundAccesses("init_object", "a", "b")
    BY <1>1, <1>3, <1>4
  <2>5. \A u \in {"c", "d", "e"} : SoundAccesses("init_object", "a", u)
    BY <1>5
  <2> HIDE DEF Sound, Places, SoundStart, SoundAccesses
  <2> QED
    BY <2>1, <2>2, <2>3, <2>4, <2>5
<1>8. ThreadFits("init_object", "b")
  <2>1. \A i \in Places("init_object", "b") : Sound("init_object", "b", i)
    BY <1>1, <1>4
  <2>2. SoundStart("init_object", "b")
    BY <1>1, <1>4
  <2>3. SoundAccesses("init_object", "b", "main")
    BY <1>1, <1>4, <1>2
  <2>4. SoundAccesses("init_object", "b", "a")
    BY <1>1, <1>4, <1>3
  <2>5. \A u \in {"c", "d", "e"} : SoundAccesses("init_object", "b", u)
    BY <1>5
  <2> HIDE DEF Sound, Places, SoundStart, SoundAccesses
  <2> QED
    BY <2>1, <2>2, <2>3, <2>4, <2>5
<1>9. \A t \in {"c", "d", "e"} : ThreadFits("init_object", t)
  BY <1>1, <1>5
<1> HIDE DEF ThreadFits
<1> QED
  BY <1>6, <1>7, <1>8, <1>9 DEF ProgramFits

LEMMA RecursiveMutexFits == ProgramFits("recursive_mutex")
<1>1. Code["recursive_mutex"] = RecursiveMutex /\ Repeats \in Nat \ {0}
  BY ListingsAssumption DEF Code, ConstantsAssumption
<1>2. Reads("recursive_mutex", "main", <<Start("a"), Start("b"), Join("a"), Join("b")>>)
  BY <1>1 DEF RecursiveMutex, Two, foo_recursive, bar
<1>3. Reads("recursive_mutex", "a",
        <<Lock("m"), Write("data"), Lock("m"), Write("data"), Unlock("m"), Unlock("m")>>)
  BY <1>1 DEF RecursiveMutex, Two, foo_recursive, bar
<1>4. Reads("recursive_mutex", "b",
        <<Lock("m"), Write("data"), Lock("m"), Write("data"), Unlock("m"), Unlock("m"),
          Lock("m"), Write("data"), Unlock("m")>>)
  BY <1>1 DEF RecursiveMutex, Two, foo_recursive, bar
<1>5. \A t \in {"c", "d", "e"} : Len(Code["recursive_mutex"][t]) = 0
  BY <1>1 DEF RecursiveMutex, Two, foo_recursive, bar
<1>6. ThreadFits("recursive_mutex", "main")
  BY <1>1, <1>2
<1>7. ThreadFits("recursive_mutex", "a")
  <2>1. \A i \in Places("recursive_mutex", "a") : Sound("recursive_mutex", "a", i)
    BY <1>1, <1>3
  <2>2. SoundStart("recursive_mutex", "a")
    BY <1>1, <1>3
  <2>3. SoundAccesses("recursive_mutex", "a", "main")
    BY <1>1, <1>3, <1>2
  <2>4. SoundAccesses("recursive_mutex", "a", "b")
    BY <1>1, <1>3, <1>4
  <2>5. \A u \in {"c", "d", "e"} : SoundAccesses("recursive_mutex", "a", u)
    BY <1>5
  <2> HIDE DEF Sound, Places, SoundStart, SoundAccesses
  <2> QED
    BY <2>1, <2>2, <2>3, <2>4, <2>5
<1>8. ThreadFits("recursive_mutex", "b")
  <2>1. \A i \in Places("recursive_mutex", "b") : Sound("recursive_mutex", "b", i)
    BY <1>1, <1>4
  <2>2. SoundStart("recursive_mutex", "b")
    BY <1>1, <1>4
  <2>3. SoundAccesses("recursive_mutex", "b", "main")
    BY <1>1, <1>4, <1>2
  <2>4. SoundAccesses("recursive_mutex", "b", "a")
    BY <1>1, <1>4, <1>3
  <2>5. \A u \in {"c", "d", "e"} : SoundAccesses("recursive_mutex", "b", u)
    BY <1>5
  <2> HIDE DEF Sound, Places, SoundStart, SoundAccesses
  <2> QED
    BY <2>1, <2>2, <2>3, <2>4, <2>5
<1>9. \A t \in {"c", "d", "e"} : ThreadFits("recursive_mutex", t)
  BY <1>1, <1>5
<1> HIDE DEF ThreadFits
<1> QED
  BY <1>6, <1>7, <1>8, <1>9 DEF ProgramFits

LEMMA ConditionVariableCode ==
  /\ Reads("condition_variable", "main",
       <<Start("a"), Lock("m"), Push(1), Do("notify", "data_cond"), Unlock("m"), Lock("m"),
         Push(2), Do("notify", "data_cond"), Unlock("m"), Lock("m"), Push(3), Do("notify",
         "data_cond"), Unlock("m"), Join("a")>>)
  /\ Reads("condition_variable", "a",
       <<Lock("m"), Do("wait", "m"), Do("pop", "data_queue"), Unlock("m"), DoOr("unless_last",
         3, 1)>>)
  /\ \A t \in {"b", "c", "d", "e"} : Len(Code["condition_variable"][t]) = 0
<1>1. Code["condition_variable"] = ConditionVariable
  BY ListingsAssumption DEF Code, ConstantsAssumption
<1>2. Reads("condition_variable", "main",
        <<Start("a"), Lock("m"), Push(1), Do("notify", "data_cond"), Unlock("m"), Lock("m"),
          Push(2), Do("notify", "data_cond"), Unlock("m"), Lock("m"), Push(3), Do("notify",
          "data_cond"), Unlock("m"), Join("a")>>)
  BY <1>1 DEF ConditionVariable, One, push_and_notify, data_processing_thread
<1>3. Reads("condition_variable", "a",
        <<Lock("m"), Do("wait", "m"), Do("pop", "data_queue"), Unlock("m"), DoOr("unless_last",
          3, 1)>>)
  BY <1>1 DEF ConditionVariable, One, push_and_notify, data_processing_thread
<1>4. \A t \in {"b", "c", "d", "e"} : Len(Code["condition_variable"][t]) = 0
  BY <1>1 DEF ConditionVariable, One, push_and_notify, data_processing_thread
<1> QED
  BY <1>2, <1>3, <1>4

LEMMA ConditionVariableFits == ProgramFits("condition_variable")
<1>1. Code["condition_variable"] = ConditionVariable /\ Repeats \in Nat \ {0}
  BY ListingsAssumption DEF Code, ConstantsAssumption
<1>2. Reads("condition_variable", "main",
        <<Start("a"), Lock("m"), Push(1), Do("notify", "data_cond"), Unlock("m"), Lock("m"),
          Push(2), Do("notify", "data_cond"), Unlock("m"), Lock("m"), Push(3), Do("notify",
          "data_cond"), Unlock("m"), Join("a")>>)
  BY ConditionVariableCode
<1>3. Reads("condition_variable", "a",
        <<Lock("m"), Do("wait", "m"), Do("pop", "data_queue"), Unlock("m"), DoOr("unless_last",
          3, 1)>>)
  BY ConditionVariableCode
<1>4. \A t \in {"b", "c", "d", "e"} : Len(Code["condition_variable"][t]) = 0
  BY ConditionVariableCode
<1>5. ThreadFits("condition_variable", "main")
  <2>1. \A i \in Places("condition_variable", "main") : Sound("condition_variable", "main", i)
    BY <1>1, <1>2
  <2>2. SoundStart("condition_variable", "main")
    BY <1>1, <1>2
  <2>3. SoundAccesses("condition_variable", "main", "a")
    BY <1>1, <1>2, <1>3, SMTT(30)
  <2>4. \A u \in {"b", "c", "d", "e"} : SoundAccesses("condition_variable", "main", u)
    BY <1>4
  <2> HIDE DEF Sound, Places, SoundStart, SoundAccesses
  <2> QED
    BY <2>1, <2>2, <2>3, <2>4
<1>6. ThreadFits("condition_variable", "a")
  <2>1. \A i \in Places("condition_variable", "a") : Sound("condition_variable", "a", i)
    BY <1>1, <1>3
  <2>2. SoundStart("condition_variable", "a")
    BY <1>1, <1>3
  <2>3. SoundAccesses("condition_variable", "a", "main")
    BY <1>1, <1>3, <1>2, SMTT(30)
  <2>4. \A u \in {"b", "c", "d", "e"} : SoundAccesses("condition_variable", "a", u)
    BY <1>4
  <2> HIDE DEF Sound, Places, SoundStart, SoundAccesses
  <2> QED
    BY <2>1, <2>2, <2>3, <2>4
<1>7. \A t \in {"b", "c", "d", "e"} : ThreadFits("condition_variable", t)
  BY <1>1, <1>4
<1> HIDE DEF ThreadFits
<1> QED
  BY <1>5, <1>6, <1>7 DEF ProgramFits

LEMMA DataProcessingCode ==
  /\ Reads("data_processing", "main",
       <<Start("a"), Lock("m"), Push(3), Do("notify", "data_cond"), Unlock("m"), Lock("m"),
         Push(2), Do("notify", "data_cond"), Unlock("m"), Lock("m"), Push(1), Do("notify",
         "data_cond"), Unlock("m"), Join("a")>>)
  /\ Reads("data_processing", "a",
       <<Lock("m"), Do("wait", "m"), Do("pop", "data_queue"), Unlock("m"), DoOr("unless_last",
         1, 1)>>)
  /\ \A t \in {"b", "c", "d", "e"} : Len(Code["data_processing"][t]) = 0
<1>1. Code["data_processing"] = DataProcessing
  BY ListingsAssumption DEF Code, ConstantsAssumption
<1>2. Reads("data_processing", "main",
        <<Start("a"), Lock("m"), Push(3), Do("notify", "data_cond"), Unlock("m"), Lock("m"),
          Push(2), Do("notify", "data_cond"), Unlock("m"), Lock("m"), Push(1), Do("notify",
          "data_cond"), Unlock("m"), Join("a")>>)
  <2>1. Code["data_processing"]["main"] = <<Start("a")>> \o push_numbers \o <<Join("a")>>
    BY <1>1 DEF DataProcessing, One
  <2> QED
    BY <2>1 DEF push_numbers, push_and_notify
<1>3. Reads("data_processing", "a",
        <<Lock("m"), Do("wait", "m"), Do("pop", "data_queue"), Unlock("m"), DoOr("unless_last",
          1, 1)>>)
  BY <1>1 DEF DataProcessing, One, push_numbers, push_and_notify, data_processing_thread
<1>4. \A t \in {"b", "c", "d", "e"} : Len(Code["data_processing"][t]) = 0
  BY <1>1 DEF DataProcessing, One, push_numbers, push_and_notify, data_processing_thread
<1> QED
  BY <1>2, <1>3, <1>4

LEMMA DataProcessingFits == ProgramFits("data_processing")
<1>1. Code["data_processing"] = DataProcessing /\ Repeats \in Nat \ {0}
  BY ListingsAssumption DEF Code, ConstantsAssumption
<1>2. Reads("data_processing", "main",
        <<Start("a"), Lock("m"), Push(3), Do("notify", "data_cond"), Unlock("m"), Lock("m"),
          Push(2), Do("notify", "data_cond"), Unlock("m"), Lock("m"), Push(1), Do("notify",
          "data_cond"), Unlock("m"), Join("a")>>)
  BY DataProcessingCode
<1>3. Reads("data_processing", "a",
        <<Lock("m"), Do("wait", "m"), Do("pop", "data_queue"), Unlock("m"), DoOr("unless_last",
          1, 1)>>)
  BY DataProcessingCode
<1>4. \A t \in {"b", "c", "d", "e"} : Len(Code["data_processing"][t]) = 0
  BY DataProcessingCode
<1>5. ThreadFits("data_processing", "main")
  <2>1. \A i \in Places("data_processing", "main") : Sound("data_processing", "main", i)
    BY <1>1, <1>2
  <2>2. SoundStart("data_processing", "main")
    BY <1>1, <1>2
  <2>3. SoundAccesses("data_processing", "main", "a")
    BY <1>1, <1>2, <1>3, SMTT(30)
  <2>4. \A u \in {"b", "c", "d", "e"} : SoundAccesses("data_processing", "main", u)
    BY <1>4
  <2> HIDE DEF Sound, Places, SoundStart, SoundAccesses
  <2> QED
    BY <2>1, <2>2, <2>3, <2>4
<1>6. ThreadFits("data_processing", "a")
  <2>1. \A i \in Places("data_processing", "a") : Sound("data_processing", "a", i)
    BY <1>1, <1>3
  <2>2. SoundStart("data_processing", "a")
    BY <1>1, <1>3
  <2>3. SoundAccesses("data_processing", "a", "main")
    BY <1>1, <1>3, <1>2, SMTT(30)
  <2>4. \A u \in {"b", "c", "d", "e"} : SoundAccesses("data_processing", "a", u)
    BY <1>4
  <2> HIDE DEF Sound, Places, SoundStart, SoundAccesses
  <2> QED
    BY <2>1, <2>2, <2>3, <2>4
<1>7. \A t \in {"b", "c", "d", "e"} : ThreadFits("data_processing", t)
  BY <1>1, <1>4
<1> HIDE DEF ThreadFits
<1> QED
  BY <1>5, <1>6, <1>7 DEF ProgramFits

LEMMA DataProcessingEmptyCode ==
  /\ Reads("data_processing_empty", "main",
       <<Start("a"), Lock("m"), Push(3), Do("notify", "data_cond"), Unlock("m"), Lock("m"),
         Push(2), Do("notify", "data_cond"), Unlock("m"), Lock("m"), Push(1), Do("notify",
         "data_cond"), Unlock("m"), Join("a"), Lock("m"), Read("queue"), Unlock("m")>>)
  /\ Reads("data_processing_empty", "a",
       <<Lock("m"), Do("wait", "m"), Do("pop", "data_queue"), Unlock("m"), DoOr("unless_last",
         1, 1)>>)
  /\ \A t \in {"b", "c", "d", "e"} : Len(Code["data_processing_empty"][t]) = 0
<1>1. Code["data_processing_empty"] = DataProcessingEmpty
  BY ListingsAssumption DEF Code, ConstantsAssumption
<1>2. Reads("data_processing_empty", "main",
        <<Start("a"), Lock("m"), Push(3), Do("notify", "data_cond"), Unlock("m"), Lock("m"),
          Push(2), Do("notify", "data_cond"), Unlock("m"), Lock("m"), Push(1), Do("notify",
          "data_cond"), Unlock("m"), Join("a"), Lock("m"), Read("queue"), Unlock("m")>>)
  <2>1. Code["data_processing_empty"]["main"] = <<Start("a")>> \o push_numbers
        \o <<Join("a")>> \o empty
    BY <1>1 DEF DataProcessingEmpty, DataProcessing, One
  <2> QED
    BY <2>1 DEF push_numbers, push_and_notify, empty
<1>3. Reads("data_processing_empty", "a",
        <<Lock("m"), Do("wait", "m"), Do("pop", "data_queue"), Unlock("m"), DoOr("unless_last",
          1, 1)>>)
  BY <1>1 DEF DataProcessingEmpty, DataProcessing, One, push_numbers, push_and_notify,
    data_processing_thread, empty
<1>4. \A t \in {"b", "c", "d", "e"} : Len(Code["data_processing_empty"][t]) = 0
  BY <1>1 DEF DataProcessingEmpty, DataProcessing, One, push_numbers, push_and_notify,
    data_processing_thread, empty
<1> QED
  BY <1>2, <1>3, <1>4

LEMMA DataProcessingEmptyFits == ProgramFits("data_processing_empty")
<1>1. Code["data_processing_empty"] = DataProcessingEmpty /\ Repeats \in Nat \ {0}
  BY ListingsAssumption DEF Code, ConstantsAssumption
<1>2. Reads("data_processing_empty", "main",
        <<Start("a"), Lock("m"), Push(3), Do("notify", "data_cond"), Unlock("m"), Lock("m"),
          Push(2), Do("notify", "data_cond"), Unlock("m"), Lock("m"), Push(1), Do("notify",
          "data_cond"), Unlock("m"), Join("a"), Lock("m"), Read("queue"), Unlock("m")>>)
  BY DataProcessingEmptyCode
<1>3. Reads("data_processing_empty", "a",
        <<Lock("m"), Do("wait", "m"), Do("pop", "data_queue"), Unlock("m"), DoOr("unless_last",
          1, 1)>>)
  BY DataProcessingEmptyCode
<1>4. \A t \in {"b", "c", "d", "e"} : Len(Code["data_processing_empty"][t]) = 0
  BY DataProcessingEmptyCode
<1>5. ThreadFits("data_processing_empty", "main")
  <2>1. \A i \in Places("data_processing_empty", "main") :
          Sound("data_processing_empty", "main", i)
    BY <1>1, <1>2
  <2>2. SoundStart("data_processing_empty", "main")
    BY <1>1, <1>2
  <2>3. SoundAccesses("data_processing_empty", "main", "a")
    <3>1. \A i \in Places("data_processing_empty", "main") :
          CodeOf("data_processing_empty", "main")[i].op \in Changes \cup Looks =>
            DepthAt("data_processing_empty", "main", "m", i) > 0
      BY <1>1, <1>2
    <3>2. \A i \in Places("data_processing_empty", "a") :
          CodeOf("data_processing_empty", "a")[i].op \in Changes \cup Looks =>
            DepthAt("data_processing_empty", "a", "m", i) > 0
      BY <1>1, <1>3
    <3> HIDE DEF Places, CodeOf, Changes, Looks, DepthAt, ObjectOf
    <3> QED
      BY <3>1, <3>2
  <2>4. \A u \in {"b", "c", "d", "e"} : SoundAccesses("data_processing_empty", "main", u)
    BY <1>4
  <2> HIDE DEF Sound, Places, SoundStart, SoundAccesses
  <2> QED
    BY <2>1, <2>2, <2>3, <2>4
<1>6. ThreadFits("data_processing_empty", "a")
  <2>1. \A i \in Places("data_processing_empty", "a") : Sound("data_processing_empty", "a", i)
    BY <1>1, <1>3
  <2>2. SoundStart("data_processing_empty", "a")
    BY <1>1, <1>3
  <2>3. SoundAccesses("data_processing_empty", "a", "main")
    <3>1. \A i \in Places("data_processing_empty", "a") :
          CodeOf("data_processing_empty", "a")[i].op \in Changes \cup Looks =>
            DepthAt("data_processing_empty", "a", "m", i) > 0
      BY <1>1, <1>3
    <3>2. \A i \in Places("data_processing_empty", "main") :
          CodeOf("data_processing_empty", "main")[i].op \in Changes \cup Looks =>
            DepthAt("data_processing_empty", "main", "m", i) > 0
      BY <1>1, <1>2
    <3> HIDE DEF Places, CodeOf, Changes, Looks, DepthAt, ObjectOf
    <3> QED
      BY <3>1, <3>2
  <2>4. \A u \in {"b", "c", "d", "e"} : SoundAccesses("data_processing_empty", "a", u)
    BY <1>4
  <2> HIDE DEF Sound, Places, SoundStart, SoundAccesses
  <2> QED
    BY <2>1, <2>2, <2>3, <2>4
<1>7. \A t \in {"b", "c", "d", "e"} : ThreadFits("data_processing_empty", t)
  BY <1>1, <1>4
<1> HIDE DEF ThreadFits
<1> QED
  BY <1>5, <1>6, <1>7 DEF ProgramFits

LEMMA FutureFits == ProgramFits("future")
<1>1. Code["future"] = Future /\ Repeats \in Nat \ {0}
  BY ListingsAssumption DEF Code, ConstantsAssumption
<1>2. Reads("future", "main",
        <<Do("async", "a"), Get("a"), Start("b"), Get("b"), Join("b"), Start("c"), Get("c"),
          Join("c"), Begin("future"), Start("d"), SetValue("main"), Join("d"), End("future")>>)
  BY <1>1 DEF Future, ex1, ex2, ex3, ex4, set_future
<1>3. Reads("future", "a", <<SetValue("a")>>)
  BY <1>1 DEF Future, ex1, ex2, ex3, ex4, set_future
<1>4. Reads("future", "b", <<SetValue("b")>>)
  BY <1>1 DEF Future, ex1, ex2, ex3, ex4, set_future
<1>5. Reads("future", "c", <<SetValue("c")>>)
  BY <1>1 DEF Future, ex1, ex2, ex3, ex4, set_future
<1>6. Reads("future", "d", <<Read("future"), Get("main")>>)
  BY <1>1 DEF Future, ex1, ex2, ex3, ex4, set_future
<1>7. \A t \in {"e"} : Len(Code["future"][t]) = 0
  BY <1>1 DEF Future, ex1, ex2, ex3, ex4, set_future
<1>8. ThreadFits("future", "main")
  <2>1. \A i \in Places("future", "main") : Sound("future", "main", i)
    BY <1>1, <1>2
  <2>2. SoundStart("future", "main")
    BY <1>1, <1>2
  <2>3. ASSUME NEW u \in Thread PROVE SoundAccesses("future", "main", u)
    <3>1. \A i \in Places("future", "main") : CodeOf("future", "main")[i].op \notin Changes
      BY <1>1, <1>2
    <3> HIDE DEF Places, CodeOf, Changes
    <3> QED
      BY <3>1
  <2> HIDE DEF Sound, Places, SoundStart, SoundAccesses
  <2> QED
    BY <2>1, <2>2, <2>3
<1>9. ThreadFits("future", "a")
  BY <1>1, <1>3
<1>10. ThreadFits("future", "b")
  BY <1>1, <1>4
<1>11. ThreadFits("future", "c")
  BY <1>1, <1>5
<1>12. ThreadFits("future", "d")
  BY <1>1, <1>6
<1>13. \A t \in {"e"} : ThreadFits("future", t)
  BY <1>1, <1>7
<1> HIDE DEF ThreadFits
<1> QED
  BY <1>8, <1>9, <1>10, <1>11, <1>12, <1>13 DEF ProgramFits

LEMMA AsyncPoliciesFits == ProgramFits("async_policies")
<1>1. Code["async_policies"] = AsyncPolicies /\ Repeats \in Nat \ {0}
  BY ListingsAssumption DEF Code, ConstantsAssumption
<1>2. Reads("async_policies", "main",
        <<Start("a"), Do("async", "c"), Do("async", "d"), Get("a"), Get("c"), Get("d"),
          Get("b")>>)
  BY <1>1 DEF AsyncPolicies
<1>3. Reads("async_policies", "a", <<SetValue("a")>>)
  BY <1>1 DEF AsyncPolicies
<1>4. Reads("async_policies", "b", <<SetValue("b")>>)
  BY <1>1 DEF AsyncPolicies
<1>5. Reads("async_policies", "c", <<SetValue("c")>>)
  BY <1>1 DEF AsyncPolicies
<1>6. Reads("async_policies", "d", <<SetValue("d")>>)
  BY <1>1 DEF AsyncPolicies
<1>7. \A t \in {"e"} : Len(Code["async_policies"][t]) = 0
  BY <1>1 DEF AsyncPolicies
<1>8. ThreadFits("async_policies", "main")
  <2>1. \A i \in Places("async_policies", "main") : Sound("async_policies", "main", i)
    BY <1>1, <1>2
  <2>2. SoundStart("async_policies", "main")
    BY <1>1, <1>2
  <2>3. ASSUME NEW u \in Thread PROVE SoundAccesses("async_policies", "main", u)
    <3>1. \A i \in Places("async_policies", "main") :
            CodeOf("async_policies", "main")[i].op \notin Changes
      BY <1>1, <1>2
    <3> HIDE DEF Places, CodeOf, Changes
    <3> QED
      BY <3>1
  <2> HIDE DEF Sound, Places, SoundStart, SoundAccesses
  <2> QED
    BY <2>1, <2>2, <2>3
<1>9. ThreadFits("async_policies", "a")
  BY <1>1, <1>3
<1>10. ThreadFits("async_policies", "b")
  BY <1>1, <1>4
<1>11. ThreadFits("async_policies", "c")
  BY <1>1, <1>5
<1>12. ThreadFits("async_policies", "d")
  BY <1>1, <1>6
<1>13. \A t \in {"e"} : ThreadFits("async_policies", t)
  BY <1>1, <1>7
<1> HIDE DEF ThreadFits
<1> QED
  BY <1>8, <1>9, <1>10, <1>11, <1>12, <1>13 DEF ProgramFits

LEMMA PackagedTaskFits == ProgramFits("packaged_task")
<1>1. Code["packaged_task"] = PackagedTask /\ Repeats \in Nat \ {0}
  BY ListingsAssumption DEF Code, ConstantsAssumption
<1>2. Reads("packaged_task", "main",
        <<SetValue("b"), Get("b"), SetValue("c"), Get("c"), Start("a"), Join("a"), Get("a")>>)
  BY <1>1 DEF PackagedTask, One, task_lambda, task_bind, task_thread
<1>3. Reads("packaged_task", "a", <<SetValue("a")>>)
  BY <1>1 DEF PackagedTask, One, task_lambda, task_bind, task_thread
<1>4. \A t \in {"b", "c", "d", "e"} : Len(Code["packaged_task"][t]) = 0
  BY <1>1 DEF PackagedTask, One, task_lambda, task_bind, task_thread
<1>5. ThreadFits("packaged_task", "main")
  <2>1. \A i \in Places("packaged_task", "main") : Sound("packaged_task", "main", i)
    BY <1>1, <1>2
  <2>2. SoundStart("packaged_task", "main")
    BY <1>1, <1>2
  <2>3. ASSUME NEW u \in Thread PROVE SoundAccesses("packaged_task", "main", u)
    <3>1. \A i \in Places("packaged_task", "main") :
            CodeOf("packaged_task", "main")[i].op \notin Changes
      BY <1>1, <1>2
    <3> HIDE DEF Places, CodeOf, Changes
    <3> QED
      BY <3>1
  <2> HIDE DEF Sound, Places, SoundStart, SoundAccesses
  <2> QED
    BY <2>1, <2>2, <2>3
<1>6. ThreadFits("packaged_task", "a")
  BY <1>1, <1>3
<1>7. \A t \in {"b", "c", "d", "e"} : ThreadFits("packaged_task", t)
  BY <1>1, <1>4
<1> HIDE DEF ThreadFits
<1> QED
  BY <1>5, <1>6, <1>7 DEF ProgramFits

LEMMA PackagedTaskGUIFits == ProgramFits("packaged_task_GUI")
<1>1. Code["packaged_task_GUI"] = PackagedTaskGUI /\ Repeats \in Nat \ {0}
  BY ListingsAssumption DEF Code, ConstantsAssumption
<1>2. Reads("packaged_task_GUI", "main",
        <<Start("a"), Lock("m"), Push(1), Unlock("m"), Get("a"), Join("a")>>)
  BY <1>1 DEF PackagedTaskGUI, One, gui_thread, post_task_for_gui_thread
<1>3. Reads("packaged_task_GUI", "a",
        <<Lock("m"), DoOr("unless_empty", "tasks", 5), Unlock("m"), Do("goto", 1), Do("pop",
          "tasks"), SetValue("a"), Unlock("m")>>)
  BY <1>1 DEF PackagedTaskGUI, One, gui_thread, post_task_for_gui_thread
<1>4. \A t \in {"b", "c", "d", "e"} : Len(Code["packaged_task_GUI"][t]) = 0
  BY <1>1 DEF PackagedTaskGUI, One, gui_thread, post_task_for_gui_thread
<1>5. ThreadFits("packaged_task_GUI", "main")
  <2>1. \A i \in Places("packaged_task_GUI", "main") : Sound("packaged_task_GUI", "main", i)
    BY <1>1, <1>2
  <2>2. SoundStart("packaged_task_GUI", "main")
    BY <1>1, <1>2
  <2>3. SoundAccesses("packaged_task_GUI", "main", "a")
    BY <1>1, <1>2, <1>3
  <2>4. \A u \in {"b", "c", "d", "e"} : SoundAccesses("packaged_task_GUI", "main", u)
    BY <1>4
  <2> HIDE DEF Sound, Places, SoundStart, SoundAccesses
  <2> QED
    BY <2>1, <2>2, <2>3, <2>4
<1>6. ThreadFits("packaged_task_GUI", "a")
  <2>1. \A i \in Places("packaged_task_GUI", "a") : Sound("packaged_task_GUI", "a", i)
    BY <1>1, <1>3
  <2>2. SoundStart("packaged_task_GUI", "a")
    BY <1>1, <1>3
  <2>3. SoundAccesses("packaged_task_GUI", "a", "main")
    BY <1>1, <1>3, <1>2
  <2>4. \A u \in {"b", "c", "d", "e"} : SoundAccesses("packaged_task_GUI", "a", u)
    BY <1>4
  <2> HIDE DEF Sound, Places, SoundStart, SoundAccesses
  <2> QED
    BY <2>1, <2>2, <2>3, <2>4
<1>7. \A t \in {"b", "c", "d", "e"} : ThreadFits("packaged_task_GUI", t)
  BY <1>1, <1>4
<1> HIDE DEF ThreadFits
<1> QED
  BY <1>5, <1>6, <1>7 DEF ProgramFits

LEMMA FutureExceptionsFits == ProgramFits("future_exceptions")
<1>1. Code["future_exceptions"] = FutureExceptions /\ Repeats \in Nat \ {0}
  BY ListingsAssumption DEF Code, ConstantsAssumption
<1>2. Reads("future_exceptions", "main",
        <<Begin("promise"), Start("a"), Get("a"), Join("a"), Start("b"), Get("b"), Join("b"),
          Start("c"), Get("c"), Join("c"), End("promise")>>)
  BY <1>1 DEF FutureExceptions, get_and_join, job_promise
<1>3. Reads("future_exceptions", "a", <<Read("promise"), SetValue("a")>>)
  BY <1>1 DEF FutureExceptions, get_and_join, job_promise
<1>4. Reads("future_exceptions", "b", <<Read("promise"), SetValue("b")>>)
  BY <1>1 DEF FutureExceptions, get_and_join, job_promise
<1>5. Reads("future_exceptions", "c", <<Read("promise"), SetValue("c")>>)
  BY <1>1 DEF FutureExceptions, get_and_join, job_promise
<1>6. \A t \in {"d", "e"} : Len(Code["future_exceptions"][t]) = 0
  BY <1>1 DEF FutureExceptions, get_and_join, job_promise
<1>7. ThreadFits("future_exceptions", "main")
  <2>1. \A i \in Places("future_exceptions", "main") : Sound("future_exceptions", "main", i)
    BY <1>1, <1>2
  <2>2. SoundStart("future_exceptions", "main")
    BY <1>1, <1>2
  <2>3. ASSUME NEW u \in Thread PROVE SoundAccesses("future_exceptions", "main", u)
    <3>1. \A i \in Places("future_exceptions", "main") :
            CodeOf("future_exceptions", "main")[i].op \notin Changes
      BY <1>1, <1>2
    <3> HIDE DEF Places, CodeOf, Changes
    <3> QED
      BY <3>1
  <2> HIDE DEF Sound, Places, SoundStart, SoundAccesses
  <2> QED
    BY <2>1, <2>2, <2>3
<1>8. ThreadFits("future_exceptions", "a")
  BY <1>1, <1>3
<1>9. ThreadFits("future_exceptions", "b")
  BY <1>1, <1>4
<1>10. ThreadFits("future_exceptions", "c")
  BY <1>1, <1>5
<1>11. \A t \in {"d", "e"} : ThreadFits("future_exceptions", t)
  BY <1>1, <1>6
<1> HIDE DEF ThreadFits
<1> QED
  BY <1>7, <1>8, <1>9, <1>10, <1>11 DEF ProgramFits

HIDE DEF ThreadFits, Do, DoOr, Start, Join, Begin, End, Read, Write, Lock, Unlock, StdLock, Get,
  SetValue, Push, None, Reads, Places, CodeOf, Sound, SoundPlaces, SoundTypes, SoundLocks,
  SoundPops, SoundOnce, SoundLoans, SoundStart, SoundAccesses, Apart, ObjectOf, Changes, Looks,
  GoesTo, Branches, Thread, Waits, Mutex, Locals, Initialises, CallsOnce, DepthAt, HoldsAt,
  TwiceAt, Recursive, ScopeOf, BorrowsAt, LentAt

LEMMA JobCode ==
  /\ Len(job) = 3 * Repeats /\ Repeats \in Nat \ {0} /\ Repeats * 3 = 3 * Repeats
  /\ \A i \in 1 .. 3 * Repeats :
       job[i] = IF i % 3 = 1 THEN Lock("m") ELSE IF i % 3 = 2 THEN Write("data") ELSE Unlock("m")
<1>1. Repeats \in Nat \ {0}
  BY ListingsAssumption DEF ConstantsAssumption
<1>2. Len(list_add) = 3 /\ list_add[1] = Lock("m") /\ list_add[2] = Write("data")
      /\ list_add[3] = Unlock("m")
  BY DEF list_add
<1>3. job = [i \in 1 .. Repeats * 3 |-> list_add[((i - 1) % 3) + 1]]
  BY <1>2 DEF job, Times
<1>4. Repeats * 3 = 3 * Repeats /\ 3 * Repeats \in Nat
  BY <1>1
<1>5. Len(job) = 3 * Repeats
  BY <1>3, <1>4
<1>6. ASSUME NEW i \in 1 .. 3 * Repeats
      PROVE  job[i] = IF i % 3 = 1 THEN Lock("m")
                      ELSE IF i % 3 = 2 THEN Write("data") ELSE Unlock("m")
  <2>1. job[i] = list_add[((i - 1) % 3) + 1] /\ i \in Nat \ {0}
    BY <1>3, <1>4
  <2>2. CASE i % 3 = 1
    <3>1. (i - 1) % 3 = 0
      BY <2>1, <2>2
    <3> QED
      BY <1>2, <2>1, <2>2, <3>1
  <2>3. CASE i % 3 = 2
    <3>1. (i - 1) % 3 = 1
      BY <2>1, <2>3
    <3> QED
      BY <1>2, <2>1, <2>3, <3>1
  <2>4. CASE i % 3 = 0
    <3>1. (i - 1) % 3 = 2
      BY <2>1, <2>4
    <3> QED
      BY <1>2, <2>1, <2>4, <3>1
  <2> QED
    BY <2>1, <2>2, <2>3, <2>4
<1> QED
  BY <1>1, <1>4, <1>5, <1>6

(* 3.1: lock, access, unlock, over and over *)
InTurn(t, n) ==
  /\ Len(Code["list_protected"][t]) = 3 * n
  /\ \A i \in 1 .. 3 * n :
       LET code == Code["list_protected"][t][i]
       IN /\ i % 3 = 1 => code.op = "lock" /\ code.at = "m"
          /\ i % 3 = 2 => code.op \in {"read", "write"} /\ code.at = "data"
          /\ i % 3 = 0 => code.op = "unlock" /\ code.at = "m"

LEMMA ListCode ==
  /\ Repeats \in Nat \ {0}
  /\ Reads("list_protected", "main",
           <<Start("a"), Start("b"), Join("a"), Join("b"), Read("data")>>)
  /\ InTurn("a", Repeats) /\ InTurn("b", Repeats + 1)
  /\ \A t \in {"c", "d", "e"} : Len(Code["list_protected"][t]) = 0
<1>1. Repeats \in Nat \ {0} /\ Code["list_protected"] = ListProtected
  BY JobCode DEF Code
<1>2. Reads("list_protected", "main",
            <<Start("a"), Start("b"), Join("a"), Join("b"), Read("data")>>)
  BY <1>1 DEF Reads, ListProtected, Two
<1>3. \A t \in {"c", "d", "e"} : Len(Code["list_protected"][t]) = 0
  BY <1>1 DEF ListProtected, Two, None
<1>4. InTurn("a", Repeats)
  <2>1. Code["list_protected"]["a"] = job
    BY <1>1 DEF ListProtected, Two
  <2> QED
    BY <1>1, <2>1, JobCode DEF InTurn, Lock, Write, Unlock, Do
<1>5. InTurn("b", Repeats + 1)
  <2>1. Code["list_protected"]["b"] = job \o list_contains
    BY <1>1 DEF ListProtected, Two
  <2>2. job = [i \in 1 .. 3 * Repeats |-> job[i]] /\ 3 * Repeats \in Nat
    BY <1>1, JobCode DEF job, Times, list_add
  <2>3. Len(job \o list_contains) = 3 * Repeats + 3
        /\ \A i \in 1 .. 3 * Repeats + 3 :
             (job \o list_contains)[i] =
               IF i <= 3 * Repeats THEN job[i] ELSE list_contains[i - 3 * Repeats]
    <3>1. Len(job) = 3 * Repeats /\ Len(list_contains) = 3
      BY JobCode DEF list_contains
    <3>2. ASSUME NEW S, NEW j \in Seq(S), NEW l \in Seq(S)
          PROVE  /\ Len(j \o l) = Len(j) + Len(l)
                 /\ \A i \in 1 .. Len(j) + Len(l) :
                      (j \o l)[i] = IF i <= Len(j) THEN j[i] ELSE l[i - Len(j)]
      OBVIOUS
    <3>3. \E S : job \in Seq(S) /\ list_contains \in Seq(S)
      <4> DEFINE S == {job[i] : i \in 1 .. 3 * Repeats} \cup {list_contains[i] : i \in 1 .. 3}
      <4>1. \A i \in 1 .. 3 * Repeats : job[i] \in S
        OBVIOUS
      <4>2. list_contains \in Seq(S)
        BY DEF list_contains
      <4> HIDE DEF S
      <4>3. job \in Seq(S)
        BY <2>2, <4>1
      <4> QED
        BY <4>2, <4>3
    <3>4. PICK S : job \in Seq(S) /\ list_contains \in Seq(S)
      BY <3>3
    <3>5. /\ Len(job \o list_contains) = Len(job) + Len(list_contains)
          /\ \A i \in 1 .. Len(job) + Len(list_contains) :
               (job \o list_contains)[i] =
                 IF i <= Len(job) THEN job[i] ELSE list_contains[i - Len(job)]
      BY <3>2, <3>4, Zenon
    <3> QED
      BY <3>1, <3>5
  <2>4. 3 * (Repeats + 1) = 3 * Repeats + 3
    BY <1>1
  <2>5. ASSUME NEW i \in 1 .. 3 * Repeats + 3
        PROVE  LET code == (job \o list_contains)[i]
               IN /\ i % 3 = 1 => code = Lock("m")
                  /\ i % 3 = 2 => code.op \in {"read", "write"} /\ code.at = "data"
                  /\ i % 3 = 0 => code = Unlock("m")
    <3>1. CASE i <= 3 * Repeats
      BY <1>1, <2>3, <3>1, JobCode DEF Lock, Write, Unlock, Do
    <3>2. CASE i > 3 * Repeats
      <4>1. i = 3 * Repeats + 1 \/ i = 3 * Repeats + 2 \/ i = 3 * Repeats + 3
        BY <1>1, <3>2
      <4>3. /\ (3 * Repeats + 1) % 3 = 1 /\ (3 * Repeats + 2) % 3 = 2
            /\ (3 * Repeats + 3) % 3 = 0
        BY <1>1
      <4>4. /\ (3 * Repeats + 1) - 3 * Repeats = 1 /\ (3 * Repeats + 2) - 3 * Repeats = 2
            /\ (3 * Repeats + 3) - 3 * Repeats = 3
        BY <1>1
      <4>2. (job \o list_contains)[i] = list_contains[i - 3 * Repeats]
        BY <1>1, <2>3, <3>2
      <4>5. (list_contains[1] = Lock("m") /\ list_contains[2] = Read("data"))
            /\ list_contains[3] = Unlock("m")
        BY DEF list_contains
      <4>6. Read("data").op = "read" /\ Read("data").at = "data"
        BY DEF Read, Do
      <4>7. CASE i = 3 * Repeats + 1
        BY <4>2, <4>3, <4>4, <4>5, <4>7
      <4>8. CASE i = 3 * Repeats + 2
        BY <4>2, <4>3, <4>4, <4>5, <4>6, <4>8
      <4>9. CASE i = 3 * Repeats + 3
        BY <4>2, <4>3, <4>4, <4>5, <4>9
      <4> QED
        BY <4>1, <4>7, <4>8, <4>9
    <3>3. i <= 3 * Repeats \/ i > 3 * Repeats
      BY <1>1
    <3> QED
      BY <3>1, <3>2, <3>3, Zenon
  <2> QED
    BY <2>1, <2>3, <2>4, <2>5 DEF InTurn, Lock, Unlock, Do
<1> QED
  BY <1>1, <1>2, <1>3, <1>4, <1>5

LEMMA ListProtectedFits == ProgramFits("list_protected")
<1>1. ThreadFits("list_protected", "main")
  <2>1. Reads("list_protected", "main",
              <<Start("a"), Start("b"), Join("a"), Join("b"), Read("data")>>)
    BY ListCode
  <2> QED
    BY <2>1 DEF ThreadFits, Sound, SoundPlaces, SoundTypes, SoundLocks, SoundPops, SoundOnce,
       SoundLoans, SoundStart, SoundAccesses, GoesTo, Branches, Thread, Waits, Mutex, Locals,
       Initialises, CallsOnce, DepthAt, HoldsAt, TwiceAt, Recursive, ScopeOf, BorrowsAt, LentAt,
       Changes, Reads, Places, CodeOf, Start, Join, Read, Do
<1>2. ASSUME NEW t \in {"a", "b"}, NEW n \in Nat \ {0}, InTurn(t, n), n <= Repeats + 1
      PROVE  ThreadFits("list_protected", t)
  <2>0. Repeats \in Nat \ {0} /\ 3 * n \in Nat /\ 3 * n <= 3 * Repeats + 3
        /\ Places("list_protected", t) = 1 .. 3 * n
    BY <1>2, ListCode DEF InTurn, Places, CodeOf
  <2>4. \A j \in Places("list_protected", t) :
          CodeOf("list_protected", t)[j].op \in {"lock", "unlock", "read", "write"}
    BY <1>2, <2>0 DEF InTurn, CodeOf
  <2>1. ASSUME NEW i \in Places("list_protected", t) PROVE Sound("list_protected", t, i)
    <3> DEFINE code == CodeOf("list_protected", t)[i]
    <3>1. i \in 1 .. 3 * n /\ i \in Nat
      BY <2>0
    <3>9. \/ i % 3 = 1 /\ code.op = "lock" /\ code.at = "m"
          \/ i % 3 = 2 /\ code.op \in {"read", "write"} /\ code.at = "data"
          \/ i % 3 = 0 /\ code.op = "unlock" /\ code.at = "m"
      BY <1>2, <3>1 DEF InTurn, CodeOf
    <3> HIDE DEF code
    <3>2. GoesTo("list_protected", t, i) = {i + 1}
      BY <3>9 DEF GoesTo, Branches, code
    <3>3. SoundPlaces("list_protected", t, i)
      BY <2>0, <3>1, <3>2 DEF SoundPlaces, Places
    <3>4. SoundTypes("list_protected", t, i)
      BY <1>2, <3>9 DEF SoundTypes, Waits, Mutex, Branches, code
    <3>5. SoundLocks("list_protected", t, i)
      <4>1. DepthAt("list_protected", t, "n", i) = 0
            /\ DepthAt("list_protected", t, "n", i + 1) = 0
        BY DEF DepthAt, HoldsAt, TwiceAt
      <4>2. \A j \in 1 .. 3 * Repeats + 4 :
              DepthAt("list_protected", t, "m", j) = IF j % 3 = 1 THEN 0 ELSE 1
        <5>1. (3 * Repeats + 4) % 3 = 1
          BY <2>0
        <5> QED
          BY <1>2, <2>0, <5>1 DEF DepthAt, HoldsAt, TwiceAt
      <4>3. i \in 1 .. 3 * Repeats + 4 /\ i + 1 \in 1 .. 3 * Repeats + 4
        BY <2>0, <3>1
      <4>4. /\ (i % 3 = 1 => (i + 1) % 3 = 2) /\ (i % 3 = 2 => (i + 1) % 3 = 0)
            /\ (i % 3 = 0 => (i + 1) % 3 = 1)
        BY <3>1
      <4> HIDE DEF DepthAt
      <4> QED
        BY <3>2, <3>9, <4>1, <4>2, <4>3, <4>4 DEF SoundLocks, Waits, Mutex, code
    <3>6. SoundPops("list_protected", t, i)
      BY <2>4, <3>9 DEF SoundPops, code
    <3>7. SoundOnce("list_protected", t, i)
      BY <2>4, <3>9 DEF SoundOnce, Initialises, CallsOnce, code
    <3>8. SoundLoans("list_protected", t, i)
      BY <1>2, <3>1, <3>2, <3>9 DEF SoundLoans, BorrowsAt, Locals, code
    <3> QED
      BY <3>3, <3>4, <3>5, <3>6, <3>7, <3>8 DEF Sound
  <2>2. SoundStart("list_protected", t)
    <3>1. \A m \in Mutex : DepthAt("list_protected", t, m, 1) = 0
      BY DEF Mutex, DepthAt, HoldsAt, TwiceAt
    <3> QED
      BY <1>2, <2>0, <2>4, <3>1 DEF InTurn, CodeOf, SoundStart, BorrowsAt, Initialises, CallsOnce
  <2>3. ASSUME NEW u \in Thread \ {t} PROVE SoundAccesses("list_protected", t, u)
    <3>1. CASE u = "main"
      <4>1. Places("list_protected", u) = 1 .. 5
            /\ \A j \in 1 .. 4 : CodeOf("list_protected", u)[j].op \notin Changes \cup Looks
        <5>1. Reads("list_protected", "main",
                    <<Start("a"), Start("b"), Join("a"), Join("b"), Read("data")>>)
          BY ListCode
        <5> QED
          BY <3>1, <5>1 DEF Reads, Places, CodeOf, Changes, Looks, Start, Join, Do
      <4>2. 5 \notin LentAt("list_protected", t)
        BY <1>2 DEF LentAt
      <4>3. BorrowsAt("list_protected", t) = Places("list_protected", t)
        BY <1>2 DEF BorrowsAt
      <4>4. \A j \in 1 .. 5 : j \in 1 .. 4 \/ j = 5
        OBVIOUS
      <4> QED
        BY <3>1, <4>1, <4>2, <4>3, <4>4 DEF SoundAccesses, Apart
    <3>2. CASE u \in {"a", "b"}
      <4>1. ASSUME NEW v \in {"a", "b"}, NEW i \in Places("list_protected", v),
                   CodeOf("list_protected", v)[i].op \in Changes \cup Looks
            PROVE  DepthAt("list_protected", v, "m", i) > 0
        <5>1. PICK k \in Nat : InTurn(v, k) /\ k <= Repeats + 1
          BY <2>0, ListCode
        <5>2. i \in 1 .. 3 * k /\ 3 * k <= 3 * Repeats + 3
          BY <2>0, <5>1 DEF InTurn, Places, CodeOf
        <5>3. i % 3 = 2
          BY <4>1, <5>1, <5>2 DEF InTurn, CodeOf, Changes, Looks
        <5> QED
          BY <2>0, <5>2, <5>3 DEF DepthAt, HoldsAt, TwiceAt
      <4> QED
        BY <1>2, <3>2, <4>1 DEF SoundAccesses, Apart, Mutex
    <3>3. CASE u \in {"c", "d", "e"}
      <4>1. Places("list_protected", u) = {}
        BY <3>3, ListCode DEF Places, CodeOf
      <4> QED
        BY <4>1 DEF SoundAccesses
    <3> QED
      BY <3>1, <3>2, <3>3 DEF Thread
  <2> QED
    BY <2>1, <2>2, <2>3 DEF ThreadFits
<1>3. ThreadFits("list_protected", "a") /\ ThreadFits("list_protected", "b")
  BY <1>2, ListCode
<1>4. ASSUME NEW t \in {"c", "d", "e"} PROVE ThreadFits("list_protected", t)
  <2>1. Places("list_protected", t) = {}
    BY ListCode DEF Places, CodeOf
  <2>2. SoundStart("list_protected", t)
    BY <2>1, ListCode DEF SoundStart, CodeOf, Mutex, DepthAt, HoldsAt, TwiceAt, BorrowsAt
  <2> QED
    BY <2>1, <2>2 DEF ThreadFits, SoundAccesses
<1> QED
  BY <1>1, <1>3, <1>4, SMTT(30) DEF ProgramFits, Thread

LEMMA Fits == OutlineFits
BY HelloParallelWorldFits, ReturnProtectedDataFits, AsyncArgumentsFits, WaitTimeoutFits,
   LocalVarDetachFits, LocalVarJoinFits, RAIIFits, ScopedThreadFits, MovingThreadFits,
   ContainersFits, MovingMutexFits, StdLockProgramFits, UniqueLockProgramFits,
   GranularComparisonFits, GranularityFits, OpenConnectionFits, InitObjectFits,
   RecursiveMutexFits, ConditionVariableFits, DataProcessingFits, DataProcessingEmptyFits,
   FutureFits, AsyncPoliciesFits, PackagedTaskFits, PackagedTaskGUIFits,
   FutureExceptionsFits, ListProtectedFits
   DEF OutlineFits, Code

LEMMA CodeLength ==
  ASSUME NEW p \in DOMAIN Code, NEW t \in Thread
  PROVE  Len(Code[p][t]) \in Nat
BY Fits DEF OutlineFits, ProgramFits, ThreadFits, SoundStart, CodeOf

LEMMA SoundHere ==
  ASSUME TypeOK, NEW t \in Thread, ~Ended(t)
  PROVE  /\ program \in DOMAIN Code /\ pc[t] \in Places(program, t)
         /\ pc[t] \in Nat /\ Sound(program, t, pc[t])
<1>1. program \in DOMAIN Code /\ pc[t] \in 1 .. Len(Code[program][t]) + 1
  BY DEF TypeOK
<1>2. Len(Code[program][t]) \in Nat
  BY <1>1, CodeLength
<1>3. pc[t] \in Nat /\ pc[t] \in Places(program, t)
  BY <1>1, <1>2 DEF Ended, CodeOf, Places
<1> QED
  BY <1>1, <1>3, Fits DEF OutlineFits, ProgramFits, ThreadFits

LEMMA FitsStart ==
  ASSUME TypeOK, NEW t \in Thread
  PROVE  SoundStart(program, t) /\ \A u \in Thread \ {t} : SoundAccesses(program, t, u)
BY Fits DEF OutlineFits, ProgramFits, ThreadFits, TypeOK

Waiting == {"lock", "unlock", "std_lock"} \cup Waits

Turns(t) ==
  /\ t \in Thread /\ t \in started /\ ~Ended(t) /\ program' = program
  /\ \/ UNCHANGED pc /\ At(t).op \in {"get"} \cup Waits
     \/ \E j \in GoesTo(program, t, pc[t]) : pc' = [pc EXCEPT ![t] = j]
  /\ At(t).op \notin Waiting => UNCHANGED locks /\ asleep' \subseteq asleep
  /\ At(t).op \notin {"once"} \cup Initialises => UNCHANGED flag
  /\ At(t).op \notin {"push", "pop"} => UNCHANGED items
  /\ At(t).op \notin {"start", "async", "get"} => UNCHANGED started
  /\ At(t).op \notin {"begin", "end"} => UNCHANGED scope
  /\ At(t).op # "set_value" => UNCHANGED ready
  /\ UNCHANGED spurious

LEMMA StepTurn ==
  ASSUME NEW t \in Thread, Step(t)
  PROVE  Turns(t)
<1>1. t \in started
  BY DEF Step
<1>0. GoesTo(program, t, pc[t]) =
        CASE At(t).op = "goto" -> {At(t).at}
          [] At(t).op \in Branches -> {pc[t] + 1, At(t).place}
          [] OTHER -> {pc[t] + 1}
  BY DEF GoesTo, CodeOf, At
<1> USE <1>0, <1>1
<1> USE DEF IsAt, GoOn, GoTo, Waiting, Branches, Initialises, Waits, locks, flag, items, cond,
       Turns
<1>2. CASE DoStart(t)
  BY <1>2 DEF DoStart
<1>3. CASE DoDefer(t)
  BY <1>3 DEF DoDefer
<1>4. CASE DoJoin(t)
  BY <1>4 DEF DoJoin
<1>5. CASE DoScope(t)
  BY <1>5 DEF DoScope
<1>6. CASE DoAccess(t)
  BY <1>6 DEF DoAccess
<1>7. CASE DoLock(t)
  BY <1>7 DEF DoLock
<1>8. CASE DoUnlock(t)
  BY <1>8 DEF DoUnlock
<1>9. CASE DoStdLock(t)
  BY <1>9 DEF DoStdLock
<1>10. CASE DoNotify(t)
  BY <1>10 DEF DoNotify
<1>11. CASE DoPush(t)
  BY <1>11 DEF DoPush
<1>12. CASE DoPop(t)
  BY <1>12 DEF DoPop
<1>13. CASE DoBranch(t)
  BY <1>13 DEF DoBranch
<1>14. CASE DoGoTo(t)
  BY <1>14 DEF DoGoTo
<1>15. CASE DoSetValue(t)
  BY <1>15 DEF DoSetValue
<1>16. CASE DoGet(t)
  BY <1>16 DEF DoGet
<1>17. CASE DoOnce(t)
  BY <1>17 DEF DoOnce
<1>18. CASE DoInit(t)
  BY <1>18 DEF DoInit
<1>19. CASE DoWait(t)
  BY <1>19 DEF DoWait
<1>20. CASE Relock(t)
  BY <1>20 DEF Relock
<1>21. CASE TimeOut(t)
  BY <1>21 DEF TimeOut
<1> HIDE DEF Turns
<1> QED
  BY <1>2, <1>3, <1>4, <1>5, <1>6, <1>7, <1>8, <1>9, <1>10, <1>11, <1>12, <1>13, <1>14, <1>15,
     <1>16, <1>17, <1>18, <1>19, <1>20, <1>21 DEF Step

LEMMA OthersStay ==
  ASSUME TypeOK, NEW t \in Thread, Turns(t), NEW u \in Thread \ {t}
  PROVE  pc'[u] = pc[u]
<1>1. pc \in [Thread -> Nat]
  BY DEF TypeOK
<1> QED
  BY <1>1 DEF Turns

LEMMA Arrives ==
  ASSUME TypeOK, NEW t \in Thread, Turns(t)
  PROVE  \/ pc'[t] = pc[t] /\ At(t).op \in {"get"} \cup Waits
         \/ pc'[t] \in GoesTo(program, t, pc[t])
<1>1. pc \in [Thread -> Nat]
  BY DEF TypeOK
<1> QED
  BY <1>1 DEF Turns

LEMMA PlacesFit ==
  ASSUME TypeOK, NEW t \in Thread, Turns(t)
  PROVE  /\ program' \in DOMAIN Code /\ pc' \in [Thread -> Nat]
         /\ \A u \in Thread : pc'[u] \in 1 .. Len(Code[program'][u]) + 1
<1>0. program' = program /\ ~Ended(t)
  BY DEF Turns
<1>1. pc \in [Thread -> Nat] /\ program \in DOMAIN Code
      /\ \A u \in Thread : pc[u] \in 1 .. Len(Code[program][u]) + 1
  BY DEF TypeOK
<1>2. Len(Code[program][t]) \in Nat
  BY <1>1, CodeLength
<1>3. GoesTo(program, t, pc[t]) \subseteq 1 .. Len(Code[program][t]) + 1
  BY <1>0, SoundHere DEF Sound, SoundPlaces, CodeOf
<1>4. pc'[t] \in 1 .. Len(Code[program][t]) + 1
  BY <1>1, <1>3, Arrives
<1>5. pc' \in [Thread -> Nat]
  BY <1>1, <1>2, <1>3 DEF Turns
<1> QED
  BY <1>0, <1>1, <1>4, <1>5, OthersStay

(* What the outline says of the instruction that t is at. *)
LEMMA CodeHere ==
  ASSUME NEW t \in Thread
  PROVE  CodeOf(program, t)[pc[t]] = At(t)
BY DEF CodeOf, At

LEMMA LocksHere ==
  ASSUME TypeOK, NEW t \in Thread, ~Ended(t), NEW m \in Mutex
  PROVE  LET before == Depth(t, m)
             here == At(t).op \in {"lock", "unlock"} \cup Waits /\ At(t).at = m
         IN /\ At(t).op = "lock" /\ here =>
                 before = 0 \/ (before = 1 /\ m \in Recursive(program))
            /\ At(t).op = "unlock" /\ here => before > 0
            /\ At(t).op = "std_lock" => before = 0
            /\ At(t).op \in Waits => before = IF here THEN 1 ELSE 0
            /\ \A j \in GoesTo(program, t, pc[t]) :
                 DepthAt(program, t, m, j) =
                   CASE At(t).op = "std_lock" \/ (At(t).op = "lock" /\ here) -> before + 1
                     [] At(t).op \in {"unlock", "wait_until"} /\ here -> before - 1
                     [] OTHER -> before
<1>1. SoundLocks(program, t, pc[t])
  BY SoundHere DEF Sound
<1> QED
  BY <1>1, CodeHere DEF SoundLocks, Depth

LEMMA DepthNat ==
  ASSUME NEW p, NEW t, NEW m, NEW i
  PROVE  DepthAt(p, t, m, i) \in 0 .. 2
BY DEF DepthAt

LEMMA SamePlace ==
  ASSUME program' = program, NEW u \in Thread, pc'[u] = pc[u]
  PROVE  /\ IsAt(u, Waits)' <=> IsAt(u, Waits)
         /\ IsAt(u, {"pop"})' <=> IsAt(u, {"pop"})
         /\ IsAt(u, Initialises)' <=> IsAt(u, Initialises)
         /\ IsAt(u, {"once_done"})' <=> IsAt(u, {"once_done"})
         /\ IsAt(u, {"read"})' <=> IsAt(u, {"read"})
         /\ \A m \in Mutex : Depth(u, m)' = Depth(u, m)
<1>1. Ended(u)' = Ended(u) /\ At(u)' = At(u)
  BY DEF Ended, At
<1> QED
  BY <1>1 DEF IsAt, Initialises, Waits, Depth

LEMMA OthersHold ==
  ASSUME TypeOK, LocksFit, NEW t \in Thread, Turns(t), NEW u \in Thread \ {t},
         asleep' \subseteq asleep \cup {t},
         \A m \in Mutex : \/ owner'[m] = owner[m] /\ depth'[m] = depth[m]
                          \/ owner[m] \in {NoThread, t} /\ owner'[m] \in {NoThread, t}
  PROVE  HoldsItsLocks(u)'
<1>1. HoldsItsLocks(u) /\ NoThread # u
  BY ListingsAssumption DEF LocksFit, ConstantsAssumption
<1>2. pc'[u] = pc[u] /\ program' = program
  BY OthersStay DEF Turns
<1>3. /\ IsAt(u, Waits)' <=> IsAt(u, Waits)
      /\ \A m \in Mutex : Depth(u, m)' = Depth(u, m)
  BY <1>2, SamePlace
<1> QED
  BY <1>1, <1>3 DEF HoldsItsLocks

LEMMA AwakeHere ==
  ASSUME LocksFit, NEW t \in Thread, t \in asleep
  PROVE  At(t).op \in Waits
BY DEF LocksFit, HoldsItsLocks, IsAt

LEMMA HeldHere ==
  ASSUME TypeOK, LocksFit, NEW t \in Thread, ~Ended(t), At(t).op \notin Waits, NEW m \in Mutex
  PROVE  owner[m] = t <=> Depth(t, m) > 0
BY DEF LocksFit, HoldsItsLocks, IsAt

LEMMA QuietKeepsLocks ==
  ASSUME TypeOK, LocksFit, NEW t \in Thread, Turns(t), At(t).op \notin Waiting
  PROVE  LocksFit'
<1>0. ~Ended(t) /\ UNCHANGED locks /\ asleep' \subseteq asleep /\ At(t).op \notin Waits
  BY DEF Turns, Waiting
<1>1. \A m \in Mutex : Depth(t, m)' = Depth(t, m)
  <2>1. program' = program
    BY DEF Turns
  <2>2. CASE pc'[t] = pc[t]
    BY <2>1, <2>2 DEF Depth
  <2>3. CASE pc'[t] \in GoesTo(program, t, pc[t])
    BY <2>1, <2>3, <1>0, LocksHere DEF Depth, Waiting
  <2> QED
    BY <2>2, <2>3, Arrives
<1>2. HoldsItsLocks(t)'
  BY <1>0, <1>1, AwakeHere DEF LocksFit, HoldsItsLocks, IsAt, locks
<1>3. ASSUME NEW u \in Thread \ {t} PROVE HoldsItsLocks(u)'
  BY <1>0, OthersHold DEF locks
<1> QED
  BY <1>2, <1>3 DEF LocksFit

LocksTyped ==
  /\ owner \in [Mutex -> Thread \cup {NoThread}]
  /\ depth \in [Mutex -> 0 .. 2]
  /\ \A m \in Mutex : owner[m] = NoThread <=> depth[m] = 0
  /\ asleep \subseteq Thread
  /\ \A m \in Mutex : owner[m] \notin asleep

LEMMA QuietKeepsTypes ==
  ASSUME TypeOK, NEW t \in Thread, Turns(t), At(t).op \notin Waiting
  PROVE  LocksTyped'
BY DEF LocksTyped, TypeOK, Turns, locks

LEMMA LockEffect ==
  ASSUME TypeOK, LocksFit, NEW t \in Thread, Turns(t), DoLock(t)
  PROVE  LocksTyped' /\ LocksFit'
<1> DEFINE m == At(t).at
<1>1. /\ At(t).op = "lock" /\ ~Ended(t) /\ m \in Mutex
      /\ owner' = [owner EXCEPT ![m] = t] /\ depth' = [depth EXCEPT ![m] = @ + 1]
      /\ MayLock(t, m) /\ UNCHANGED asleep /\ program' = program
      /\ pc' = [pc EXCEPT ![t] = pc[t] + 1]
  <2>1. At(t).op = "lock" /\ ~Ended(t)
    BY DEF DoLock, IsAt
  <2>2. m \in Mutex
    BY <2>1, SoundHere, CodeHere DEF Sound, SoundTypes
  <2> QED
    BY <2>1, <2>2 DEF DoLock, GoOn, GoTo, cond
<1> HIDE DEF m
<1>2. pc[t] + 1 \in GoesTo(program, t, pc[t]) /\ pc'[t] = pc[t] + 1
  BY <1>1, CodeHere DEF GoesTo, Branches, TypeOK
<1>3. \A n \in Mutex : Depth(t, n)' = IF n = m THEN Depth(t, n) + 1 ELSE Depth(t, n)
  BY <1>1, <1>2, LocksHere DEF Depth, m
<1>4. \A n \in Mutex : owner[n] = t <=> Depth(t, n) > 0
  BY <1>1, HeldHere DEF Waits
<1>5. Depth(t, m) = 0 \/ (Depth(t, m) = 1 /\ m \in Recursive(program))
  BY <1>1, LocksHere DEF m
<1>6. t \notin asleep /\ t # NoThread
  BY <1>1, AwakeHere, ListingsAssumption DEF Waits, ConstantsAssumption
<1>7. owner \in [Mutex -> Thread \cup {NoThread}] /\ depth \in [Mutex -> 0 .. 2]
      /\ (\A n \in Mutex : owner[n] = NoThread <=> depth[n] = 0)
      /\ asleep \subseteq Thread /\ (\A n \in Mutex : owner[n] \notin asleep)
  BY DEF TypeOK
<1>8. owner[m] \in {NoThread, t} /\ depth[m] = Depth(t, m)
  <2>1. owner[m] = t => depth[m] = Depth(t, m)
    BY <1>1 DEF LocksFit, HoldsItsLocks
  <2>2. Depth(t, m) \in 0 .. 2
    BY DepthNat DEF Depth
  <2> QED
    BY <1>1, <1>4, <1>5, <1>7, <2>1, <2>2 DEF MayLock
<1>9. LocksTyped'
  BY <1>1, <1>5, <1>6, <1>7, <1>8 DEF LocksTyped
<1>10. HoldsItsLocks(t)'
  BY <1>1, <1>3, <1>4, <1>6, <1>7, <1>8, DepthNat DEF LocksFit, HoldsItsLocks, Depth
<1>11. ASSUME NEW u \in Thread \ {t} PROVE HoldsItsLocks(u)'
  BY <1>1, <1>7, <1>8, OthersHold
<1> QED
  BY <1>9, <1>10, <1>11 DEF LocksFit

LEMMA UnlockEffect ==
  ASSUME TypeOK, LocksFit, NEW t \in Thread, Turns(t), DoUnlock(t)
  PROVE  LocksTyped' /\ LocksFit'
<1> DEFINE m == At(t).at
<1>1. /\ At(t).op = "unlock" /\ ~Ended(t) /\ m \in Mutex
      /\ owner' = [owner EXCEPT ![m] = IF depth[m] = 1 THEN NoThread ELSE @]
      /\ depth' = [depth EXCEPT ![m] = @ - 1]
      /\ UNCHANGED asleep /\ program' = program
      /\ pc' = [pc EXCEPT ![t] = pc[t] + 1]
  <2>1. At(t).op = "unlock" /\ ~Ended(t)
    BY DEF DoUnlock, IsAt
  <2>2. m \in Mutex
    BY <2>1, SoundHere, CodeHere DEF Sound, SoundTypes
  <2> QED
    BY <2>1, <2>2 DEF DoUnlock, GoOn, GoTo, cond
<1> HIDE DEF m
<1>2. pc[t] + 1 \in GoesTo(program, t, pc[t]) /\ pc'[t] = pc[t] + 1
  BY <1>1, CodeHere DEF GoesTo, Branches, TypeOK
<1>3. \A n \in Mutex : Depth(t, n)' = IF n = m THEN Depth(t, n) - 1 ELSE Depth(t, n)
  BY <1>1, <1>2, LocksHere DEF Depth, m
<1>4. \A n \in Mutex : owner[n] = t <=> Depth(t, n) > 0
  BY <1>1, HeldHere DEF Waits
<1>5. Depth(t, m) > 0
  BY <1>1, LocksHere DEF m
<1>6. t \notin asleep /\ t # NoThread /\ NoThread \notin Thread
  BY <1>1, AwakeHere, ListingsAssumption DEF Waits, ConstantsAssumption
<1>7. owner \in [Mutex -> Thread \cup {NoThread}] /\ depth \in [Mutex -> 0 .. 2]
      /\ (\A n \in Mutex : owner[n] = NoThread <=> depth[n] = 0)
      /\ asleep \subseteq Thread /\ (\A n \in Mutex : owner[n] \notin asleep)
  BY DEF TypeOK
<1>8. owner[m] = t /\ depth[m] = Depth(t, m)
  BY <1>1, <1>4, <1>5 DEF LocksFit, HoldsItsLocks
<1>9. LocksTyped'
  BY <1>1, <1>5, <1>6, <1>7, <1>8 DEF LocksTyped
<1>10. HoldsItsLocks(t)'
  BY <1>1, <1>3, <1>4, <1>6, <1>7, <1>8, DepthNat DEF LocksFit, HoldsItsLocks, Depth
<1>11. ASSUME NEW u \in Thread \ {t} PROVE HoldsItsLocks(u)'
  BY <1>1, <1>7, <1>8, OthersHold
<1> QED
  BY <1>9, <1>10, <1>11 DEF LocksFit

LEMMA StdLockEffect ==
  ASSUME TypeOK, LocksFit, NEW t \in Thread, Turns(t), DoStdLock(t)
  PROVE  LocksTyped' /\ LocksFit'
<1>1. /\ At(t).op = "std_lock" /\ ~Ended(t)
      /\ owner' = [n \in Mutex |-> t] /\ depth' = [n \in Mutex |-> depth[n] + 1]
      /\ (\A n \in Mutex : MayLock(t, n)) /\ UNCHANGED asleep /\ program' = program
      /\ pc' = [pc EXCEPT ![t] = pc[t] + 1]
  BY DEF DoStdLock, IsAt, GoOn, GoTo, cond
<1>2. pc[t] + 1 \in GoesTo(program, t, pc[t]) /\ pc'[t] = pc[t] + 1
  BY <1>1, CodeHere DEF GoesTo, Branches, TypeOK
<1>3. \A n \in Mutex : Depth(t, n) = 0 /\ Depth(t, n)' = 1
  BY <1>1, <1>2, LocksHere DEF Depth
<1>4. \A n \in Mutex : owner[n] = t <=> Depth(t, n) > 0
  BY <1>1, HeldHere DEF Waits
<1>6. t \notin asleep /\ t # NoThread
  BY <1>1, AwakeHere, ListingsAssumption DEF Waits, ConstantsAssumption
<1>7. owner \in [Mutex -> Thread \cup {NoThread}] /\ depth \in [Mutex -> 0 .. 2]
      /\ (\A n \in Mutex : owner[n] = NoThread <=> depth[n] = 0)
      /\ asleep \subseteq Thread /\ (\A n \in Mutex : owner[n] \notin asleep)
  BY DEF TypeOK
<1>8. \A n \in Mutex : owner[n] = NoThread /\ depth[n] = 0
  BY <1>1, <1>3, <1>4, <1>7 DEF MayLock
<1>9. LocksTyped'
  BY <1>1, <1>6, <1>7, <1>8 DEF LocksTyped
<1>10. HoldsItsLocks(t)'
  BY <1>1, <1>3, <1>6, <1>8 DEF HoldsItsLocks
<1>11. ASSUME NEW u \in Thread \ {t} PROVE HoldsItsLocks(u)'
  BY <1>1, <1>7, <1>8, OthersHold
<1> QED
  BY <1>9, <1>10, <1>11 DEF LocksFit

LEMMA WaitEffect ==
  ASSUME TypeOK, LocksFit, NEW t \in Thread, Turns(t), DoWait(t)
  PROVE  LocksTyped' /\ LocksFit'
<1> DEFINE m == At(t).at
<1>1. /\ At(t).op \in Waits /\ ~Ended(t) /\ m \in Mutex
      /\ owner[m] = t /\ program' = program
  <2>1. At(t).op \in Waits /\ ~Ended(t)
    BY DEF DoWait, IsAt, Waits
  <2>2. m \in Mutex
    BY <2>1, SoundHere, CodeHere DEF Sound, SoundTypes
  <2> QED
    BY <2>1, <2>2 DEF DoWait
<1>2. \/ /\ At(t).op = "wait" /\ UNCHANGED <<owner, depth, asleep>>
         /\ pc' = [pc EXCEPT ![t] = pc[t] + 1]
      \/ /\ owner' = [owner EXCEPT ![m] = NoThread] /\ depth' = [depth EXCEPT ![m] = 0]
         /\ asleep' = asleep \cup {t} /\ UNCHANGED pc
  BY DEF DoWait, GoOn, GoTo
<1> HIDE DEF m
<1>3. \A n \in Mutex : Depth(t, n) = IF n = m THEN 1 ELSE 0
  BY <1>1, LocksHere DEF m
<1>6. t # NoThread /\ NoThread \notin Thread
  BY ListingsAssumption DEF ConstantsAssumption
<1>7. owner \in [Mutex -> Thread \cup {NoThread}] /\ depth \in [Mutex -> 0 .. 2]
      /\ (\A n \in Mutex : owner[n] = NoThread <=> depth[n] = 0)
      /\ asleep \subseteq Thread /\ (\A n \in Mutex : owner[n] \notin asleep)
  BY DEF TypeOK
<1>8. \A n \in Mutex : owner[n] = t => n = m /\ t \notin asleep /\ depth[n] = 1
  BY <1>3 DEF LocksFit, HoldsItsLocks
<1>9. LocksTyped'
  <2>1. CASE UNCHANGED <<owner, depth, asleep>>
    BY <1>7, <2>1 DEF LocksTyped
  <2>2. CASE /\ owner' = [owner EXCEPT ![m] = NoThread] /\ depth' = [depth EXCEPT ![m] = 0]
             /\ asleep' = asleep \cup {t}
    BY <1>1, <1>6, <1>7, <1>8, <2>2 DEF LocksTyped
  <2> QED
    BY <1>2, <2>1, <2>2
<1>12. HoldsItsLocks(t)'
  <2>1. CASE pc' = pc
    <3>1. IsAt(t, Waits)' /\ \A n \in Mutex : Depth(t, n)' = Depth(t, n)
      <4>1. pc'[t] = pc[t] /\ IsAt(t, Waits)
        BY <1>1, <2>1 DEF IsAt
      <4> QED
        BY <1>1, <4>1, SamePlace
    <3>2. CASE UNCHANGED <<owner, depth, asleep>>
      BY <1>3, <1>8, <3>1, <3>2 DEF HoldsItsLocks
    <3>3. CASE /\ owner' = [owner EXCEPT ![m] = NoThread] /\ depth' = [depth EXCEPT ![m] = 0]
               /\ asleep' = asleep \cup {t}
      BY <1>1, <1>3, <1>6, <1>7, <1>8, <3>1, <3>3 DEF HoldsItsLocks
    <3> QED
      BY <1>2, <3>2, <3>3
  <2>2. CASE pc' = [pc EXCEPT ![t] = pc[t] + 1] /\ At(t).op = "wait"
              /\ UNCHANGED <<owner, depth, asleep>>
    <3>1. pc[t] + 1 \in GoesTo(program, t, pc[t]) /\ pc'[t] = pc[t] + 1
      BY <1>1, <2>2, CodeHere DEF GoesTo, Branches, TypeOK
    <3>2. \A n \in Mutex : Depth(t, n)' = Depth(t, n)
      BY <1>1, <2>2, <3>1, LocksHere DEF Depth
    <3> QED
      BY <1>1, <1>3, <1>8, <2>2, <3>2 DEF HoldsItsLocks
  <2> QED
    BY <1>2, <2>1, <2>2
<1>13. ASSUME NEW u \in Thread \ {t} PROVE HoldsItsLocks(u)'
  BY <1>1, <1>2, <1>7, OthersHold
<1> QED
  BY <1>9, <1>12, <1>13 DEF LocksFit

LEMMA RelockEffect ==
  ASSUME TypeOK, LocksFit, NEW t \in Thread, Turns(t), Relock(t)
  PROVE  LocksTyped' /\ LocksFit'
<1> DEFINE m == At(t).at
<1>1. /\ At(t).op \in Waits /\ ~Ended(t) /\ m \in Mutex /\ t \notin asleep
      /\ owner[m] = NoThread /\ program' = program /\ UNCHANGED <<asleep, pc>>
      /\ owner' = [owner EXCEPT ![m] = t] /\ depth' = [depth EXCEPT ![m] = 1]
  <2>1. At(t).op \in Waits /\ ~Ended(t)
    BY DEF Relock, IsAt, Waits
  <2>2. m \in Mutex
    BY <2>1, SoundHere, CodeHere DEF Sound, SoundTypes
  <2> QED
    BY <2>1, <2>2 DEF Relock, cond
<1> HIDE DEF m
<1>3. \A n \in Mutex : Depth(t, n) = IF n = m THEN 1 ELSE 0
  BY <1>1, LocksHere DEF m
<1>6. t # NoThread /\ NoThread \notin Thread
  BY ListingsAssumption DEF ConstantsAssumption
<1>7. owner \in [Mutex -> Thread \cup {NoThread}] /\ depth \in [Mutex -> 0 .. 2]
      /\ (\A n \in Mutex : owner[n] = NoThread <=> depth[n] = 0)
      /\ asleep \subseteq Thread /\ (\A n \in Mutex : owner[n] \notin asleep)
  BY DEF TypeOK
<1>9. LocksTyped'
  BY <1>1, <1>6, <1>7 DEF LocksTyped
<1>10. \A n \in Mutex : Depth(t, n)' = Depth(t, n)
  BY <1>1, SamePlace
<1>11. \A n \in Mutex : owner[n] = t => n = m
  BY <1>3 DEF LocksFit, HoldsItsLocks
<1>12. HoldsItsLocks(t)'
  BY <1>1, <1>3, <1>6, <1>7, <1>10, <1>11 DEF HoldsItsLocks
<1>13. ASSUME NEW u \in Thread \ {t} PROVE HoldsItsLocks(u)'
  BY <1>1, <1>7, OthersHold
<1> QED
  BY <1>9, <1>12, <1>13 DEF LocksFit

LEMMA TimeOutEffect ==
  ASSUME TypeOK, LocksFit, NEW t \in Thread, Turns(t), TimeOut(t)
  PROVE  LocksTyped' /\ LocksFit'
<1>1. /\ At(t).op = "wait_until" /\ ~Ended(t) /\ t \in asleep
      /\ program' = program /\ UNCHANGED <<owner, depth>> /\ asleep' = asleep \ {t}
      /\ pc' = [pc EXCEPT ![t] = pc[t] + 1]
  BY DEF TimeOut, IsAt, locks, GoOn, GoTo
<1>2. pc[t] + 1 \in GoesTo(program, t, pc[t]) /\ pc'[t] = pc[t] + 1
  BY <1>1, CodeHere DEF GoesTo, Branches, TypeOK
<1>3. \A n \in Mutex : Depth(t, n)' = 0
  <2>1. ASSUME NEW n \in Mutex PROVE Depth(t, n)' = 0
    <3>1. CASE At(t).at = n
      BY <1>1, <1>2, <3>1, LocksHere DEF Depth, Waits
    <3>2. CASE At(t).at # n
      BY <1>1, <1>2, <3>2, LocksHere DEF Depth, Waits
    <3> QED
      BY <3>1, <3>2
  <2> QED
    BY <2>1
<1>7. owner \in [Mutex -> Thread \cup {NoThread}] /\ depth \in [Mutex -> 0 .. 2]
      /\ (\A n \in Mutex : owner[n] = NoThread <=> depth[n] = 0)
      /\ asleep \subseteq Thread /\ (\A n \in Mutex : owner[n] \notin asleep)
  BY DEF TypeOK
<1>9. LocksTyped'
  BY <1>1, <1>7 DEF LocksTyped
<1>12. HoldsItsLocks(t)'
  BY <1>1, <1>3, <1>7 DEF HoldsItsLocks
<1>13. ASSUME NEW u \in Thread \ {t} PROVE HoldsItsLocks(u)'
  BY <1>1, OthersHold
<1> QED
  BY <1>9, <1>12, <1>13 DEF LocksFit

LEMMA WakeKeepsLocks ==
  ASSUME TypeOK, LocksFit, NEW t \in Thread, WakeSpuriously(t)
  PROVE  LocksTyped' /\ LocksFit'
<1>1. UNCHANGED <<program, pc, owner, depth>> /\ asleep' \subseteq asleep
  BY DEF WakeSpuriously, locks
<1>2. LocksTyped'
  BY <1>1 DEF TypeOK, LocksTyped
<1>3. ASSUME NEW u \in Thread PROVE HoldsItsLocks(u)'
  BY <1>1, SamePlace DEF LocksFit, HoldsItsLocks
<1> QED
  BY <1>2, <1>3 DEF LocksFit

LEMMA StepKeepsLocks ==
  ASSUME TypeOK, LocksFit, NEW t \in Thread, Step(t)
  PROVE  LocksTyped' /\ LocksFit'
<1>1. Turns(t)
  BY StepTurn
<1>2. CASE At(t).op \notin Waiting
  BY <1>1, <1>2, QuietKeepsTypes, QuietKeepsLocks
<1>3. CASE At(t).op \in Waiting
  <2>1. DoLock(t) \/ DoUnlock(t) \/ DoStdLock(t) \/ DoWait(t) \/ Relock(t) \/ TimeOut(t)
    BY <1>3 DEF Step, Waiting, Waits, IsAt, DoStart, DoDefer, DoJoin, DoScope, DoAccess,
                DoNotify, DoPush, DoPop, DoBranch, DoGoTo, DoSetValue, DoGet, DoOnce, DoInit
  <2> QED
    BY <1>1, <2>1, LockEffect, UnlockEffect, StdLockEffect, WaitEffect, RelockEffect,
       TimeOutEffect
<1> QED
  BY <1>2, <1>3

LEMMA PopsHere ==
  ASSUME TypeOK, NEW t \in Thread, ~Ended(t)
  PROVE  /\ At(t).op = "pop" => t = "a"
         /\ \A j \in GoesTo(program, t, pc[t]) \cap Places(program, t) :
              Code[program][t][j].op = "pop" =>
                At(t).op = "wait" \/ (At(t).op = "unless_empty" /\ j = At(t).place)
         /\ At(t).op = "unless_empty" => At(t).place # pc[t] + 1
<1>1. SoundPops(program, t, pc[t])
  BY SoundHere DEF Sound
<1> QED
  BY <1>1, CodeHere DEF SoundPops, CodeOf

(* A thread that arrives at a pop has seen that the queue is not empty. *)
LEMMA ArrivesToPop ==
  ASSUME TypeOK, NEW t \in Thread, Step(t), IsAt(t, {"pop"})'
  PROVE  queue # <<>> /\ UNCHANGED queue
<1>1. Turns(t)
  BY StepTurn
<1>2. ~Ended(t) /\ program' = program
  BY <1>1 DEF Turns
<1>3. pc'[t] \in 1 .. Len(Code[program][t]) + 1 /\ pc'[t] <= Len(Code[program][t])
  <2>1. Len(Code[program][t]) \in Nat
    BY CodeLength DEF TypeOK
  <2>2. ~(pc'[t] > Len(Code[program][t]))
    BY <1>2 DEF IsAt, Ended
  <2> QED
    BY <1>1, <1>2, <2>1, <2>2, PlacesFit
<1>4. Code[program][t][pc'[t]].op = "pop"
  BY <1>2 DEF IsAt, At
<1>5. pc'[t] # pc[t] \/ At(t).op \notin {"get"} \cup Waits
  BY <1>4 DEF At, Waits
<1>6. pc'[t] \in GoesTo(program, t, pc[t]) \cap Places(program, t)
  <2>1. Len(Code[program][t]) \in Nat
    BY CodeLength DEF TypeOK
  <2> QED
    BY <1>1, <1>3, <1>5, <2>1, Arrives DEF Places, CodeOf
<1>7. CASE At(t).op = "wait"
  <2>1. DoWait(t) \/ Relock(t)
    BY <1>7 DEF Step, IsAt, DoStart, DoDefer, DoJoin, DoScope, DoAccess, DoLock, DoUnlock,
                DoStdLock, DoNotify, DoPush, DoPop, DoBranch, DoGoTo, DoSetValue, DoGet, DoOnce,
                DoInit, TimeOut
  <2>2. pc' # pc
    BY <1>4, <1>7 DEF At
  <2> QED
    BY <2>1, <2>2 DEF DoWait, Relock, items
<1>8. CASE At(t).op = "unless_empty" /\ pc'[t] = At(t).place
  <2>1. DoBranch(t)
    BY <1>8 DEF Step, IsAt, DoStart, DoDefer, DoJoin, DoScope, DoAccess, DoLock, DoUnlock,
                DoStdLock, DoNotify, DoPush, DoPop, DoGoTo, DoSetValue, DoGet, DoOnce,
                DoInit, DoWait, Relock, TimeOut
  <2>2. At(t).place # pc[t] + 1
    BY <1>2, <1>8, PopsHere
  <2>3. Leaves(t)
    BY <1>8, <2>1, <2>2 DEF DoBranch, GoTo, TypeOK
  <2> QED
    BY <1>8, <2>1, <2>3 DEF DoBranch, Leaves, items
<1> QED
  BY <1>2, <1>4, <1>6, <1>7, <1>8, PopsHere

LEMMA QueueStep ==
  ASSUME TypeOK, PopsFit, NEW t \in Thread, Step(t)
  PROVE  /\ queue' \in Seq(1 .. 3) /\ taken' \in Seq(1 .. 3)
         /\ \/ queue' = queue
            \/ queue' # <<>>
            \/ IsAt(t, {"pop"})
<1>0. queue \in Seq(1 .. 3) /\ taken \in Seq(1 .. 3) /\ ~Ended(t)
  BY StepTurn DEF TypeOK, Turns
<1>1. CASE DoPush(t)
  <2>1. At(t).op = "push" /\ queue' = Append(queue, At(t).at) /\ UNCHANGED taken
    BY <1>1 DEF DoPush, IsAt
  <2>2. At(t).at \in 1 .. 3
    BY <1>0, <2>1, SoundHere, CodeHere DEF Sound, SoundTypes
  <2> QED
    BY <1>0, <2>1, <2>2
<1>2. CASE DoPop(t)
  <2>1. queue # <<>> /\ IsAt(t, {"pop"})
    BY <1>2 DEF PopsFit, DoPop
  <2>2. queue' = Tail(queue) /\ taken' = Append(taken, Head(queue))
    BY <1>2 DEF DoPop
  <2> QED
    BY <1>0, <2>1, <2>2
<1>3. CASE ~DoPush(t) /\ ~DoPop(t)
  <2>1. UNCHANGED items
    BY <1>3 DEF Step, DoStart, DoDefer, DoJoin, DoScope, DoAccess, DoLock, DoUnlock,
                DoStdLock, DoNotify, DoBranch, DoGoTo, DoSetValue, DoGet, DoOnce,
                DoInit, DoWait, Relock, TimeOut
  <2> QED
    BY <1>0, <2>1 DEF items
<1> QED
  BY <1>1, <1>2, <1>3

LEMMA StepKeepsPops ==
  ASSUME TypeOK, PopsFit, NEW t \in Thread, Step(t)
  PROVE  PopsFit'
<1>1. ASSUME NEW u \in Thread, IsAt(u, {"pop"})' PROVE queue' # <<>>
  <2>1. CASE u = t
    BY <1>1, <2>1, ArrivesToPop
  <2>2. CASE u # t
    <3>1. pc'[u] = pc[u] /\ program' = program /\ ~Ended(t)
      BY <2>2, StepTurn, OthersStay DEF Turns
    <3>2. IsAt(u, {"pop"}) /\ ~Ended(u)
      BY <1>1, <3>1, SamePlace DEF IsAt
    <3>3. u = "a"
      BY <3>2, PopsHere DEF IsAt
    <3>4. ~IsAt(t, {"pop"})
      BY <2>2, <3>1, <3>3, PopsHere DEF IsAt
    <3> QED
      BY <3>2, <3>4, QueueStep DEF PopsFit
  <2> QED
    BY <2>1, <2>2
<1> QED
  BY <1>1 DEF PopsFit

LEMMA OnceHere ==
  ASSUME TypeOK, NEW t \in Thread, ~Ended(t)
  PROVE  LET code == CodeOf(program, t)
             i == pc[t]
         IN /\ At(t).op \in {"once"} \cup Initialises =>
                 CallsOnce(program) /\ i + 1 \in Places(program, t)
            /\ At(t).op = "once" => code[i + 1].op = "init" /\ At(t).place > i + 1
            /\ At(t).op = "init" => code[i + 1].op = "once_done"
            /\ \A j \in GoesTo(program, t, i) \cap Places(program, t) :
                 /\ code[j].op \in Initialises =>
                      At(t).op = "init" \/ (At(t).op = "once" /\ j = i + 1)
                 /\ CallsOnce(program) /\ code[j].op = "read" =>
                      At(t).op = "once_done" \/ (At(t).op = "once" /\ j # i + 1)
<1>1. SoundOnce(program, t, pc[t])
  BY SoundHere DEF Sound
<1> QED
  BY <1>1, CodeHere DEF SoundOnce

LEMMA ArrivesAt ==
  ASSUME TypeOK, NEW t \in Thread, Turns(t), pc'[t] \in GoesTo(program, t, pc[t]), ~Ended(t)'
  PROVE  /\ pc'[t] \in GoesTo(program, t, pc[t]) \cap Places(program, t)
         /\ At(t)' = CodeOf(program, t)[pc'[t]]
<1>1. program' = program
  BY DEF Turns
<1>2. Len(Code[program][t]) \in Nat
  BY CodeLength DEF TypeOK
<1>3. pc'[t] \in 1 .. Len(Code[program][t]) + 1
  BY <1>1, PlacesFit
<1>4. ~(pc'[t] > Len(Code[program][t]))
  BY <1>1 DEF Ended
<1> QED
  BY <1>1, <1>2, <1>3, <1>4 DEF Places, CodeOf, At

LEMMA QuietKeepsOnce ==
  ASSUME TypeOK, OnceFits, NEW t \in Thread, Turns(t), At(t).op \notin {"once"} \cup Initialises
  PROVE  OnceFits'
<1>1. ~Ended(t) /\ program' = program /\ UNCHANGED <<once, inits>>
  BY DEF Turns, flag
<1>2. ~IsAt(t, Initialises)' /\ ~IsAt(t, {"once_done"})'
  <2>1. CASE pc'[t] = pc[t]
    BY <1>1, <2>1, SamePlace DEF IsAt, Initialises
  <2>2. CASE pc'[t] \in GoesTo(program, t, pc[t])
    BY <1>1, <2>2, ArrivesAt, OnceHere DEF IsAt, Initialises
  <2> QED
    BY <2>1, <2>2, Arrives
<1>3. ~IsAt(t, Initialises) /\ ~IsAt(t, {"once_done"})
  BY DEF IsAt, Initialises
<1>4. CallsOnce(program) /\ IsAt(t, {"read"})' => once = "done"
  <2>1. CASE pc'[t] = pc[t]
    BY <1>1, <2>1, SamePlace DEF OnceFits
  <2>2. CASE pc'[t] \in GoesTo(program, t, pc[t])
    BY <1>1, <2>2, ArrivesAt, OnceHere DEF IsAt, Initialises
  <2> QED
    BY <2>1, <2>2, Arrives
<1>5. ASSUME NEW u \in Thread \ {t}
      PROVE  /\ IsAt(u, Initialises)' <=> IsAt(u, Initialises)
             /\ IsAt(u, {"once_done"})' <=> IsAt(u, {"once_done"})
             /\ IsAt(u, {"read"})' <=> IsAt(u, {"read"})
  BY <1>1, SamePlace, OthersStay
<1>6. \A u \in Thread : /\ IsAt(u, Initialises)' <=> IsAt(u, Initialises)
                        /\ IsAt(u, {"once_done"})' <=> IsAt(u, {"once_done"})
  BY <1>2, <1>3, <1>5
<1> QED
  BY <1>1, <1>4, <1>5, <1>6 DEF OnceFits

LEMMA OnceEffect ==
  ASSUME TypeOK, OnceFits, NEW t \in Thread, Turns(t), DoOnce(t)
  PROVE  OnceFits' /\ once' \in {"new", "running", "done"} /\ inits' \in Nat
<1>1. /\ At(t).op = "once" /\ ~Ended(t) /\ program' = program /\ once # "running"
      /\ inits' = inits /\ once' = IF once = "new" THEN "running" ELSE once
      /\ pc' = [pc EXCEPT ![t] = IF once = "new" THEN pc[t] + 1 ELSE At(t).place]
  BY DEF DoOnce, IsAt, GoTo
<1>2. /\ pc'[t] = IF once = "new" THEN pc[t] + 1 ELSE At(t).place
      /\ pc'[t] \in GoesTo(program, t, pc[t])
  BY <1>1, CodeHere DEF GoesTo, Branches, TypeOK
<1>3. /\ pc[t] + 1 \in Places(program, t) /\ CodeOf(program, t)[pc[t] + 1].op = "init"
      /\ At(t).place > pc[t] + 1 /\ CallsOnce(program) /\ pc[t] \in Nat
  BY <1>1, OnceHere, SoundHere
<1>4. once \in {"new", "running", "done"} /\ inits \in Nat
  BY DEF TypeOK
<1>5. ~IsAt(t, Initialises) /\ ~IsAt(t, {"once_done"})
  BY <1>1 DEF IsAt, Initialises
<1>6. ASSUME NEW u \in Thread \ {t}
      PROVE  /\ IsAt(u, Initialises)' <=> IsAt(u, Initialises)
             /\ IsAt(u, {"once_done"})' <=> IsAt(u, {"once_done"})
             /\ IsAt(u, {"read"})' <=> IsAt(u, {"read"})
  BY <1>1, SamePlace, OthersStay
<1>7. \A u \in Thread : ~IsAt(u, Initialises) /\ ~IsAt(u, {"once_done"})
  <2>1. \A u \in Thread : ~IsAt(u, Initialises)
    BY <1>1 DEF OnceFits
  <2> QED
    BY <2>1 DEF IsAt, Initialises
<1>8. CASE once = "new"
  <2>1. pc'[t] \in Places(program, t) /\ At(t)'.op = "init" /\ ~Ended(t)'
    BY <1>1, <1>2, <1>3, <1>8, CodeLength DEF At, Ended, CodeOf, Places, TypeOK
  <2>2. IsAt(t, Initialises)' /\ ~IsAt(t, {"once_done"})' /\ ~IsAt(t, {"read"})'
    BY <2>1 DEF IsAt, Initialises
  <2>3. inits = 0 /\ \A u \in Thread : ~IsAt(u, {"read"})
    BY <1>3, <1>7, <1>8 DEF OnceFits
  <2> QED
    BY <1>1, <1>4, <1>6, <1>7, <1>8, <2>2, <2>3 DEF OnceFits
<1>9. CASE once = "done"
  <2>1. ~IsAt(t, Initialises)'
    <3>1. CASE Ended(t)'
      BY <3>1 DEF IsAt
    <3>2. CASE ~Ended(t)'
      BY <1>1, <1>2, <1>3, <1>9, <3>2, ArrivesAt, OnceHere DEF IsAt, Initialises
    <3> QED
      BY <3>1, <3>2
  <2>2. ~IsAt(t, {"once_done"})'
    BY <2>1 DEF IsAt, Initialises
  <2>3. inits = 1
    BY <1>9 DEF OnceFits
  <2> QED
    BY <1>1, <1>4, <1>6, <1>7, <1>9, <2>1, <2>2, <2>3 DEF OnceFits
<1> QED
  BY <1>1, <1>4, <1>8, <1>9

LEMMA InitEffect ==
  ASSUME TypeOK, OnceFits, NEW t \in Thread, Turns(t), DoInit(t)
  PROVE  OnceFits' /\ once' \in {"new", "running", "done"} /\ inits' \in Nat
<1>1. /\ At(t).op \in Initialises /\ ~Ended(t) /\ program' = program
      /\ IF At(t).op = "init" THEN inits' = inits + 1 /\ once' = once
                              ELSE once' = "done" /\ inits' = inits
      /\ pc' = [pc EXCEPT ![t] = pc[t] + 1]
  BY DEF DoInit, IsAt, GoTo, GoOn, Initialises
<1>2. pc'[t] = pc[t] + 1 /\ pc'[t] \in GoesTo(program, t, pc[t])
  BY <1>1, CodeHere DEF GoesTo, Branches, TypeOK, Initialises
<1>3. pc[t] + 1 \in Places(program, t) /\ CallsOnce(program) /\ pc[t] \in Nat
  BY <1>1, OnceHere, SoundHere
<1>4. once \in {"new", "running", "done"} /\ inits \in Nat
  BY DEF TypeOK
<1>5. IsAt(t, Initialises) /\ once = "running"
  BY <1>1 DEF IsAt, OnceFits
<1>6. ASSUME NEW u \in Thread \ {t}
      PROVE  /\ IsAt(u, Initialises)' <=> IsAt(u, Initialises)
             /\ IsAt(u, {"once_done"})' <=> IsAt(u, {"once_done"})
             /\ IsAt(u, {"read"})' <=> IsAt(u, {"read"})
  BY <1>1, SamePlace, OthersStay
<1>7. \A u \in Thread \ {t} : ~IsAt(u, Initialises) /\ ~IsAt(u, {"once_done"})
  <2>1. \A u \in Thread \ {t} : ~IsAt(u, Initialises)
    BY <1>5 DEF OnceFits
  <2> QED
    BY <2>1 DEF IsAt, Initialises
<1>8. CASE At(t).op = "init"
  <2>1. pc'[t] \in Places(program, t) /\ At(t)'.op = "once_done" /\ ~Ended(t)'
    BY <1>1, <1>2, <1>3, <1>8, CodeLength, OnceHere DEF At, Ended, CodeOf, Places, TypeOK
  <2>2. IsAt(t, Initialises)' /\ IsAt(t, {"once_done"})' /\ ~IsAt(t, {"read"})'
    BY <2>1 DEF IsAt, Initialises
  <2>3. inits = 0 /\ \A u \in Thread : ~IsAt(u, {"read"})
    <3>1. ~IsAt(t, {"once_done"})
      BY <1>8 DEF IsAt
    <3> QED
      BY <1>3, <1>5, <1>7, <3>1 DEF OnceFits
  <2> QED
    BY <1>1, <1>4, <1>5, <1>6, <1>7, <1>8, <2>2, <2>3 DEF OnceFits
<1>9. CASE At(t).op = "once_done"
  <2>1. ~IsAt(t, Initialises)'
    <3>1. CASE Ended(t)'
      BY <3>1 DEF IsAt
    <3>2. CASE ~Ended(t)'
      BY <1>1, <1>2, <1>3, <1>9, <3>2, ArrivesAt, OnceHere DEF IsAt, Initialises
    <3> QED
      BY <3>1, <3>2
  <2>2. ~IsAt(t, {"once_done"})'
    BY <2>1 DEF IsAt, Initialises
  <2>3. inits = 1
    <3>1. IsAt(t, {"once_done"})
      BY <1>1, <1>9 DEF IsAt
    <3> QED
      BY <3>1 DEF OnceFits
  <2> QED
    BY <1>1, <1>4, <1>6, <1>7, <1>9, <2>1, <2>2, <2>3 DEF OnceFits
<1> QED
  BY <1>1, <1>4, <1>8, <1>9 DEF Initialises

LEMMA StepKeepsOnce ==
  ASSUME TypeOK, OnceFits, NEW t \in Thread, Step(t)
  PROVE  OnceFits' /\ once' \in {"new", "running", "done"} /\ inits' \in Nat
<1>1. Turns(t)
  BY StepTurn
<1>2. CASE At(t).op \notin {"once"} \cup Initialises
  <2>1. UNCHANGED <<once, inits>>
    BY <1>1, <1>2 DEF Turns, flag
  <2> QED
    BY <1>1, <1>2, <2>1, QuietKeepsOnce DEF TypeOK
<1>3. CASE At(t).op \in {"once"} \cup Initialises
  <2>1. DoOnce(t) \/ DoInit(t)
    BY <1>3 DEF Step, Initialises, IsAt, DoStart, DoDefer, DoJoin, DoScope, DoAccess, DoLock,
                DoUnlock, DoStdLock, DoNotify, DoPush, DoPop, DoBranch, DoGoTo, DoSetValue,
                DoGet, DoWait, Relock, TimeOut, Waits
  <2> QED
    BY <1>1, <2>1, OnceEffect, InitEffect
<1> QED
  BY <1>2, <1>3

LEMMA TypesHere ==
  ASSUME TypeOK, NEW t \in Thread, ~Ended(t)
  PROVE  /\ At(t).op \in {"start", "async", "join"} =>
              t = "main" /\ At(t).at \in Thread \ {"main"}
         /\ At(t).op \in {"begin", "end"} => t = "main" /\ At(t).at \in Locals
         /\ At(t).op \in {"set_value", "get"} => At(t).at \in Thread
         /\ At(t).op = "get" => t = "main" \/ At(t).at = "main"
         /\ t = "main" => At(t).op \notin Branches \cup {"goto"}
<1>1. SoundTypes(program, t, pc[t])
  BY SoundHere DEF Sound
<1> QED
  BY <1>1, CodeHere DEF SoundTypes

LEMMA LoansHere ==
  ASSUME TypeOK, NEW t \in Thread, ~Ended(t)
  PROVE  LET i == pc[t]
         IN /\ t = "main" =>
                 /\ \A l \in Locals : i + 1 \in ScopeOf(program, l) =>
                      \/ At(t).op = "begin" /\ At(t).at = l
                      \/ i \in ScopeOf(program, l) /\ ~(At(t).op = "end" /\ At(t).at = l)
                 /\ \A u \in Thread : BorrowsAt(program, u) # {} =>
                      /\ At(t).op \in {"start", "async"} /\ At(t).at = u
                           => i + 1 \in LentAt(program, u)
                      /\ At(t).op = "get" /\ At(t).at = u => i \in LentAt(program, u)
                      /\ i \in LentAt(program, u) /\ i + 1 \notin LentAt(program, u) =>
                           At(t).op \in {"join", "get"} /\ At(t).at = u
            /\ t # "main" => \A j \in GoesTo(program, t, i) :
                 j \in BorrowsAt(program, t) => i \in BorrowsAt(program, t)
            /\ At(t).op = "set_value" =>
                 \/ BorrowsAt(program, At(t).at) = {}
                 \/ At(t).at = t /\ i + 1 \notin BorrowsAt(program, t)
            /\ At(t).op \in {"read", "write"} /\ At(t).at \in Locals =>
                 \/ program \in {"local_var_detach", "moving_mutex"}
                 \/ /\ t # "main" /\ i \in BorrowsAt(program, t)
                    /\ LentAt(program, t) \subseteq ScopeOf(program, At(t).at)
<1>1. SoundLoans(program, t, pc[t])
  BY SoundHere DEF Sound
<1> QED
  BY <1>1, CodeHere DEF SoundLoans

(* main goes from place to place. *)
LEMMA MainGoesOn ==
  ASSUME TypeOK, Turns("main")
  PROVE  pc'["main"] = pc["main"] \/ pc'["main"] = pc["main"] + 1
<1>1. "main" \in Thread /\ ~Ended("main")
  BY DEF Thread, Turns
<1>2. GoesTo(program, "main", pc["main"]) = {pc["main"] + 1}
  BY <1>1, TypesHere, CodeHere DEF GoesTo
<1> QED
  BY <1>1, <1>2, Arrives

LEMMA BorrowsInside ==
  ASSUME TypeOK, NEW t \in Thread
  PROVE  /\ BorrowsAt(program, t) \subseteq Places(program, t)
         /\ t = "main" => BorrowsAt(program, t) = {}
BY FitsStart DEF SoundStart

LEMMA StepKeepsScope ==
  ASSUME TypeOK, LoansFit, NEW t \in Thread, Step(t)
  PROVE  /\ scope' \subseteq Locals
         /\ \A l \in Locals : pc'["main"] \in ScopeOf(program', l) => l \in scope'
<1>1. Turns(t) /\ ~Ended(t) /\ program' = program
  BY StepTurn DEF Turns
<1>2. scope \subseteq Locals
  BY DEF TypeOK
<1>3. \A l \in Locals : pc["main"] \in ScopeOf(program, l) => l \in scope
  BY DEF LoansFit
<1>4. CASE t # "main"
  <2>1. UNCHANGED scope
    BY <1>1, <1>4, TypesHere DEF Turns
  <2>2. pc'["main"] = pc["main"]
    BY <1>1, <1>4, OthersStay DEF Thread
  <2> QED
    BY <1>1, <1>2, <1>3, <2>1, <2>2
<1>5. CASE t = "main" /\ pc'[t] = pc[t]
  <2>1. UNCHANGED scope
    <3>1. At(t).op \notin {"begin", "end"}
      <4>1. pc[t] \in Nat
        BY <1>1, SoundHere
      <4>2. ~(pc[t] + 1 = pc[t])
        BY <4>1
      <4>3. ~DoScope(t)
        BY <1>5, <4>2 DEF DoScope, GoOn, GoTo, TypeOK
      <4> QED
        BY <4>3 DEF Step, IsAt, DoStart, DoDefer, DoJoin, DoAccess, DoLock,
                DoUnlock, DoStdLock, DoNotify, DoPush, DoPop, DoBranch, DoGoTo, DoSetValue,
                DoGet, DoOnce, DoInit, DoWait, Relock, TimeOut
    <3> QED
      BY <1>1, <3>1 DEF Turns
  <2> QED
    BY <1>1, <1>2, <1>3, <1>5, <2>1
<1>6. CASE t = "main" /\ pc'[t] = pc[t] + 1
  <2>1. \/ At(t).op \notin {"begin", "end"} /\ UNCHANGED scope
        \/ At(t).op = "begin" /\ scope' = scope \cup {At(t).at}
        \/ At(t).op = "end" /\ scope' = scope \ {At(t).at}
    <3>1. CASE At(t).op \in {"begin", "end"}
      <4>1. DoScope(t)
        BY <3>1 DEF Step, IsAt, DoStart, DoDefer, DoJoin, DoAccess, DoLock,
                DoUnlock, DoStdLock, DoNotify, DoPush, DoPop, DoBranch, DoGoTo, DoSetValue,
                DoGet, DoOnce, DoInit, DoWait, Relock, TimeOut
      <4> QED
        BY <3>1, <4>1 DEF DoScope
    <3>2. CASE At(t).op \notin {"begin", "end"}
      BY <1>1, <3>2 DEF Turns
    <3> QED
      BY <3>1, <3>2
  <2>2. At(t).op \in {"begin", "end"} => At(t).at \in Locals
    BY <1>1, TypesHere
  <2>3. \A l \in Locals : pc[t] + 1 \in ScopeOf(program, l) =>
          \/ At(t).op = "begin" /\ At(t).at = l
          \/ pc[t] \in ScopeOf(program, l) /\ ~(At(t).op = "end" /\ At(t).at = l)
    BY <1>1, <1>6, LoansHere
  <2> QED
    BY <1>1, <1>2, <1>3, <1>6, <2>1, <2>2, <2>3
<1> QED
  BY <1>1, <1>4, <1>5, <1>6, MainGoesOn

LEMMA StepByOp ==
  ASSUME NEW t \in Thread, Step(t)
  PROVE  /\ At(t).op \in {"start"} => DoStart(t)
         /\ At(t).op \in {"async"} => DoStart(t) \/ DoDefer(t)
         /\ At(t).op \in {"join"} => DoJoin(t)
         /\ At(t).op \in {"set_value"} => DoSetValue(t)
         /\ At(t).op \in {"get"} => DoGet(t)
BY DEF Step, IsAt, DoStart, DoDefer, DoJoin, DoScope, DoAccess, DoLock,
       DoUnlock, DoStdLock, DoNotify, DoPush, DoPop, DoBranch, DoGoTo, DoSetValue,
       DoGet, DoOnce, DoInit, DoWait, Relock, TimeOut

LEMMA StepKeepsReady ==
  ASSUME TypeOK, LoansFit, NEW t \in Thread, Step(t), NEW u \in Thread,
         pc'[u] \in BorrowsAt(program, u)
  PROVE  pc[u] \in BorrowsAt(program, u) /\ u # "main" /\ u \notin ready'
<1>1. Turns(t) /\ ~Ended(t) /\ program' = program
  BY StepTurn DEF Turns
<1>2. u # "main"
  BY BorrowsInside
<1>3. pc[u] \in BorrowsAt(program, u)
  <2>1. CASE t = u /\ pc'[t] \in GoesTo(program, t, pc[t])
    BY <1>1, <1>2, <2>1, LoansHere
  <2>2. CASE pc'[u] = pc[u]
    BY <2>2
  <2> QED
    BY <1>1, <2>1, <2>2, Arrives, OthersStay
<1>4. u \notin ready
  BY <1>3 DEF LoansFit
<1>5. CASE At(t).op = "set_value"
  <2>1. DoSetValue(t)
    BY <1>5, StepByOp
  <2>2. ready' = ready \cup {At(t).at} /\ pc'[t] = pc[t] + 1
    BY <2>1 DEF DoSetValue, GoOn, GoTo, TypeOK
  <2>3. At(t).at # u
    BY <1>1, <1>3, <1>5, <2>2, LoansHere
  <2> QED
    BY <1>2, <1>3, <1>4, <2>2, <2>3
<1>6. CASE At(t).op # "set_value"
  BY <1>1, <1>2, <1>3, <1>4, <1>6 DEF Turns
<1> QED
  BY <1>5, <1>6

LEMMA StepStarts ==
  ASSUME TypeOK, NEW t \in Thread, Step(t)
  PROVE  /\ started' \subseteq Thread /\ ready' \subseteq Thread
         /\ \A u \in started' \ started :
              /\ At(t).at = u
              /\ \/ t = "main" /\ At(t).op \in {"start", "async"} /\ pc'[t] = pc[t] + 1
                 \/ At(t).op = "get" /\ UNCHANGED pc
<1>1. Turns(t) /\ ~Ended(t) /\ started \subseteq Thread /\ ready \subseteq Thread
  BY StepTurn DEF Turns, TypeOK
<1>2. ready' \subseteq Thread
  <2>1. CASE At(t).op = "set_value"
    BY <1>1, <2>1, StepByOp, TypesHere DEF DoSetValue
  <2>2. CASE At(t).op # "set_value"
    BY <1>1, <2>2 DEF Turns
  <2> QED
    BY <2>1, <2>2
<1>3. CASE UNCHANGED started
  BY <1>1, <1>2, <1>3
<1>4. CASE DoStart(t)
  <2>1. At(t).op \in {"start", "async"} /\ started' = started \cup {At(t).at}
        /\ pc'[t] = pc[t] + 1
    BY <1>4 DEF DoStart, IsAt, GoOn, GoTo, TypeOK
  <2> QED
    BY <1>1, <1>2, <2>1, TypesHere
<1>5. CASE DoGet(t)
  <2>1. At(t).op = "get"
    BY <1>5 DEF DoGet, IsAt
  <2>2. UNCHANGED started \/ (started' = started \cup {At(t).at} /\ UNCHANGED pc)
    BY <1>5 DEF DoGet
  <2> QED
    BY <1>1, <1>2, <2>1, <2>2, TypesHere
<1>6. At(t).op \in {"start", "async", "get"} => DoStart(t) \/ DoGet(t) \/ UNCHANGED started
  BY StepByOp DEF DoDefer
<1> QED
  BY <1>1, <1>3, <1>4, <1>5, <1>6 DEF Turns

LEMMA StepKeepsLoans ==
  ASSUME TypeOK, LoansFit, NEW t \in Thread, Step(t)
  PROVE  LoansFit'
<1>1. Turns(t) /\ ~Ended(t) /\ program' = program
  BY StepTurn DEF Turns
<1>2. ASSUME NEW u \in Thread, pc'[u] \in BorrowsAt(program, u), u \in started'
      PROVE  pc'["main"] \in LentAt(program, u)
  <2>1. pc[u] \in BorrowsAt(program, u) /\ u # "main" /\ u \notin ready'
    BY <1>2, StepKeepsReady
  <2>2. u \notin ready /\ (u \in started => pc["main"] \in LentAt(program, u))
    BY <2>1 DEF LoansFit
  <2>3. CASE u \notin started
    <3>1. t = "main" /\ At(t).at = u
      BY <1>1, <1>2, <2>1, <2>3, StepStarts, TypesHere
    <3>2. CASE At(t).op \in {"start", "async"} /\ pc'[t] = pc[t] + 1
      BY <1>1, <2>1, <3>1, <3>2, LoansHere
    <3>3. CASE At(t).op = "get" /\ UNCHANGED pc
      BY <1>1, <2>1, <3>1, <3>3, LoansHere
    <3> QED
      BY <1>2, <2>3, <3>2, <3>3, StepStarts
  <2>4. CASE u \in started
    <3>1. CASE pc'["main"] = pc["main"]
      BY <2>2, <2>4, <3>1
    <3>2. CASE t = "main" /\ pc'[t] = pc[t] + 1 /\ pc'[t] \notin LentAt(program, u)
      <4>1. At(t).op \in {"join", "get"} /\ At(t).at = u
        BY <1>1, <2>1, <2>2, <2>4, <3>2, LoansHere
      <4>2. CASE At(t).op = "join"
        <5>1. Ended(u)
          BY <4>1, <4>2, StepByOp DEF DoJoin
        <5>2. pc[u] \in Places(program, u) /\ Len(Code[program][u]) \in Nat
          BY <2>1, BorrowsInside, CodeLength DEF TypeOK
        <5> QED
          BY <5>1, <5>2 DEF Ended, Places, CodeOf
      <4>3. CASE At(t).op = "get"
        <5>1. At(t).at \in ready \/ UNCHANGED pc
          BY <4>3, StepByOp DEF DoGet
        <5>2. pc[t] \in Nat
          BY <1>1, SoundHere
        <5> QED
          BY <2>2, <3>2, <4>1, <5>1, <5>2
      <4> QED
        BY <4>1, <4>2, <4>3
    <3> QED
      <4>1. "main" \in Thread
        BY DEF Thread
      <4> QED
        BY <1>1, <3>1, <3>2, <4>1, MainGoesOn, OthersStay
  <2> QED
    BY <2>3, <2>4
<1>3. \A u \in Thread : pc'[u] \in BorrowsAt(program, u) => u \notin ready'
  BY StepKeepsReady
<1> QED
  BY <1>1, <1>2, <1>3, StepKeepsScope DEF LoansFit

LEMMA BlockingInit == Init => Outline
<1> SUFFICES ASSUME Init PROVE Outline
  OBVIOUS
<1>1. /\ program \in DOMAIN Code /\ pc = [t \in Thread |-> 1]
      /\ started = {"main"} /\ scope = {} /\ owner = [m \in Mutex |-> NoThread]
      /\ depth = [m \in Mutex |-> 0] /\ asleep = {} /\ spurious = 0
      /\ queue = <<>> /\ taken = <<>> /\ ready = {} /\ once = "new" /\ inits = 0
  BY DEF Init
<1>2. \A t \in Thread : Len(Code[program][t]) \in Nat
  BY <1>1, CodeLength
<1>3. TypeOK
  <2>1. "main" \in Thread /\ MaxSpurious \in Nat
    BY ListingsAssumption DEF Thread, ConstantsAssumption
  <2>2. \A t \in Thread : pc[t] \in 1 .. Len(Code[program][t]) + 1
    BY <1>1, <1>2
  <2>3. owner \in [Mutex -> Thread \cup {NoThread}] /\ depth \in [Mutex -> 0 .. 2]
    BY <1>1
  <2>4. \A m \in Mutex : owner[m] = NoThread <=> depth[m] = 0
    BY <1>1
  <2>5. queue \in Seq(1 .. 3) /\ taken \in Seq(1 .. 3)
    BY <1>1
  <2> QED
    BY <1>1, <2>1, <2>2, <2>3, <2>4, <2>5 DEF TypeOK
<1>4. ASSUME NEW t \in Thread
      PROVE  /\ \A m \in Mutex : Depth(t, m) = 0
             /\ IsAt(t, {"pop"}) = FALSE /\ IsAt(t, Initialises) = FALSE
             /\ IsAt(t, {"once_done"}) = FALSE
             /\ CallsOnce(program) => ~IsAt(t, {"read"})
             /\ t = "main" => \A l \in Locals : 1 \notin ScopeOf(program, l)
             /\ t = "main" => BorrowsAt(program, t) = {}
  <2>1. SoundStart(program, t)
    BY <1>3, FitsStart
  <2>2. ~Ended(t) => 1 \in Places(program, t)
    BY <1>1, <1>2 DEF Ended, Places, CodeOf
  <2> QED
    BY <1>1, <2>1, <2>2 DEF SoundStart, Depth, IsAt, At, CodeOf, Initialises
<1>5. LocksFit
  <2>1. ASSUME NEW t \in Thread PROVE HoldsItsLocks(t)
    <3>1. t # NoThread
      BY ListingsAssumption DEF ConstantsAssumption
    <3>2. \A m \in Mutex : Depth(t, m) = 0 /\ owner[m] # t
      BY <1>1, <1>4, <3>1
    <3>3. t \notin asleep
      BY <1>1
    <3> QED
      BY <3>2, <3>3 DEF HoldsItsLocks
  <2> QED
    BY <2>1 DEF LocksFit
<1>6. PopsFit
  BY <1>4 DEF PopsFit
<1>7. OnceFits
  BY <1>1, <1>4 DEF OnceFits
<1>8. LoansFit
  <2>1. "main" \in Thread
    BY DEF Thread
  <2>2. \A l \in Locals : pc["main"] \notin ScopeOf(program, l)
    BY <1>1, <1>4, <2>1
  <2>3. \A t \in Thread : pc[t] \in BorrowsAt(program, t) => t \notin ready /\ t \notin started
    BY <1>1, <1>4, <2>1
  <2> QED
    BY <2>2, <2>3 DEF LoansFit
<1> QED
  BY <1>3, <1>5, <1>6, <1>7, <1>8 DEF Outline

LEMMA BlockingStepOutline ==
  ASSUME Outline, NEW t \in Thread, Step(t)
  PROVE  Outline'
<1>1. TypeOK /\ LocksFit /\ PopsFit /\ OnceFits /\ LoansFit /\ Turns(t)
  BY StepTurn DEF Outline
<1>2. LocksTyped' /\ LocksFit'
  BY <1>1, StepKeepsLocks
<1>3. queue' \in Seq(1 .. 3) /\ taken' \in Seq(1 .. 3) /\ PopsFit'
  BY <1>1, QueueStep, StepKeepsPops
<1>4. OnceFits' /\ once' \in {"new", "running", "done"} /\ inits' \in Nat
  BY <1>1, StepKeepsOnce
<1>5. LoansFit' /\ started' \subseteq Thread /\ ready' \subseteq Thread
      /\ scope' \subseteq Locals
  BY <1>1, StepKeepsLoans, StepStarts, StepKeepsScope
<1>6. spurious' \in 0 .. MaxSpurious
  BY <1>1 DEF TypeOK, Turns
<1>7. TypeOK'
  BY <1>1, <1>2, <1>3, <1>4, <1>5, <1>6, PlacesFit DEF TypeOK, LocksTyped
<1> QED
  BY <1>2, <1>3, <1>4, <1>5, <1>7 DEF Outline

LEMMA BlockingWakeOutline ==
  ASSUME Outline, NEW t \in Thread, WakeSpuriously(t)
  PROVE  Outline'
<1>1. TypeOK /\ LocksFit /\ PopsFit /\ OnceFits /\ LoansFit
  BY DEF Outline
<1>2. /\ UNCHANGED <<program, pc, started, scope, queue, taken, ready, once, inits>>
      /\ spurious < MaxSpurious /\ spurious' = spurious + 1
  BY DEF WakeSpuriously, items, flag
<1>3. LocksTyped' /\ LocksFit'
  BY <1>1, WakeKeepsLocks
<1>4. PopsFit' /\ OnceFits'
  <2>1. ASSUME NEW u \in Thread
        PROVE  /\ IsAt(u, {"pop"})' <=> IsAt(u, {"pop"})
               /\ IsAt(u, Initialises)' <=> IsAt(u, Initialises)
               /\ IsAt(u, {"once_done"})' <=> IsAt(u, {"once_done"})
               /\ IsAt(u, {"read"})' <=> IsAt(u, {"read"})
    BY <1>2, SamePlace
  <2> QED
    BY <1>1, <1>2, <2>1 DEF PopsFit, OnceFits
<1>5. LoansFit'
  BY <1>1, <1>2 DEF LoansFit
<1>6. spurious' \in 0 .. MaxSpurious
  <2>1. MaxSpurious \in Nat /\ spurious \in 0 .. MaxSpurious
    BY <1>1, ListingsAssumption DEF TypeOK, ConstantsAssumption
  <2> QED
    BY <1>2, <2>1
<1>7. TypeOK'
  BY <1>1, <1>2, <1>3, <1>6 DEF TypeOK, LocksTyped
<1> QED
  BY <1>3, <1>4, <1>5, <1>7 DEF Outline

LEMMA BlockingNextOutline == Outline /\ Next => Outline'
BY BlockingStepOutline, BlockingWakeOutline DEF Next

LEMMA BlockingStutterOutline == Outline /\ UNCHANGED vars => Outline'
<1> SUFFICES ASSUME Outline, UNCHANGED vars PROVE Outline'
  OBVIOUS
<1>1. UNCHANGED <<program, pc, started, scope, owner, depth, asleep, spurious, queue, taken,
                  ready, once, inits>>
  BY DEF vars, locks, cond, items, flag
<1>2. TypeOK' /\ LocksFit' /\ PopsFit' /\ OnceFits' /\ LoansFit'
  <2>1. TypeOK'
    BY <1>1 DEF Outline, TypeOK
  <2>2. ASSUME NEW u \in Thread
        PROVE  /\ IsAt(u, Waits)' <=> IsAt(u, Waits)
               /\ IsAt(u, {"pop"})' <=> IsAt(u, {"pop"})
               /\ IsAt(u, Initialises)' <=> IsAt(u, Initialises)
               /\ IsAt(u, {"once_done"})' <=> IsAt(u, {"once_done"})
               /\ IsAt(u, {"read"})' <=> IsAt(u, {"read"})
               /\ \A m \in Mutex : Depth(u, m)' = Depth(u, m)
    BY <1>1, SamePlace
  <2>3. LocksFit'
    BY <1>1, <2>2 DEF Outline, LocksFit, HoldsItsLocks
  <2>4. PopsFit' /\ OnceFits'
    BY <1>1, <2>2 DEF Outline, PopsFit, OnceFits
  <2>5. LoansFit'
    BY <1>1 DEF Outline, LoansFit
  <2> QED
    BY <2>1, <2>3, <2>4, <2>5
<1> QED
  BY <1>2 DEF Outline

LEMMA BlockingScopes == Outline => NoUseAfterScope
<1> SUFFICES ASSUME Outline, program \notin {"local_var_detach", "moving_mutex"},
                    NEW t \in Thread, Running(t), IsAt(t, {"read", "write"}), At(t).at \in Locals
             PROVE  At(t).at \in scope
  BY DEF NoUseAfterScope
<1>1. TypeOK /\ LoansFit
  BY DEF Outline
<1>2. ~Ended(t) /\ t \in started /\ At(t).op \in {"read", "write"}
  BY DEF Running, IsAt
<1>3. pc[t] \in BorrowsAt(program, t) /\ LentAt(program, t) \subseteq ScopeOf(program, At(t).at)
  BY <1>1, <1>2, LoansHere
<1> QED
  BY <1>1, <1>2, <1>3 DEF LoansFit

LEMMA BlockingRaces == Outline => NoDataRace
<1> SUFFICES ASSUME Outline, NEW t \in Thread, NEW u \in Thread, t # u, Running(t), Running(u),
                    IsAt(t, Changes), IsAt(u, Changes \cup Looks), Object(t) = Object(u)
             PROVE  FALSE
  BY DEF NoDataRace
<1>1. TypeOK /\ LocksFit /\ OnceFits /\ LoansFit
  BY DEF Outline
<1>2. /\ ~Ended(t) /\ t \in started /\ At(t).op \in Changes
      /\ ~Ended(u) /\ u \in started /\ At(u).op \in Changes \cup Looks
  BY DEF Running, IsAt
<1>3. Apart(program, t, pc[t], u, pc[u])
  <2>1. SoundAccesses(program, t, u)
    BY <1>1, FitsStart
  <2>2. pc[t] \in Places(program, t) /\ pc[u] \in Places(program, u)
    BY <1>1, <1>2, SoundHere
  <2> QED
    BY <1>2, <2>1, <2>2 DEF SoundAccesses, ObjectOf, Object, At, CodeOf
<1>4. At(t).op \notin Waits /\ At(u).op \notin Waits
  BY <1>2 DEF Changes, Looks, Waits
<1>5. ~(\E m \in Mutex : Depth(t, m) > 0 /\ Depth(u, m) > 0)
  BY <1>1, <1>2, <1>4, HeldHere
<1>6. ~(/\ CallsOnce(program) /\ At(t).op = "init" /\ At(u).op \in {"init", "read"})
  <2> SUFFICES ASSUME CallsOnce(program), At(t).op = "init", At(u).op \in {"init", "read"}
               PROVE  FALSE
    OBVIOUS
  <2>1. IsAt(t, Initialises) /\ once = "running"
    BY <1>1, <1>2 DEF IsAt, Initialises, OnceFits
  <2>2. CASE At(u).op = "init"
    BY <1>1, <1>2, <2>1, <2>2 DEF IsAt, Initialises, OnceFits
  <2>3. CASE At(u).op = "read"
    BY <1>1, <1>2, <2>1, <2>3 DEF IsAt, OnceFits
  <2> QED
    BY <2>2, <2>3
<1>7. ~(u = "main" /\ pc[t] \in BorrowsAt(program, t) /\ pc[u] \notin LentAt(program, t))
  BY <1>1, <1>2 DEF LoansFit
<1> QED
  BY <1>3, <1>5, <1>6, <1>7, CodeHere DEF Apart, Depth

LEMMA BlockingOnce == Outline => InitialisedOnce
BY DEF Outline, OnceFits, InitialisedOnce, CallsOnce

(* 4.1.1, 4.4 and 4.5: what main and a do. *)
Feeds(p) ==
  \A i \in Places(p, "main") :
    LET code == CodeOf(p, "main")[i]
    IN /\ code.op \notin {"goto", "pop", "get"} \cup Waits \cup Branches
       /\ code.op = "push" => code.at = Numbers(p)[Pushed(i) + 1]
       /\ Pushed(i + 1) = IF code.op = "push" THEN Pushed(i) + 1 ELSE Pushed(i)
       /\ i = 14 => code.op = "join" /\ code.at = "a"

Eats(p) ==
  LET code == CodeOf(p, "a")
  IN /\ Len(code) = 5
     /\ code[1].op = "lock" /\ code[2].op = "wait" /\ code[3].op = "pop"
     /\ code[4].op = "unlock" /\ code[5].op = "unless_last"
     /\ code[5].at = Numbers(p)[3] /\ code[5].place = 1

LEMMA ConsumerCode ==
  ASSUME NEW p \in Consumes
  PROVE  /\ Feeds(p) /\ Eats(p) /\ \A t \in {"b", "c", "d", "e"} : Len(Code[p][t]) = 0
         /\ Numbers(p) \in Seq(1 .. 3) /\ Len(Numbers(p)) = 3
         /\ Numbers(p)[1] # Numbers(p)[3] /\ Numbers(p)[2] # Numbers(p)[3]
         /\ Len(Code[p]["main"]) \in {14, 17}
<1> USE DEF Do, DoOr, Start, Join, Read, Lock, Unlock, Push, Reads, Places, CodeOf, Feeds,
      Waits, Branches, Pushed
<1>1. Numbers("condition_variable") = <<1, 2, 3>>
      /\ Numbers("data_processing") = <<3, 2, 1>>
      /\ Numbers("data_processing_empty") = <<3, 2, 1>>
  BY DEF Numbers
<1>2. Feeds("condition_variable") /\ Len(Code["condition_variable"]["main"]) = 14
  BY <1>1, ConditionVariableCode
<1>3. Eats("condition_variable")
  BY <1>1, ConditionVariableCode DEF Eats
<1>4. Feeds("data_processing") /\ Len(Code["data_processing"]["main"]) = 14
  BY <1>1, DataProcessingCode
<1>5. Eats("data_processing")
  BY <1>1, DataProcessingCode DEF Eats
<1>6. Feeds("data_processing_empty") /\ Len(Code["data_processing_empty"]["main"]) = 17
  BY <1>1, DataProcessingEmptyCode
<1>7. Eats("data_processing_empty")
  BY <1>1, DataProcessingEmptyCode DEF Eats
<1>8. p \in {"condition_variable", "data_processing", "data_processing_empty"}
  BY DEF Consumes
<1> HIDE DEF Feeds
<1>9. Feeds(p) /\ Eats(p)
  BY <1>2, <1>3, <1>4, <1>5, <1>6, <1>7, <1>8, Zenon
<1>10. \A t \in {"b", "c", "d", "e"} : Len(Code[p][t]) = 0
  BY <1>8, ConditionVariableCode, DataProcessingCode, DataProcessingEmptyCode
<1>11. Numbers(p) \in {<<1, 2, 3>>, <<3, 2, 1>>}
  BY <1>1, <1>8, Zenon
<1>12. /\ Numbers(p) \in Seq(1 .. 3) /\ Len(Numbers(p)) = 3
       /\ Numbers(p)[1] # Numbers(p)[3] /\ Numbers(p)[2] # Numbers(p)[3]
  <2>1. CASE Numbers(p) = <<1, 2, 3>>
    BY <2>1
  <2>2. CASE Numbers(p) = <<3, 2, 1>>
    BY <2>2
  <2> QED
    BY <1>11, <2>1, <2>2
<1>13. Len(Code[p]["main"]) \in {14, 17}
  BY <1>2, <1>4, <1>6, <1>8, Zenon
<1> QED
  BY <1>9, <1>10, <1>12, <1>13

LEMMA StepKeepsNumbers ==
  ASSUME TypeOK, PopsFit, NumbersFit, NEW t \in Thread, Step(t)
  PROVE  NumbersFit'
<1>1. Turns(t)
  BY StepTurn
<1> SUFFICES ASSUME program \in Consumes
             PROVE  NumbersFit'
  BY <1>1 DEF Turns, NumbersFit
<1>2. /\ t \in started /\ ~Ended(t) /\ program' = program
      /\ queue \in Seq(1 .. 3) /\ taken \in Seq(1 .. 3) /\ pc \in [Thread -> Nat]
      /\ pc[t] \in Nat /\ pc[t] \in Places(program, t)
  BY <1>1, SoundHere DEF Turns, TypeOK
<1>3. /\ Feeds(program) /\ Eats(program)
      /\ \A u \in {"b", "c", "d", "e"} : Len(Code[program][u]) = 0
      /\ Numbers(program)[1] # Numbers(program)[3] /\ Numbers(program)[2] # Numbers(program)[3]
  BY ConsumerCode
<1>4. At(t) = CodeOf(program, t)[pc[t]]
  BY DEF At, CodeOf
<1>5. /\ Len(taken) + Len(queue) = Pushed(pc["main"])
      /\ \A k \in 1 .. Len(taken) : taken[k] = Numbers(program)[k]
      /\ \A k \in 1 .. Len(queue) : queue[k] = Numbers(program)[Len(taken) + k]
      /\ pc["a"] > 3 => taken # <<>>
      /\ pc["a"] = 6 => Len(taken) = 3
      /\ pc["main"] > 14 => pc["a"] = 6
  BY DEF NumbersFit
<1>6. pc["a"] \in 1 .. 6 /\ pc["main"] \in Nat
  <2>1. "a" \in Thread /\ "main" \in Thread
    BY DEF Thread
  <2>2. Len(Code[program]["a"]) = 5
    BY <1>3 DEF Eats, CodeOf
  <2>3. pc["a"] \in 1 .. Len(Code[program]["a"]) + 1
    BY <2>1 DEF TypeOK
  <2> QED
    BY <1>2, <2>1, <2>2, <2>3
<1>7. CASE t = "main"
  <2>1. pc'["a"] = pc["a"]
    BY <1>1, <1>7, OthersStay DEF Thread
  <2>2. At(t).op \notin {"goto", "pop", "get"} \cup Waits \cup Branches
        /\ (At(t).op = "push" => At(t).at = Numbers(program)[Pushed(pc[t]) + 1])
        /\ Pushed(pc[t] + 1) = (IF At(t).op = "push" THEN Pushed(pc[t]) + 1 ELSE Pushed(pc[t]))
        /\ (pc[t] = 14 => At(t).op = "join" /\ At(t).at = "a")
    BY <1>2, <1>3, <1>4, <1>7 DEF Feeds
  <2>3. pc'["main"] = pc["main"] + 1
    BY <1>1, <1>4, <1>7, <2>2, Arrives DEF GoesTo
  <2>4. pc'["main"] > 14 => pc["a"] = 6
    <3>1. CASE pc["main"] = 14
      <4>1. DoJoin(t)
        BY <1>7, <2>2, <3>1
        DEF Step, IsAt, DoStart, DoDefer, DoScope, DoAccess, DoLock, DoUnlock, DoStdLock,
            DoNotify, DoPush, DoPop, DoBranch, DoGoTo, DoSetValue, DoGet, DoOnce, DoInit,
            DoWait, Relock, TimeOut
      <4>2. Ended("a")
        BY <1>7, <2>2, <3>1, <4>1 DEF DoJoin
      <4> QED
        BY <1>3, <1>6, <4>2 DEF Ended, Eats, CodeOf
    <3> QED
      BY <1>5, <1>6, <2>3, <3>1
  <2>5. CASE At(t).op = "push"
    <3>1. DoPush(t)
      BY <2>5
      DEF Step, IsAt, DoStart, DoDefer, DoJoin, DoScope, DoAccess, DoLock, DoUnlock, DoStdLock,
          DoNotify, DoPop, DoBranch, DoGoTo, DoSetValue, DoGet, DoOnce, DoInit,
          DoWait, Relock, TimeOut
    <3>2. queue' = Append(queue, At(t).at) /\ taken' = taken
      BY <3>1 DEF DoPush
    <3>3. Len(queue') = Len(queue) + 1 /\ queue'[Len(queue) + 1] = At(t).at
          /\ \A k \in 1 .. Len(queue) : queue'[k] = queue[k]
      BY <1>2, <3>2
    <3>4. At(t).at = Numbers(program)[Len(taken) + Len(queue) + 1]
      BY <1>5, <1>7, <2>2, <2>5
    <3>5. \A k \in 1 .. Len(queue') : queue'[k] = Numbers(program)[Len(taken) + k]
      <4> SUFFICES ASSUME NEW k \in 1 .. Len(queue')
                   PROVE  queue'[k] = Numbers(program)[Len(taken) + k]
        OBVIOUS
      <4>1. Len(queue) \in Nat /\ Len(taken) \in Nat
        BY <1>2
      <4>2. k \in 1 .. Len(queue) \/ k = Len(queue) + 1
        <5>1. Len(queue') = Len(queue) + 1
          BY <3>3
        <5> DEFINE long == Len(queue)
                   longer == Len(queue')
        <5>2. long \in Nat /\ longer = long + 1 /\ k \in 1 .. longer
          BY <4>1, <5>1
        <5> HIDE DEF long, longer
        <5>3. k \in 1 .. long \/ k = long + 1
          BY <5>2
        <5> QED
          BY <5>3 DEF long
      <4>3. CASE k \in 1 .. Len(queue)
        <5>1. queue'[k] = queue[k]
          BY <3>3, <4>3
        <5>2. queue[k] = Numbers(program)[Len(taken) + k]
          BY <1>5, <4>3
        <5> QED
          BY <5>1, <5>2
      <4>4. CASE k = Len(queue) + 1
        <5>1. Len(taken) + k = Len(taken) + Len(queue) + 1
          BY <4>1, <4>4
        <5> QED
          BY <3>3, <3>4, <4>4, <5>1, Zenon
      <4> QED
        BY <4>2, <4>3, <4>4
    <3>6. Len(taken') + Len(queue') = Pushed(pc'["main"])
      BY <1>2, <1>5, <1>7, <2>2, <2>3, <2>5, <3>2, <3>3
    <3> QED
      BY <1>2, <1>5, <2>1, <2>4, <3>2, <3>5, <3>6 DEF NumbersFit
  <2>6. CASE At(t).op # "push"
    <3>1. queue' = queue /\ taken' = taken
      BY <1>1, <2>2, <2>6 DEF Turns, items
    <3>2. Pushed(pc'["main"]) = Pushed(pc["main"])
      BY <1>7, <2>2, <2>3, <2>6
    <3> QED
      BY <1>2, <1>5, <2>1, <2>4, <3>1, <3>2 DEF NumbersFit
  <2> QED
    BY <2>5, <2>6
<1>8. CASE t = "a"
  <2>1. pc'["main"] = pc["main"]
    BY <1>1, <1>8, OthersStay DEF Thread
  <2>2. pc["a"] \in 1 .. 5 /\ ~(pc["main"] > 14)
    <3>1. Len(Code[program]["a"]) = 5
      BY <1>3 DEF Eats, CodeOf
    <3>2. pc["a"] \in 1 .. 5
      BY <1>2, <1>8, <3>1 DEF Places, CodeOf
    <3> QED
      BY <1>5, <1>6, <3>2
  <2>3. /\ pc["a"] = 1 => At(t).op = "lock"
        /\ pc["a"] = 2 => At(t).op = "wait"
        /\ pc["a"] = 3 => At(t).op = "pop"
        /\ pc["a"] = 4 => At(t).op = "unlock"
        /\ pc["a"] = 5 => At(t).op = "unless_last" /\ At(t).at = Numbers(program)[3]
                          /\ At(t).place = 1
    BY <1>3, <1>4, <1>8 DEF Eats
  <2>4. pc'["a"] \in (IF pc["a"] = 5 THEN {1, 6}
                      ELSE IF pc["a"] = 2 THEN {2, 3} ELSE {pc["a"] + 1})
    <3>1. GoesTo(program, "a", pc["a"]) = IF pc["a"] = 5 THEN {6, 1} ELSE {pc["a"] + 1}
      BY <1>4, <1>8, <2>2, <2>3 DEF GoesTo, Branches
    <3>2. \/ pc'["a"] = pc["a"] /\ At(t).op \in {"get"} \cup Waits
          \/ pc'["a"] \in GoesTo(program, "a", pc["a"])
      BY <1>1, <1>8, Arrives
    <3> QED
      BY <2>2, <2>3, <3>1, <3>2 DEF Waits
  <2>5. CASE pc["a"] = 3
    <3>1. DoPop(t)
      BY <2>3, <2>5
      DEF Step, IsAt, DoStart, DoDefer, DoJoin, DoScope, DoAccess, DoLock, DoUnlock, DoStdLock,
          DoNotify, DoPush, DoBranch, DoGoTo, DoSetValue, DoGet, DoOnce, DoInit,
          DoWait, Relock, TimeOut
    <3>2. queue # <<>> /\ queue' = Tail(queue) /\ taken' = Append(taken, Head(queue))
      BY <3>1 DEF DoPop, PopsFit
    <3>3. /\ Len(queue') = Len(queue) - 1 /\ Len(queue) \in Nat \ {0}
          /\ \A k \in 1 .. Len(queue') : queue'[k] = queue[k + 1]
      BY <1>2, <3>2
    <3>4. /\ Len(taken') = Len(taken) + 1 /\ Len(taken) \in Nat
          /\ taken'[Len(taken) + 1] = queue[1]
          /\ \A k \in 1 .. Len(taken) : taken'[k] = taken[k]
      BY <1>2, <3>2
    <3>5. queue[1] = Numbers(program)[Len(taken) + 1]
      BY <1>5, <3>3
    <3>6. \A k \in 1 .. Len(taken') : taken'[k] = Numbers(program)[k]
      BY <1>5, <3>4, <3>5
    <3>7. \A k \in 1 .. Len(queue') : queue'[k] = Numbers(program)[Len(taken') + k]
      <4> SUFFICES ASSUME NEW k \in 1 .. Len(queue')
                   PROVE  queue'[k] = Numbers(program)[Len(taken') + k]
        OBVIOUS
      <4>1. k + 1 \in 1 .. Len(queue) /\ Len(taken) + (k + 1) = Len(taken') + k
        <5> DEFINE long == Len(queue)
                   shorter == Len(queue')
                   some == Len(taken)
                   more == Len(taken')
        <5>1. /\ long \in Nat \ {0} /\ shorter = long - 1 /\ k \in 1 .. shorter
              /\ some \in Nat /\ more = some + 1
          BY <3>3, <3>4
        <5> HIDE DEF long, shorter, some, more
        <5>2. k + 1 \in 1 .. long /\ some + (k + 1) = more + k
          BY <5>1
        <5> QED
          BY <5>2 DEF long, some, more
      <4> QED
        BY <1>5, <3>3, <4>1
    <3>8. taken' # <<>>
      BY <3>4
    <3>9. Len(taken') + Len(queue') = Pushed(pc'["main"])
      BY <1>5, <2>1, <3>3, <3>4
    <3>10. ~(pc'["main"] > 14) /\ pc'["a"] # 6
      BY <2>1, <2>2, <2>4, <2>5
    <3> QED
      BY <1>2, <3>6, <3>7, <3>8, <3>9, <3>10 DEF NumbersFit
  <2>6. CASE pc["a"] # 3
    <3>1. queue' = queue /\ taken' = taken
      BY <1>1, <2>2, <2>3, <2>6 DEF Turns, items
    <3>2. pc'["a"] > 3 => taken # <<>>
      BY <1>5, <2>2, <2>4, <2>6
    <3>3. ASSUME pc'["a"] = 6 PROVE Len(taken) = 3
      <4>1. pc["a"] = 5
        BY <2>2, <2>4, <2>6, <3>3
      <4>2. DoBranch(t)
        BY <2>3, <4>1
        DEF Step, IsAt, DoStart, DoDefer, DoJoin, DoScope, DoAccess, DoLock, DoUnlock,
            DoStdLock, DoNotify, DoPush, DoPop, DoGoTo, DoSetValue, DoGet, DoOnce, DoInit,
            DoWait, Relock, TimeOut
      <4>3. ~Leaves(t)
        BY <1>2, <1>8, <2>3, <3>3, <4>1, <4>2 DEF DoBranch, GoTo
      <4>4. taken[Len(taken)] = Numbers(program)[3]
        <5>1. At(t).op = "unless_last" /\ At(t).at = Numbers(program)[3]
          BY <2>3, <4>1
        <5>2. ~(taken[Len(taken)] # At(t).at)
          BY <4>3, <5>1 DEF Leaves
        <5> QED
          BY <5>1, <5>2
      <4>5. Len(taken) \in 1 .. 3
        <5> DEFINE m == Len(taken)
                   n == Len(queue)
        <5>1. m \in Nat /\ n \in Nat /\ m # 0
          BY <1>2, <1>5, <4>1
        <5>2. Pushed(pc["main"]) \in 0 .. 3
          BY DEF Pushed
        <5>3. m + n = Pushed(pc["main"])
          BY <1>5
        <5> HIDE DEF m, n
        <5>4. m \in 1 .. 3
          BY <5>1, <5>2, <5>3
        <5> QED
          BY <5>4 DEF m
      <4>6. taken[Len(taken)] = Numbers(program)[Len(taken)]
        <5> DEFINE m == Len(taken)
        <5>0. m \in 1 .. 3 /\ \A k \in 1 .. m : taken[k] = Numbers(program)[k]
          BY <1>5, <4>5
        <5> HIDE DEF m
        <5>1. m \in 1 .. m
          BY <5>0
        <5>2. taken[m] = Numbers(program)[m]
          BY <5>0, <5>1
        <5> QED
          BY <5>2 DEF m
      <4>7. Numbers(program)[1] # Numbers(program)[3] /\ Numbers(program)[2] # Numbers(program)[3]
        BY <1>3
      <4>8. ASSUME NEW m \in 1 .. 3, Numbers(program)[m] = Numbers(program)[3]
            PROVE  m = 3
        <5>1. m = 1 \/ m = 2 \/ m = 3
          OBVIOUS
        <5> QED
          BY <4>7, <4>8, <5>1, Zenon
      <4>9. Numbers(program)[Len(taken)] = Numbers(program)[3]
        BY <4>4, <4>6, Zenon
      <4> QED
        BY <4>5, <4>8, <4>9, Zenon
    <3>4. /\ Len(taken') + Len(queue') = Pushed(pc'["main"])
          /\ \A k \in 1 .. Len(taken') : taken'[k] = Numbers(program)[k]
          /\ \A k \in 1 .. Len(queue') : queue'[k] = Numbers(program)[Len(taken') + k]
      BY <1>5, <2>1, <3>1, Zenon
    <3>5. pc'["a"] = 6 => Len(taken') = 3
      BY <3>1, <3>3
    <3>6. ~(pc'["main"] > 14)
      BY <2>1, <2>2
    <3> QED
      BY <1>2, <3>1, <3>2, <3>4, <3>5, <3>6 DEF NumbersFit
  <2> QED
    BY <2>5, <2>6
<1>9. t \in {"main", "a"}
  <2>1. ~(t \in {"b", "c", "d", "e"})
    BY <1>2, <1>3 DEF Places, CodeOf
  <2> QED
    BY <2>1 DEF Thread
<1> QED
  BY <1>7, <1>8, <1>9

LEMMA NumbersStart == Init => NumbersFit
BY DEF Init, NumbersFit, Pushed, Thread

LEMMA NumbersStay ==
  ASSUME NumbersFit, UNCHANGED <<program, pc, queue, taken>>
  PROVE  NumbersFit'
BY DEF NumbersFit

LEMMA BlockingNumbers == TypeOK /\ NumbersFit => NumbersProcessed
<1> SUFFICES ASSUME TypeOK, NumbersFit, program \in Consumes
             PROVE  /\ taken \o queue = SubSeq(Numbers(program), 1, Len(taken \o queue))
                    /\ Ended("main") => taken = Numbers(program)
  BY DEF NumbersProcessed, Consumes
<1> DEFINE numbers == Numbers(program)
<1>1. /\ Len(taken) + Len(queue) = Pushed(pc["main"])
      /\ \A k \in 1 .. Len(taken) : taken[k] = numbers[k]
      /\ \A k \in 1 .. Len(queue) : queue[k] = numbers[Len(taken) + k]
      /\ pc["a"] = 6 => Len(taken) = 3
      /\ pc["main"] > 14 => pc["a"] = 6
  BY DEF NumbersFit
<1>2. queue \in Seq(1 .. 3) /\ taken \in Seq(1 .. 3) /\ pc["main"] \in Nat
  BY DEF TypeOK, Thread
<1>3. numbers \in Seq(1 .. 3) /\ Len(numbers) = 3
  BY ConsumerCode
<1>4. Len(taken) + Len(queue) \in 0 .. 3 /\ Len(taken) \in Nat /\ Len(queue) \in Nat
  BY <1>1, <1>2 DEF Pushed
<1> HIDE DEF numbers
<1>5. taken \o queue = SubSeq(numbers, 1, Len(taken \o queue))
  <2>1. /\ taken \o queue \in Seq(1 .. 3) /\ Len(taken \o queue) = Len(taken) + Len(queue)
        /\ \A k \in 1 .. Len(taken) + Len(queue) :
             (taken \o queue)[k] = IF k <= Len(taken) THEN taken[k] ELSE queue[k - Len(taken)]
    BY <1>2
  <2>2. \A k \in 1 .. Len(taken) + Len(queue) : (taken \o queue)[k] = numbers[k]
    BY <1>1, <1>4, <2>1
  <2> DEFINE n == Len(taken \o queue)
  <2>3. /\ SubSeq(numbers, 1, n) \in Seq(1 .. 3) /\ Len(SubSeq(numbers, 1, n)) = n
        /\ \A k \in 1 .. n : SubSeq(numbers, 1, n)[k] = numbers[k]
    <3>1. n \in 0 .. 3
      BY <1>4, <2>1
    <3> HIDE DEF n
    <3> QED
      BY <1>3, <3>1
  <2>4. n = Len(taken) + Len(queue)
    BY <2>1
  <2> HIDE DEF n
  <2>5. taken \o queue = SubSeq(numbers, 1, n)
    <3> DEFINE s == taken \o queue
               r == SubSeq(numbers, 1, n)
    <3>1. s \in Seq(1 .. 3) /\ r \in Seq(1 .. 3) /\ Len(s) = n /\ Len(r) = n
          /\ \A k \in 1 .. n : s[k] = r[k]
      BY <2>1, <2>2, <2>3, <2>4
    <3> HIDE DEF s, r
    <3>2. s = r
      BY <3>1
    <3> QED
      BY <3>2 DEF s, r
  <2> QED
    BY <2>5 DEF n
<1>6. ASSUME Ended("main") PROVE taken = numbers
  <2> DEFINE n == Len(Code[program]["main"])
  <2>1. pc["main"] > n
    BY <1>6 DEF Ended
  <2>2. n \in {14, 17}
    BY ConsumerCode
  <2> HIDE DEF n
  <2>3. pc["main"] > 14
    BY <1>2, <2>1, <2>2
  <2>4. Len(taken) = 3 /\ \A k \in 1 .. 3 : taken[k] = numbers[k]
    BY <1>1, <2>3
  <2>5. Len(numbers) = 3 /\ numbers \in Seq(1 .. 3) /\ taken \in Seq(1 .. 3)
    BY <1>2, <1>3
  <2>6. ASSUME NEW r \in Seq(1 .. 3), NEW s \in Seq(1 .. 3), NEW m,
               Len(r) = m, Len(s) = m, \A k \in 1 .. m : r[k] = s[k]
        PROVE  r = s
    BY <2>6
  <2> QED
    BY <2>4, <2>5, <2>6, Zenon
<1> QED
  BY <1>5, <1>6 DEF numbers

-----------------------------------------------------------------------------
(* The programs of chapter 5. *)

LEMMA BehindOrder ==
  ASSUME NEW u \in Atomic!Memory!View, NEW v \in Atomic!Memory!View, NEW w \in Atomic!Memory!View
  PROVE  /\ Atomic!Behind(u, u)
         /\ Atomic!Behind(u, v) /\ Atomic!Behind(v, w) => Atomic!Behind(u, w)
BY DEF Atomic!Behind, Atomic!Memory!View

LEMMA JoinSupremum ==
  ASSUME NEW v \in Atomic!Memory!View, NEW w \in Atomic!Memory!View
  PROVE  LET least == Atomic!Memory!Join(v, w)
         IN /\ least \in Atomic!Memory!View
            /\ Atomic!Behind(v, least) /\ Atomic!Behind(w, least)
            /\ \A b \in Atomic!Memory!View :
                 Atomic!Behind(v, b) /\ Atomic!Behind(w, b) => Atomic!Behind(least, b)
<1>1. Atomic!Memory!Join(v, w) \in Atomic!Memory!View
  BY DEF Atomic!Memory!Join, Atomic!Memory!View
<1>2. Atomic!Behind(v, Atomic!Memory!Join(v, w)) /\ Atomic!Behind(w, Atomic!Memory!Join(v, w))
  BY DEF Atomic!Memory!Join, Atomic!Memory!View, Atomic!Behind
<1>3. ASSUME NEW b \in Atomic!Memory!View, Atomic!Behind(v, b), Atomic!Behind(w, b)
      PROVE  Atomic!Behind(Atomic!Memory!Join(v, w), b)
  BY <1>3 DEF Atomic!Memory!Join, Atomic!Memory!View, Atomic!Behind
<1> QED
  BY <1>1, <1>2, <1>3

LEMMA StartViewLeast ==
  /\ Atomic!Memory!StartView \in Atomic!Memory!View
  /\ \A v \in Atomic!Memory!View : Atomic!Behind(Atomic!Memory!StartView, v)
BY DEF Atomic!Memory!StartView, Atomic!Memory!View, Atomic!Behind

(* A write appends a message, which the writer sees, and which carries the *)
(* view that it continues and what the order or the fences release.        *)
Written(t, l, v, order, continued) ==
  LET message == memory'[l][Len(memory[l]) + 1]
  IN /\ Atomic!MemoryOK'
     /\ Atomic!Tops' = [Atomic!Tops EXCEPT ![l] = @ + 1]
     /\ \A k \in Atomic!Location \ {l} : memory'[k] = memory[k]
     /\ Len(memory'[l]) = Len(memory[l]) + 1
     /\ \A m \in 1 .. Len(memory[l]) : memory'[l][m] = memory[l][m]
     /\ message.value = v /\ message.view \in Atomic!Memory!View
     /\ Atomic!Behind(continued, message.view) /\ Atomic!Behind(rel[t], message.view)
     /\ Atomic!Memory!Releases(order) => Atomic!Behind(cur[t], message.view)
     /\ Atomic!Behind(cur[t], cur'[t]) /\ cur'[t][l] = Len(memory[l]) + 1
     /\ Atomic!Memory!Acquires(order) => Atomic!Behind(continued, cur'[t])
     /\ Atomic!Behind(acq[t], acq'[t]) /\ Atomic!Behind(continued, acq'[t])
     /\ \A u \in Atomic!Thread \ {t} : cur'[u] = cur[u] /\ acq'[u] = acq[u]
     /\ rel' = rel

LEMMA WriteEffect ==
  ASSUME Atomic!MemoryOK,
         NEW t \in Atomic!Thread, NEW l \in Atomic!Location, NEW v \in Atomic!Values, NEW order,
         NEW continued \in Atomic!Memory!View, Atomic!Behind(continued, Atomic!Tops),
         Atomic!Memory!Write(t, l, v, order, continued)
  PROVE  Written(t, l, v, order, continued)
<1> DEFINE View == Atomic!Memory!View
           Upper(x, y) == Atomic!Memory!Join(x, y)
           start == Atomic!Memory!StartView
           here == [start EXCEPT ![l] = Len(memory[l]) + 1]
           passed == IF Atomic!Memory!Acquires(order) THEN continued ELSE start
           now == Upper(Upper(cur[t], here), passed)
           kept == IF Atomic!Memory!Releases(order) THEN now ELSE Upper(rel[t], here)
           released == Upper(kept, continued)
           message == [value |-> v, view |-> released]
           full == Upper(acq[t], Upper(now, continued))
           tops == [Atomic!Tops EXCEPT ![l] = @ + 1]
<1> HIDE DEF View, Upper, start, here, passed, now, kept, released, message, full, tops
<1>1. /\ memory' = [memory EXCEPT ![l] = Append(@, message)]
      /\ cur' = [cur EXCEPT ![t] = now]
      /\ acq' = [acq EXCEPT ![t] = full]
      /\ rel' = rel
  BY Zenon
  DEF Atomic!Memory!Write, Atomic!Memory!Newest, Upper, start, here, passed, now, kept,
      released, message, full
<1>2. /\ cur[t] \in View /\ acq[t] \in View /\ rel[t] \in View /\ continued \in View
      /\ Atomic!Behind(cur[t], acq[t]) /\ Atomic!Behind(acq[t], Atomic!Tops)
      /\ Atomic!Behind(rel[t], cur[t])
      /\ Atomic!Tops \in View
  BY DEF Atomic!MemoryOK, View
<1>3. /\ tops \in View /\ Atomic!Behind(Atomic!Tops, tops) /\ Atomic!Tops[l] = Len(memory[l])
      /\ tops[l] = Len(memory[l]) + 1 /\ Len(memory[l]) \in Nat
      /\ \A k \in Atomic!Location \ {l} : tops[k] = Atomic!Tops[k]
  <2>1. Atomic!Tops[l] = Len(memory[l]) /\ \A k \in Atomic!Location :
          Atomic!Tops[k] \in Nat \ {0}
    BY <1>2 DEF Atomic!Tops, View, Atomic!Memory!View
  <2>2. tops \in [Atomic!Location -> Nat \ {0}]
    BY <1>2, <2>1 DEF tops, View, Atomic!Memory!View
  <2>3. tops[l] = Atomic!Tops[l] + 1 /\ \A k \in Atomic!Location \ {l} : tops[k] = Atomic!Tops[k]
    BY <1>2, <2>1 DEF tops, View, Atomic!Memory!View
  <2>4. Atomic!Tops[l] = Len(memory[l]) /\ Len(memory[l]) \in Nat
    BY <2>1
  <2>5. Atomic!Behind(Atomic!Tops, tops)
    BY <2>1, <2>3 DEF Atomic!Behind
  <2> QED
    BY <2>2, <2>3, <2>4, <2>5 DEF View, Atomic!Memory!View
<1>4. here \in View /\ here[l] = Len(memory[l]) + 1 /\ Atomic!Behind(here, tops)
  <2>1. Len(memory[l]) + 1 \in Nat \ {0}
    BY <1>3
  <2> QED
    BY <1>3, <2>1 DEF here, start, View, Atomic!Memory!View, Atomic!Memory!StartView,
       Atomic!Behind
<1>5. /\ Atomic!Behind(cur[t], tops) /\ Atomic!Behind(acq[t], tops)
      /\ Atomic!Behind(rel[t], tops)
      /\ Atomic!Behind(continued, tops)
  BY <1>2, <1>3, BehindOrder DEF View
<1>6. passed \in View /\ Atomic!Behind(passed, tops)
      /\ (Atomic!Memory!Acquires(order) => passed = continued)
  BY <1>2, <1>3, <1>5, StartViewLeast DEF passed, start, View
<1>7. now \in View /\ Atomic!Behind(now, tops) /\ Atomic!Behind(cur[t], now)
      /\ Atomic!Behind(here, now)
      /\ Atomic!Behind(passed, now)
  <2>1. Upper(cur[t], here) \in View /\ Atomic!Behind(Upper(cur[t], here), tops)
        /\ Atomic!Behind(cur[t], Upper(cur[t], here)) /\ Atomic!Behind(here, Upper(cur[t], here))
    BY <1>2, <1>3, <1>4, <1>5, JoinSupremum DEF Upper, View
  <2>2. now \in View /\ Atomic!Behind(now, tops) /\ Atomic!Behind(Upper(cur[t], here), now)
        /\ Atomic!Behind(passed, now)
    BY <1>3, <1>6, <2>1, JoinSupremum DEF Upper, View, now
  <2> QED
    BY <1>2, <1>4, <2>1, <2>2, BehindOrder DEF View
<1>8. kept \in View /\ Atomic!Behind(kept, tops) /\ Atomic!Behind(rel[t], kept)
      /\ Atomic!Behind(here, kept)
      /\ (Atomic!Memory!Releases(order) => Atomic!Behind(cur[t], kept))
  <2>1. Upper(rel[t], here) \in View /\ Atomic!Behind(Upper(rel[t], here), tops)
        /\ Atomic!Behind(rel[t], Upper(rel[t], here)) /\ Atomic!Behind(here, Upper(rel[t], here))
    BY <1>2, <1>3, <1>4, <1>5, JoinSupremum DEF Upper, View
  <2>2. Atomic!Behind(rel[t], now)
    BY <1>2, <1>7, BehindOrder DEF View
  <2> QED
    BY <1>7, <2>1, <2>2 DEF kept
<1>9. released \in View /\ Atomic!Behind(released, tops) /\ Atomic!Behind(kept, released)
      /\ Atomic!Behind(continued, released)
  BY <1>2, <1>3, <1>5, <1>8, JoinSupremum DEF Upper, View, released
<1>10. /\ Atomic!Behind(rel[t], released) /\ Atomic!Behind(here, released)
       /\ Atomic!Memory!Releases(order) => Atomic!Behind(cur[t], released)
  BY <1>2, <1>4, <1>8, <1>9, BehindOrder DEF View
<1>11. /\ full \in View /\ Atomic!Behind(full, tops) /\ Atomic!Behind(acq[t], full)
       /\ Atomic!Behind(now, full)
       /\ Atomic!Behind(continued, full)
  <2>1. Upper(now, continued) \in View /\ Atomic!Behind(Upper(now, continued), tops)
        /\ Atomic!Behind(now, Upper(now, continued))
           /\ Atomic!Behind(continued, Upper(now, continued))
    BY <1>2, <1>3, <1>5, <1>7, JoinSupremum DEF Upper, View
  <2>2. full \in View /\ Atomic!Behind(full, tops) /\ Atomic!Behind(acq[t], full)
        /\ Atomic!Behind(Upper(now, continued), full)
    BY <1>2, <1>3, <1>5, <2>1, JoinSupremum DEF Upper, View, full
  <2> QED
    BY <1>2, <1>7, <2>1, <2>2, BehindOrder DEF View
<1>12. now[l] = Len(memory[l]) + 1
  <2>1. here[l] <= now[l] /\ now[l] <= tops[l] /\ now[l] \in Nat
    BY <1>7 DEF Atomic!Behind, View, Atomic!Memory!View
  <2> QED
    BY <1>3, <1>4, <2>1
<1>13. /\ memory \in [Atomic!Location -> Seq(Atomic!Message)]
       /\ memory[l] \in Seq(Atomic!Message)
       /\ message \in Atomic!Message /\ message.value = v /\ message.view = released
  BY <1>9 DEF Atomic!MemoryOK, Atomic!Message, message, View
<1>14. /\ memory' \in [Atomic!Location -> Seq(Atomic!Message)]
       /\ memory'[l] = Append(memory[l], message)
       /\ \A k \in Atomic!Location \ {l} : memory'[k] = memory[k]
  BY <1>1, <1>13
<1>15. /\ Len(memory'[l]) = Len(memory[l]) + 1
       /\ \A m \in 1 .. Len(memory[l]) : memory'[l][m] = memory[l][m]
       /\ memory'[l][Len(memory[l]) + 1] = message
  BY <1>13, <1>14
<1>16. /\ cur' \in [Atomic!Thread -> View] /\ cur'[t] = now
       /\ acq' \in [Atomic!Thread -> View] /\ acq'[t] = full
       /\ \A u \in Atomic!Thread \ {t} : cur'[u] = cur[u] /\ acq'[u] = acq[u]
       /\ rel' = rel
  BY <1>1, <1>7, <1>11 DEF Atomic!MemoryOK, View
<1>17. Atomic!Tops' = tops
  BY <1>14, <1>15, <1>3 DEF Atomic!Tops, tops
<1>18. \A u \in Atomic!Thread :
         Atomic!Behind(cur'[u], acq'[u]) /\ Atomic!Behind(acq'[u], tops)
         /\ Atomic!Behind(rel'[u], cur'[u])
  <2>1. ASSUME NEW u \in Atomic!Thread \ {t}
        PROVE  Atomic!Behind(cur[u], acq[u]) /\ Atomic!Behind(acq[u], tops)
               /\ Atomic!Behind(rel[u], cur[u])
    <3>1. acq[u] \in View /\ Atomic!Behind(acq[u], Atomic!Tops)
      BY DEF Atomic!MemoryOK, View
    <3>2. Atomic!Behind(acq[u], tops)
      BY <1>2, <1>3, <3>1, BehindOrder DEF View
    <3> QED
      BY <3>2 DEF Atomic!MemoryOK
  <2>2. Atomic!Behind(rel[t], now)
    BY <1>2, <1>7, BehindOrder DEF View
  <2> QED
    BY <1>11, <1>16, <2>1, <2>2
<1>19. ASSUME NEW f \in Atomic!Location, NEW m \in 1 .. Len(memory'[f])
       PROVE  Atomic!Behind(memory'[f][m].view, tops)
  <2>1. CASE f = l /\ m = Len(memory[l]) + 1
    BY <1>9, <1>13, <1>15, <2>1
  <2>2. CASE ~(f = l /\ m = Len(memory[l]) + 1)
    <3>1. m \in 1 .. Len(memory[f]) /\ memory'[f][m] = memory[f][m]
      <4>1. CASE f = l
        BY <1>3, <1>15, <2>2, <4>1
      <4>2. CASE f # l
        BY <1>14, <4>2
      <4> QED
        BY <4>1, <4>2
    <3>2. memory[f][m].view \in View /\ Atomic!Behind(memory[f][m].view, Atomic!Tops)
      <4>1. memory[f][m] \in Atomic!Message
        BY <1>13, <3>1
      <4> QED
        BY <3>1, <4>1 DEF Atomic!MemoryOK, Atomic!Message, View
    <3> QED
      BY <1>2, <1>3, <3>1, <3>2, BehindOrder DEF View
  <2> QED
    BY <2>1, <2>2
<1>20. Atomic!MemoryOK'
  BY <1>3, <1>14, <1>16, <1>17, <1>18, <1>19 DEF Atomic!MemoryOK, View
<1> QED
  BY <1>6, <1>7, <1>9, <1>10, <1>11, <1>12, <1>13, <1>14, <1>15, <1>16, <1>17, <1>20
  DEF Written, tops, View

(* A load may read any message that the thread has not gone past.          *)
LEMMA ReadableMessages ==
  ASSUME Atomic!MemoryOK, NEW t \in Atomic!Thread, NEW l \in Atomic!Location, NEW order,
         NEW m \in Atomic!Memory!Readable(t, l, order)
  PROVE  /\ m \in 1 .. Len(memory[l]) /\ cur[t][l] <= m
         /\ memory[l][m] \in Atomic!Message /\ memory[l][m].view \in Atomic!Memory!View
         /\ Atomic!Behind(memory[l][m].view, Atomic!Tops)
<1>1. /\ memory[l] \in Seq(Atomic!Message) /\ Len(memory[l]) \in Nat
      /\ Atomic!Tops[l] = Len(memory[l])
  BY DEF Atomic!MemoryOK, Atomic!Tops
<1>2. cur[t][l] \in Nat \ {0} /\ cur[t][l] <= Len(memory[l])
  <2>1. cur[t] \in Atomic!Memory!View /\ acq[t] \in Atomic!Memory!View
    BY DEF Atomic!MemoryOK
  <2>2. cur[t][l] <= acq[t][l] /\ acq[t][l] <= Atomic!Tops[l]
    BY DEF Atomic!MemoryOK, Atomic!Behind
  <2> QED
    BY <1>1, <2>1, <2>2 DEF Atomic!Memory!View
<1>3. m \in 1 .. Len(memory[l]) /\ cur[t][l] <= m
  BY <1>1, <1>2 DEF Atomic!Memory!Readable, Atomic!Memory!Newest
<1>4. memory[l][m] \in Atomic!Message
  BY <1>1, <1>3
<1> QED
  BY <1>3, <1>4 DEF Atomic!MemoryOK, Atomic!Message

Loaded(t, l, m, order) ==
  LET view == memory[l][m].view
  IN /\ Atomic!MemoryOK' /\ memory' = memory /\ rel' = rel
     /\ Atomic!Behind(cur[t], cur'[t]) /\ m <= cur'[t][l]
     /\ Atomic!Memory!Acquires(order) => Atomic!Behind(view, cur'[t])
     /\ Atomic!Behind(acq[t], acq'[t]) /\ Atomic!Behind(view, acq'[t])
     /\ \A u \in Atomic!Thread \ {t} : cur'[u] = cur[u] /\ acq'[u] = acq[u]

LEMMA LoadEffect ==
  ASSUME Atomic!MemoryOK, NEW t \in Atomic!Thread, NEW l \in Atomic!Location, NEW m, NEW order,
         Atomic!Memory!Load(t, l, m, order)
  PROVE  Loaded(t, l, m, order)
<1> DEFINE View == Atomic!Memory!View
           Upper(x, y) == Atomic!Memory!Join(x, y)
           start == Atomic!Memory!StartView
           here == [start EXCEPT ![l] = m]
           view == memory[l][m].view
           passed == IF Atomic!Memory!Acquires(order) THEN view ELSE start
           now == Upper(Upper(cur[t], here), passed)
           full == Upper(Upper(acq[t], here), view)
<1> HIDE DEF View, Upper, start, here, view, passed, now, full
<1>1. /\ m \in Atomic!Memory!Readable(t, l, order)
      /\ cur' = [cur EXCEPT ![t] = now] /\ acq' = [acq EXCEPT ![t] = full]
      /\ memory' = memory /\ rel' = rel
  BY Zenon DEF Atomic!Memory!Load, Upper, start, here, view, passed, now, full
<1>2. m \in 1 .. Len(memory[l]) /\ view \in View /\ Atomic!Behind(view, Atomic!Tops)
  BY <1>1, ReadableMessages DEF view, View
<1>3. /\ cur[t] \in View /\ acq[t] \in View /\ rel[t] \in View
      /\ Atomic!Behind(cur[t], acq[t]) /\ Atomic!Behind(acq[t], Atomic!Tops)
      /\ Atomic!Behind(rel[t], cur[t])
      /\ Atomic!Tops \in View /\ Atomic!Tops[l] = Len(memory[l]) /\ Len(memory[l]) \in Nat
  <2>1. memory[l] \in Seq(Atomic!Message) /\ Atomic!Tops[l] = Len(memory[l])
    BY DEF Atomic!MemoryOK, Atomic!Tops
  <2> QED
    BY <2>1 DEF Atomic!MemoryOK, View
<1>4. here \in View /\ here[l] = m /\ Atomic!Behind(here, Atomic!Tops)
  BY <1>2, <1>3 DEF here, start, View, Atomic!Memory!View, Atomic!Memory!StartView, Atomic!Behind
<1>5. Atomic!Behind(cur[t], Atomic!Tops)
  BY <1>3, BehindOrder DEF View
<1>6. passed \in View /\ Atomic!Behind(passed, Atomic!Tops) /\ Atomic!Behind(passed, view)
      /\ (Atomic!Memory!Acquires(order) => passed = view)
  BY <1>2, <1>3, StartViewLeast, BehindOrder DEF passed, start, View
<1>7. /\ Upper(cur[t], here) \in View /\ Atomic!Behind(Upper(cur[t], here), Atomic!Tops)
      /\ Atomic!Behind(cur[t], Upper(cur[t], here)) /\ Atomic!Behind(here, Upper(cur[t], here))
      /\ \A b \in View :
           Atomic!Behind(cur[t], b) /\ Atomic!Behind(here, b) =>
             Atomic!Behind(Upper(cur[t], here), b)
  BY <1>3, <1>4, <1>5, JoinSupremum DEF Upper, View
<1>8. now \in View /\ Atomic!Behind(Upper(cur[t], here), now) /\ Atomic!Behind(passed, now)
      /\ \A b \in View :
           Atomic!Behind(Upper(cur[t], here), b) /\ Atomic!Behind(passed, b) =>
             Atomic!Behind(now, b)
  BY <1>6, <1>7, JoinSupremum DEF Upper, View, now
<1>9. /\ Upper(acq[t], here) \in View /\ Atomic!Behind(Upper(acq[t], here), Atomic!Tops)
      /\ Atomic!Behind(acq[t], Upper(acq[t], here)) /\ Atomic!Behind(here, Upper(acq[t], here))
  BY <1>3, <1>4, JoinSupremum DEF Upper, View
<1>10. full \in View /\ Atomic!Behind(full, Atomic!Tops)
       /\ Atomic!Behind(Upper(acq[t], here), full)
       /\ Atomic!Behind(view, full)
  BY <1>2, <1>3, <1>9, JoinSupremum DEF Upper, View, full
<1>11. Atomic!Behind(cur[t], now) /\ Atomic!Behind(here, now) /\ Atomic!Behind(acq[t], full)
       /\ Atomic!Behind(here, full)
  BY <1>3, <1>4, <1>7, <1>8, <1>9, <1>10, BehindOrder DEF View
<1>12. Atomic!Behind(now, full)
  <2>1. Atomic!Behind(cur[t], full) /\ Atomic!Behind(passed, full)
    BY <1>2, <1>3, <1>6, <1>10, <1>11, BehindOrder DEF View
  <2> QED
    BY <1>7, <1>8, <1>10, <1>11, <2>1
<1>13. /\ cur' \in [Atomic!Thread -> View] /\ cur'[t] = now
       /\ acq' \in [Atomic!Thread -> View] /\ acq'[t] = full
       /\ \A u \in Atomic!Thread \ {t} : cur'[u] = cur[u] /\ acq'[u] = acq[u]
  BY <1>1, <1>8, <1>10 DEF Atomic!MemoryOK, View
<1>14. m <= now[l]
  <2>1. here[l] <= now[l] /\ now[l] \in Nat
    BY <1>8, <1>11 DEF Atomic!Behind, View, Atomic!Memory!View
  <2> QED
    BY <1>4, <2>1
<1>15. Atomic!Tops' = Atomic!Tops
  BY <1>1 DEF Atomic!Tops
<1>16. \A u \in Atomic!Thread :
         Atomic!Behind(cur'[u], acq'[u]) /\ Atomic!Behind(acq'[u], Atomic!Tops)
         /\ Atomic!Behind(rel'[u], cur'[u])
  <2>1. Atomic!Behind(rel[t], now)
    BY <1>3, <1>8, <1>11, BehindOrder DEF View
  <2> QED
    BY <1>1, <1>10, <1>12, <1>13, <2>1 DEF Atomic!MemoryOK
<1>17. Atomic!MemoryOK'
  BY <1>1, <1>3, <1>13, <1>15, <1>16 DEF Atomic!MemoryOK, View
<1> QED
  BY <1>1, <1>6, <1>8, <1>10, <1>11, <1>13, <1>14, <1>17 DEF Loaded, view

Fenced(t, order) ==
  /\ Atomic!MemoryOK' /\ memory' = memory
  /\ Atomic!Behind(cur[t], cur'[t])
  /\ Atomic!Memory!Acquires(order) => Atomic!Behind(acq[t], cur'[t])
  /\ Atomic!Memory!Releases(order) => rel'[t] = cur'[t]
  /\ Atomic!Behind(rel[t], rel'[t]) /\ acq' = acq
  /\ \A u \in Atomic!Thread \ {t} : cur'[u] = cur[u] /\ rel'[u] = rel[u]

LEMMA FenceEffect ==
  ASSUME Atomic!MemoryOK, NEW t \in Atomic!Thread, NEW order, Atomic!Memory!Fence(t, order)
  PROVE  Fenced(t, order)
<1> DEFINE View == Atomic!Memory!View
<1> HIDE DEF View
<1>1. /\ memory' = memory /\ acq' = acq
      /\ cur' = IF Atomic!Memory!Acquires(order) THEN [cur EXCEPT ![t] = acq[t]] ELSE cur
      /\ rel' = IF Atomic!Memory!Releases(order) THEN [rel EXCEPT ![t] = cur'[t]] ELSE rel
  BY Zenon DEF Atomic!Memory!Fence
<1>2. /\ cur \in [Atomic!Thread -> View] /\ acq \in [Atomic!Thread -> View]
      /\ rel \in [Atomic!Thread -> View]
      /\ \A u \in Atomic!Thread :
           Atomic!Behind(cur[u], acq[u]) /\ Atomic!Behind(acq[u], Atomic!Tops)
           /\ Atomic!Behind(rel[u], cur[u])
  BY DEF Atomic!MemoryOK, View
<1>3. /\ cur' \in [Atomic!Thread -> View]
      /\ cur'[t] = IF Atomic!Memory!Acquires(order) THEN acq[t] ELSE cur[t]
      /\ \A u \in Atomic!Thread \ {t} : cur'[u] = cur[u]
  BY <1>1, <1>2
<1>4. /\ rel' \in [Atomic!Thread -> View]
      /\ rel'[t] = IF Atomic!Memory!Releases(order) THEN cur'[t] ELSE rel[t]
      /\ \A u \in Atomic!Thread \ {t} : rel'[u] = rel[u]
  BY <1>1, <1>2, <1>3
<1>5. Atomic!Behind(cur[t], cur'[t]) /\ Atomic!Behind(cur'[t], acq[t])
  BY <1>2, <1>3, BehindOrder DEF View
<1>6. Atomic!Behind(rel[t], rel'[t]) /\ Atomic!Behind(rel'[t], cur'[t])
  BY <1>2, <1>3, <1>4, <1>5, BehindOrder DEF View
<1>7. Atomic!Tops' = Atomic!Tops
  BY <1>1 DEF Atomic!Tops
<1>8. Atomic!MemoryOK'
  <2>1. \A u \in Atomic!Thread :
          Atomic!Behind(cur'[u], acq'[u]) /\ Atomic!Behind(acq'[u], Atomic!Tops)
          /\ Atomic!Behind(rel'[u], cur'[u])
    BY <1>1, <1>2, <1>3, <1>4, <1>5, <1>6
  <2> QED
    BY <1>1, <1>3, <1>4, <1>7, <2>1 DEF Atomic!MemoryOK, View
<1> QED
  BY <1>1, <1>2, <1>3, <1>4, <1>5, <1>6, <1>8, BehindOrder DEF Fenced, View

LEMMA SyncWithAtomicsFits ==
  ASSUME NEW t \in Atomic!Thread, NEW i \in 1 .. Len(Atomic!Code["sync_with_atomics"][t])
  PROVE  Atomic!InstructionFits("sync_with_atomics", t, i,
               Atomic!Code["sync_with_atomics"][t][i])
<1>0. USE DEF Atomic!StoreOf, Atomic!Store, Atomic!Fence, Atomic!Increment, Atomic!Branch,
          Atomic!Show, Atomic!Await, Atomic!FetchSub, Atomic!Element, Atomic!None,
          Atomic!InstructionFits, Atomic!StoreFits, Atomic!ReadFits, Atomic!MoveFits,
          Atomic!Targets, Atomic!InVain, Atomic!Counts, Atomic!Location, Atomic!Elements,
          Atomic!Data, Atomic!Flags, Atomic!Writer, Atomic!WrittenAt, Atomic!Passed,
          Atomic!Informed, Atomic!HasRead, Atomic!Synchronized, Atomic!Memory!Acquires,
          Atomic!Memory!Releases
<1>1. Atomic!Code["sync_with_atomics"] = Atomic!SyncWithAtomics
  BY DEF Atomic!Code
<1>2. Items \in Nat \ {0}
  BY ListingsAssumption DEF Atomic!ConstantsAssumption
<1>3. CASE t = "a"
  <2>1. Len(Atomic!Code["sync_with_atomics"][t]) = 2
    BY <1>1, <1>3 DEF Atomic!SyncWithAtomics, Atomic!reader_thread
  <2>2. CASE i = 1
    BY <1>1, <1>2, <1>3, <2>1, <2>2 DEF Atomic!SyncWithAtomics, Atomic!reader_thread
  <2>3. CASE i = 2
    BY <1>1, <1>2, <1>3, <2>1, <2>3 DEF Atomic!SyncWithAtomics, Atomic!reader_thread
  <2>4. i = 1 \/ i = 2
    BY <2>1
  <2> QED
    BY <2>2, <2>3, <2>4, Zenon
<1>4. CASE t = "b"
  <2>1. Len(Atomic!Code["sync_with_atomics"][t]) = 2
    BY <1>1, <1>4 DEF Atomic!SyncWithAtomics, Atomic!writer_thread
  <2>2. CASE i = 1
    BY <1>1, <1>2, <1>4, <2>1, <2>2 DEF Atomic!SyncWithAtomics, Atomic!writer_thread
  <2>3. CASE i = 2
    BY <1>1, <1>2, <1>4, <2>1, <2>3 DEF Atomic!SyncWithAtomics, Atomic!writer_thread
  <2>4. i = 1 \/ i = 2
    BY <2>1
  <2> QED
    BY <2>2, <2>3, <2>4, Zenon
<1>5. CASE t = "c"
  BY <1>1, <1>5 DEF Atomic!SyncWithAtomics
<1>6. CASE t = "d"
  BY <1>1, <1>6, SMTT(30) DEF Atomic!SyncWithAtomics
<1> QED
  BY <1>3, <1>4, <1>5, <1>6, Zenon DEF Atomic!Thread

LEMMA SequentialConsistencyFits ==
  ASSUME NEW t \in Atomic!Thread, NEW i \in 1 .. Len(Atomic!Code["sequential_consistency"][t])
  PROVE  Atomic!InstructionFits("sequential_consistency", t, i,
               Atomic!Code["sequential_consistency"][t][i])
<1>0. USE DEF Atomic!StoreOf, Atomic!Store, Atomic!Fence, Atomic!Increment, Atomic!Branch,
          Atomic!Show, Atomic!Await, Atomic!FetchSub, Atomic!Element, Atomic!None,
          Atomic!InstructionFits, Atomic!StoreFits, Atomic!ReadFits, Atomic!MoveFits,
          Atomic!Targets, Atomic!InVain, Atomic!Counts, Atomic!Location, Atomic!Elements,
          Atomic!Data, Atomic!Flags, Atomic!Writer, Atomic!WrittenAt, Atomic!Passed,
          Atomic!Informed, Atomic!HasRead, Atomic!Synchronized, Atomic!Memory!Acquires,
          Atomic!Memory!Releases
<1>1. Atomic!Code["sequential_consistency"] = Atomic!SequentialConsistency
  BY DEF Atomic!Code
<1>2. Items \in Nat \ {0}
  BY ListingsAssumption DEF Atomic!ConstantsAssumption
<1>3. CASE t = "a"
  <2>1. Len(Atomic!Code["sequential_consistency"][t]) = 1
    BY <1>1, <1>3 DEF Atomic!SequentialConsistency
  <2>2. CASE i = 1
    BY <1>1, <1>2, <1>3, <2>1, <2>2 DEF Atomic!SequentialConsistency
  <2>3. i = 1
    BY <2>1
  <2> QED
    BY <2>2, <2>3, Zenon
<1>4. CASE t = "b"
  <2>1. Len(Atomic!Code["sequential_consistency"][t]) = 1
    BY <1>1, <1>4 DEF Atomic!SequentialConsistency
  <2>2. CASE i = 1
    BY <1>1, <1>2, <1>4, <2>1, <2>2 DEF Atomic!SequentialConsistency
  <2>3. i = 1
    BY <2>1
  <2> QED
    BY <2>2, <2>3, Zenon
<1>5. CASE t = "c"
  <2>1. Len(Atomic!Code["sequential_consistency"][t]) = 3
    BY <1>1, <1>5 DEF Atomic!SequentialConsistency, Atomic!CountIf
  <2>2. CASE i = 1
    BY <1>1, <1>2, <1>5, <2>1, <2>2 DEF Atomic!SequentialConsistency, Atomic!CountIf
  <2>3. CASE i = 2
    BY <1>1, <1>2, <1>5, <2>1, <2>3 DEF Atomic!SequentialConsistency, Atomic!CountIf
  <2>4. CASE i = 3
    BY <1>1, <1>2, <1>5, <2>1, <2>4 DEF Atomic!SequentialConsistency, Atomic!CountIf
  <2>5. i = 1 \/ i = 2 \/ i = 3
    BY <2>1
  <2> QED
    BY <2>2, <2>3, <2>4, <2>5, Zenon
<1>6. CASE t = "d"
  <2>1. Len(Atomic!Code["sequential_consistency"][t]) = 3
    BY <1>1, <1>6 DEF Atomic!SequentialConsistency, Atomic!CountIf
  <2>2. CASE i = 1
    BY <1>1, <1>2, <1>6, <2>1, <2>2 DEF Atomic!SequentialConsistency, Atomic!CountIf
  <2>3. CASE i = 2
    BY <1>1, <1>2, <1>6, <2>1, <2>3 DEF Atomic!SequentialConsistency, Atomic!CountIf
  <2>4. CASE i = 3
    BY <1>1, <1>2, <1>6, <2>1, <2>4 DEF Atomic!SequentialConsistency, Atomic!CountIf
  <2>5. i = 1 \/ i = 2 \/ i = 3
    BY <2>1
  <2> QED
    BY <2>2, <2>3, <2>4, <2>5, Zenon
<1> QED
  BY <1>3, <1>4, <1>5, <1>6 DEF Atomic!Thread

LEMMA RelaxedModeFits ==
  ASSUME NEW t \in Atomic!Thread, NEW i \in 1 .. Len(Atomic!Code["relaxed_mode"][t])
  PROVE  Atomic!InstructionFits("relaxed_mode", t, i, Atomic!Code["relaxed_mode"][t][i])
<1>0. USE DEF Atomic!StoreOf, Atomic!Store, Atomic!Fence, Atomic!Increment, Atomic!Branch,
          Atomic!Show, Atomic!Await, Atomic!FetchSub, Atomic!Element, Atomic!None,
          Atomic!InstructionFits, Atomic!StoreFits, Atomic!ReadFits, Atomic!MoveFits,
          Atomic!Targets, Atomic!InVain, Atomic!Counts, Atomic!Location, Atomic!Elements,
          Atomic!Data, Atomic!Flags, Atomic!Writer, Atomic!WrittenAt, Atomic!Passed,
          Atomic!Informed, Atomic!HasRead, Atomic!Synchronized, Atomic!Memory!Acquires,
          Atomic!Memory!Releases
<1>1. Atomic!Code["relaxed_mode"] = Atomic!RelaxedMode
  BY DEF Atomic!Code
<1>2. Items \in Nat \ {0}
  BY ListingsAssumption DEF Atomic!ConstantsAssumption
<1>3. CASE t = "a"
  <2>1. Len(Atomic!Code["relaxed_mode"][t]) = 2
    BY <1>1, <1>3 DEF Atomic!RelaxedMode
  <2>2. CASE i = 1
    BY <1>1, <1>2, <1>3, <2>1, <2>2 DEF Atomic!RelaxedMode
  <2>3. CASE i = 2
    BY <1>1, <1>2, <1>3, <2>1, <2>3 DEF Atomic!RelaxedMode
  <2>4. i = 1 \/ i = 2
    BY <2>1
  <2> QED
    BY <2>2, <2>3, <2>4, Zenon
<1>4. CASE t = "b"
  <2>1. Len(Atomic!Code["relaxed_mode"][t]) = 3
    BY <1>1, <1>4 DEF Atomic!RelaxedMode, Atomic!CountIf
  <2>2. CASE i = 1
    BY <1>1, <1>2, <1>4, <2>1, <2>2 DEF Atomic!RelaxedMode, Atomic!CountIf
  <2>3. CASE i = 2
    BY <1>1, <1>2, <1>4, <2>1, <2>3 DEF Atomic!RelaxedMode, Atomic!CountIf
  <2>4. CASE i = 3
    BY <1>1, <1>2, <1>4, <2>1, <2>4 DEF Atomic!RelaxedMode, Atomic!CountIf
  <2>5. i = 1 \/ i = 2 \/ i = 3
    BY <2>1
  <2> QED
    BY <2>2, <2>3, <2>4, <2>5, Zenon
<1>5. CASE t = "c"
  BY <1>1, <1>5 DEF Atomic!RelaxedMode
<1>6. CASE t = "d"
  BY <1>1, <1>6, SMTT(30) DEF Atomic!RelaxedMode
<1> QED
  BY <1>3, <1>4, <1>5, <1>6 DEF Atomic!Thread

LEMMA AcquireReleaseFits ==
  ASSUME NEW t \in Atomic!Thread, NEW i \in 1 .. Len(Atomic!Code["acquire_release"][t])
  PROVE  Atomic!InstructionFits("acquire_release", t, i, Atomic!Code["acquire_release"][t][i])
<1>0. USE DEF Atomic!StoreOf, Atomic!Store, Atomic!Fence, Atomic!Increment, Atomic!Branch,
          Atomic!Show, Atomic!Await, Atomic!FetchSub, Atomic!Element, Atomic!None,
          Atomic!InstructionFits, Atomic!StoreFits, Atomic!ReadFits, Atomic!MoveFits,
          Atomic!Targets, Atomic!InVain, Atomic!Counts, Atomic!Location, Atomic!Elements,
          Atomic!Data, Atomic!Flags, Atomic!Writer, Atomic!WrittenAt, Atomic!Passed,
          Atomic!Informed, Atomic!HasRead, Atomic!Synchronized, Atomic!Memory!Acquires,
          Atomic!Memory!Releases
<1>1. Atomic!Code["acquire_release"] = Atomic!AcquireRelease
  BY DEF Atomic!Code
<1>2. Items \in Nat \ {0}
  BY ListingsAssumption DEF Atomic!ConstantsAssumption
<1>3. CASE t = "a"
  <2>1. Len(Atomic!Code["acquire_release"][t]) = 2
    BY <1>1, <1>3 DEF Atomic!AcquireRelease
  <2>2. CASE i = 1
    BY <1>1, <1>2, <1>3, <2>1, <2>2 DEF Atomic!AcquireRelease
  <2>3. CASE i = 2
    BY <1>1, <1>2, <1>3, <2>1, <2>3 DEF Atomic!AcquireRelease
  <2>4. i = 1 \/ i = 2
    BY <2>1
  <2> QED
    BY <2>2, <2>3, <2>4, Zenon
<1>4. CASE t = "b"
  <2>1. Len(Atomic!Code["acquire_release"][t]) = 3
    BY <1>1, <1>4 DEF Atomic!AcquireRelease, Atomic!CountIf
  <2>2. CASE i = 1
    BY <1>1, <1>2, <1>4, <2>1, <2>2 DEF Atomic!AcquireRelease, Atomic!CountIf
  <2>3. CASE i = 2
    BY <1>1, <1>2, <1>4, <2>1, <2>3 DEF Atomic!AcquireRelease, Atomic!CountIf
  <2>4. CASE i = 3
    BY <1>1, <1>2, <1>4, <2>1, <2>4 DEF Atomic!AcquireRelease, Atomic!CountIf
  <2>5. i = 1 \/ i = 2 \/ i = 3
    BY <2>1
  <2> QED
    BY <2>2, <2>3, <2>4, <2>5, Zenon
<1>5. CASE t = "c"
  BY <1>1, <1>5 DEF Atomic!AcquireRelease
<1>6. CASE t = "d"
  BY <1>1, <1>6, SMTT(30) DEF Atomic!AcquireRelease
<1> QED
  BY <1>3, <1>4, <1>5, <1>6, Zenon DEF Atomic!Thread

LEMMA TransitiveSyncFits ==
  ASSUME NEW t \in Atomic!Thread, NEW i \in 1 .. Len(Atomic!Code["transitive_sync"][t])
  PROVE  Atomic!InstructionFits("transitive_sync", t, i, Atomic!Code["transitive_sync"][t][i])
<1>0. USE DEF Atomic!StoreOf, Atomic!Store, Atomic!Fence, Atomic!Increment, Atomic!Branch,
          Atomic!Show, Atomic!Await, Atomic!FetchSub, Atomic!Element, Atomic!None,
          Atomic!InstructionFits, Atomic!StoreFits, Atomic!ReadFits, Atomic!MoveFits,
          Atomic!Targets, Atomic!InVain, Atomic!Counts, Atomic!Location, Atomic!Elements,
          Atomic!Data, Atomic!Flags, Atomic!Writer, Atomic!WrittenAt, Atomic!Passed,
          Atomic!Informed, Atomic!HasRead, Atomic!Synchronized, Atomic!Memory!Acquires,
          Atomic!Memory!Releases
<1>1. Atomic!Code["transitive_sync"] = Atomic!TransitiveSync
  BY DEF Atomic!Code
<1>2. Items \in Nat \ {0}
  BY ListingsAssumption DEF Atomic!ConstantsAssumption
<1>3. CASE t = "a"
  <2>1. Len(Atomic!Code["transitive_sync"][t]) = 6
    BY <1>1, <1>3 DEF Atomic!TransitiveSync, Atomic!thread_1
  <2>2. CASE i = 1
    <3>1. /\ Atomic!Code["transitive_sync"][t][i] =
               [op |-> "store", at |-> "data0", value |-> 1, order |-> "relaxed"]
      BY <1>1, <1>3, <2>2 DEF Atomic!TransitiveSync, Atomic!thread_1
    <3>2. Atomic!Counts("transitive_sync", t, 2) = 0
      BY <1>1, <1>3, <2>1 DEF Atomic!TransitiveSync, Atomic!thread_1
    <3>3. Atomic!MoveFits("transitive_sync", t, i, Atomic!Code["transitive_sync"][t][i], 2)
      BY <1>1, <1>3, <2>1, <2>2, <3>1 DEF Atomic!TransitiveSync, Atomic!thread_1
    <3> QED
      BY <1>1, <1>2, <1>3, <2>1, <2>2, <3>1, <3>3
  <2>3. CASE i = 2
    BY <1>1, <1>2, <1>3, <2>3 DEF Atomic!TransitiveSync, Atomic!thread_1
  <2>4. CASE i = 3
    BY <1>1, <1>2, <1>3, <2>4 DEF Atomic!TransitiveSync, Atomic!thread_1
  <2>5. CASE i = 4
    BY <1>1, <1>2, <1>3, <2>5 DEF Atomic!TransitiveSync, Atomic!thread_1
  <2>6. CASE i = 5
    BY <1>1, <1>2, <1>3, <2>6 DEF Atomic!TransitiveSync, Atomic!thread_1
  <2>7. CASE i = 6
    BY <1>1, <1>2, <1>3, <2>7 DEF Atomic!TransitiveSync, Atomic!thread_1
  <2>8. i = 1 \/ i = 2 \/ i = 3 \/ i = 4 \/ i = 5 \/ i = 6
    BY <2>1
  <2> QED
    BY <2>2, <2>3, <2>4, <2>5, <2>6, <2>7, <2>8, Zenon
<1>4. CASE t = "b"
  <2>1. Len(Atomic!Code["transitive_sync"][t]) = 2
    BY <1>1, <1>4 DEF Atomic!TransitiveSync, Atomic!thread_2
  <2>2. CASE i = 1
    BY <1>1, <1>2, <1>4, <2>2 DEF Atomic!TransitiveSync, Atomic!thread_2
  <2>3. CASE i = 2
    BY <1>1, <1>2, <1>4, <2>3 DEF Atomic!TransitiveSync, Atomic!thread_2
  <2>4. i = 1 \/ i = 2
    BY <2>1
  <2> QED
    BY <2>2, <2>3, <2>4, Zenon
<1>5. CASE t = "c"
  <2>1. Len(Atomic!Code["transitive_sync"][t]) = 6
    BY <1>1, <1>5 DEF Atomic!TransitiveSync, Atomic!thread_3
  <2>2. CASE i = 1
    <3>1. Atomic!Code["transitive_sync"][t][i] =
            [op |-> "load", at |-> "sync2", order |-> "acquire", set |-> 3, zero |-> 2]
      BY <1>1, <1>5, <2>2 DEF Atomic!TransitiveSync, Atomic!thread_3
    <3>3. Atomic!MoveFits("transitive_sync", t, i, Atomic!Code["transitive_sync"][t][i], 2)
      BY <1>1, <1>5, <2>1, <2>2, <3>1 DEF Atomic!TransitiveSync, Atomic!thread_3
    <3>4. Atomic!MoveFits("transitive_sync", t, i, Atomic!Code["transitive_sync"][t][i], 3)
      BY <1>1, <1>5, <2>1, <2>2, <3>1 DEF Atomic!TransitiveSync, Atomic!thread_3
    <3> QED
      BY <1>1, <1>2, <1>5, <2>1, <2>2, <3>1, <3>3, <3>4
  <2>3. CASE i = 2
    BY <1>1, <1>2, <1>5, <2>3 DEF Atomic!TransitiveSync, Atomic!thread_3
  <2>4. CASE i = 3
    BY <1>1, <1>2, <1>5, <2>4 DEF Atomic!TransitiveSync, Atomic!thread_3
  <2>5. CASE i = 4
    BY <1>1, <1>2, <1>5, <2>5 DEF Atomic!TransitiveSync, Atomic!thread_3
  <2>6. CASE i = 5
    BY <1>1, <1>2, <1>5, <2>6 DEF Atomic!TransitiveSync, Atomic!thread_3
  <2>7. CASE i = 6
    BY <1>1, <1>2, <1>5, <2>7 DEF Atomic!TransitiveSync, Atomic!thread_3
  <2>8. i = 1 \/ i = 2 \/ i = 3 \/ i = 4 \/ i = 5 \/ i = 6
    BY <2>1
  <2> QED
    BY <2>2, <2>3, <2>4, <2>5, <2>6, <2>7, <2>8, Zenon
<1>6. CASE t = "d"
  BY <1>1, <1>6, SMTT(30) DEF Atomic!TransitiveSync
<1> QED
  BY <1>3, <1>4, <1>5, <1>6, Zenon DEF Atomic!Thread

LEMMA MemoryConsumeFits ==
  ASSUME NEW t \in Atomic!Thread, NEW i \in 1 .. Len(Atomic!Code["memory_consume"][t])
  PROVE  Atomic!InstructionFits("memory_consume", t, i, Atomic!Code["memory_consume"][t][i])
<1>0. USE DEF Atomic!StoreOf, Atomic!Store, Atomic!Fence, Atomic!Increment, Atomic!Branch,
          Atomic!Show, Atomic!Await, Atomic!FetchSub, Atomic!Element, Atomic!None,
          Atomic!InstructionFits, Atomic!StoreFits, Atomic!ReadFits, Atomic!MoveFits,
          Atomic!Targets, Atomic!InVain, Atomic!Counts, Atomic!Location, Atomic!Elements,
          Atomic!Data, Atomic!Flags, Atomic!Writer, Atomic!WrittenAt, Atomic!Passed,
          Atomic!Informed, Atomic!HasRead, Atomic!Synchronized, Atomic!Memory!Acquires,
          Atomic!Memory!Releases
<1>1. Atomic!Code["memory_consume"] = Atomic!MemoryConsume
  BY DEF Atomic!Code
<1>2. Items \in Nat \ {0}
  BY ListingsAssumption DEF Atomic!ConstantsAssumption
<1>3. CASE t = "a"
  <2>1. Len(Atomic!Code["memory_consume"][t]) = 3
    BY <1>1, <1>3 DEF Atomic!MemoryConsume
  <2>2. CASE i = 1
    BY <1>1, <1>2, <1>3, <2>1, <2>2 DEF Atomic!MemoryConsume
  <2>3. CASE i = 2
    BY <1>1, <1>2, <1>3, <2>1, <2>3 DEF Atomic!MemoryConsume
  <2>4. CASE i = 3
    BY <1>1, <1>2, <1>3, <2>1, <2>4 DEF Atomic!MemoryConsume
  <2>5. i = 1 \/ i = 2 \/ i = 3
    BY <2>1
  <2> QED
    BY <2>2, <2>3, <2>4, <2>5, Zenon
<1>4. CASE t = "b"
  <2>1. Len(Atomic!Code["memory_consume"][t]) = 3
    BY <1>1, <1>4 DEF Atomic!MemoryConsume
  <2>2. CASE i = 1
    BY <1>1, <1>2, <1>4, <2>1, <2>2 DEF Atomic!MemoryConsume
  <2>3. CASE i = 2
    BY <1>1, <1>2, <1>4, <2>1, <2>3 DEF Atomic!MemoryConsume
  <2>4. CASE i = 3
    BY <1>1, <1>2, <1>4, <2>1, <2>4 DEF Atomic!MemoryConsume
  <2>5. i = 1 \/ i = 2 \/ i = 3
    BY <2>1
  <2> QED
    BY <2>2, <2>3, <2>4, <2>5, Zenon
<1>5. CASE t = "c"
  BY <1>1, <1>5 DEF Atomic!MemoryConsume
<1>6. CASE t = "d"
  BY <1>1, <1>6, SMTT(30) DEF Atomic!MemoryConsume
<1> QED
  BY <1>3, <1>4, <1>5, <1>6 DEF Atomic!Thread

LEMMA ReadQueueFits ==
  ASSUME NEW t \in Atomic!Thread, NEW i \in 1 .. Len(Atomic!Code["read_queue"][t])
  PROVE  Atomic!InstructionFits("read_queue", t, i, Atomic!Code["read_queue"][t][i])
<1>0. USE DEF Atomic!StoreOf, Atomic!Store, Atomic!Fence, Atomic!Increment, Atomic!Branch,
          Atomic!Show, Atomic!Await, Atomic!FetchSub, Atomic!Element, Atomic!None,
          Atomic!InstructionFits, Atomic!StoreFits, Atomic!ReadFits, Atomic!MoveFits,
          Atomic!Targets, Atomic!InVain, Atomic!Counts, Atomic!Location, Atomic!Elements,
          Atomic!Data, Atomic!Flags, Atomic!Writer, Atomic!WrittenAt, Atomic!Passed,
          Atomic!Informed, Atomic!HasRead, Atomic!Synchronized, Atomic!Memory!Acquires,
          Atomic!Memory!Releases
<1>1. Atomic!Code["read_queue"] = Atomic!ReadQueue
  BY DEF Atomic!Code
<1>2. Items \in Nat \ {0}
  BY ListingsAssumption DEF Atomic!ConstantsAssumption
<1>3. CASE t = "a"
  <2>1. Len(Atomic!Code["read_queue"][t]) = 2
    BY <1>1, <1>3 DEF Atomic!ReadQueue, Atomic!populate_queue
  <2>2. CASE i = 1
    BY <1>1, <1>2, <1>3, <2>1, <2>2 DEF Atomic!ReadQueue, Atomic!populate_queue
  <2>3. CASE i = 2
    BY <1>1, <1>2, <1>3, <2>1, <2>3 DEF Atomic!ReadQueue, Atomic!populate_queue
  <2>4. i = 1 \/ i = 2
    BY <2>1
  <2> QED
    BY <2>2, <2>3, <2>4, Zenon
<1>4. CASE t = "b"
  <2>1. Len(Atomic!Code["read_queue"][t]) = 2
    BY <1>1, <1>4 DEF Atomic!ReadQueue, Atomic!consume_queue_items
  <2>2. CASE i = 1
    BY <1>1, <1>2, <1>4, <2>1, <2>2 DEF Atomic!ReadQueue, Atomic!consume_queue_items
  <2>3. CASE i = 2
    BY <1>1, <1>2, <1>4, <2>1, <2>3 DEF Atomic!ReadQueue, Atomic!consume_queue_items
  <2>4. i = 1 \/ i = 2
    BY <2>1
  <2> QED
    BY <2>2, <2>3, <2>4, Zenon
<1>5. CASE t = "c"
  <2>1. Len(Atomic!Code["read_queue"][t]) = 2
    BY <1>1, <1>5 DEF Atomic!ReadQueue, Atomic!consume_queue_items
  <2>2. CASE i = 1
    BY <1>1, <1>2, <1>5, <2>1, <2>2 DEF Atomic!ReadQueue, Atomic!consume_queue_items
  <2>3. CASE i = 2
    BY <1>1, <1>2, <1>5, <2>1, <2>3 DEF Atomic!ReadQueue, Atomic!consume_queue_items
  <2>4. i = 1 \/ i = 2
    BY <2>1
  <2> QED
    BY <2>2, <2>3, <2>4, Zenon
<1>6. CASE t = "d"
  BY <1>1, <1>6, SMTT(30) DEF Atomic!ReadQueue
<1> QED
  BY <1>3, <1>4, <1>5, <1>6, Zenon DEF Atomic!Thread

LEMMA BarriersFits ==
  ASSUME NEW t \in Atomic!Thread, NEW i \in 1 .. Len(Atomic!Code["barriers"][t])
  PROVE  Atomic!InstructionFits("barriers", t, i, Atomic!Code["barriers"][t][i])
<1>0. USE DEF Atomic!StoreOf, Atomic!Store, Atomic!Fence, Atomic!Increment, Atomic!Branch,
          Atomic!Show, Atomic!Await, Atomic!FetchSub, Atomic!Element, Atomic!None,
          Atomic!InstructionFits, Atomic!StoreFits, Atomic!ReadFits, Atomic!MoveFits,
          Atomic!Targets, Atomic!InVain, Atomic!Counts, Atomic!Location, Atomic!Elements,
          Atomic!Data, Atomic!Flags, Atomic!Writer, Atomic!WrittenAt, Atomic!Passed,
          Atomic!Informed, Atomic!HasRead, Atomic!Synchronized, Atomic!Memory!Acquires,
          Atomic!Memory!Releases
<1>1. Atomic!Code["barriers"] = Atomic!Barriers
  BY DEF Atomic!Code
<1>2. Items \in Nat \ {0}
  BY ListingsAssumption DEF Atomic!ConstantsAssumption
<1>3. CASE t = "a"
  <2>1. Len(Atomic!Code["barriers"][t]) = 3
    BY <1>1, <1>3 DEF Atomic!Barriers
  <2>2. CASE i = 1
    BY <1>1, <1>2, <1>3, <2>1, <2>2 DEF Atomic!Barriers
  <2>3. CASE i = 2
    BY <1>1, <1>2, <1>3, <2>1, <2>3 DEF Atomic!Barriers
  <2>4. CASE i = 3
    BY <1>1, <1>2, <1>3, <2>1, <2>4 DEF Atomic!Barriers
  <2>5. i = 1 \/ i = 2 \/ i = 3
    BY <2>1
  <2> QED
    BY <2>2, <2>3, <2>4, <2>5, Zenon
<1>4. CASE t = "b"
  <2>1. Len(Atomic!Code["barriers"][t]) = 4
    BY <1>1, <1>4 DEF Atomic!Barriers, Atomic!CountIf
  <2>2. CASE i = 1
    BY <1>1, <1>2, <1>4, <2>1, <2>2 DEF Atomic!Barriers, Atomic!CountIf
  <2>3. CASE i = 2
    BY <1>1, <1>2, <1>4, <2>1, <2>3 DEF Atomic!Barriers, Atomic!CountIf
  <2>4. CASE i = 3
    BY <1>1, <1>2, <1>4, <2>1, <2>4 DEF Atomic!Barriers, Atomic!CountIf
  <2>5. CASE i = 4
    BY <1>1, <1>2, <1>4, <2>1, <2>5 DEF Atomic!Barriers, Atomic!CountIf
  <2>6. i = 1 \/ i = 2 \/ i = 3 \/ i = 4
    BY <2>1
  <2> QED
    BY <2>2, <2>3, <2>4, <2>5, <2>6, Zenon
<1>5. CASE t = "c"
  BY <1>1, <1>5 DEF Atomic!Barriers
<1>6. CASE t = "d"
  BY <1>1, <1>6, SMTT(30) DEF Atomic!Barriers
<1> QED
  BY <1>3, <1>4, <1>5, <1>6, Zenon DEF Atomic!Thread

LEMMA SyncNonatomicsFits ==
  ASSUME NEW t \in Atomic!Thread, NEW i \in 1 .. Len(Atomic!Code["sync_nonatomics"][t])
  PROVE  Atomic!InstructionFits("sync_nonatomics", t, i, Atomic!Code["sync_nonatomics"][t][i])
<1>0. USE DEF Atomic!StoreOf, Atomic!Store, Atomic!Fence, Atomic!Increment, Atomic!Branch,
          Atomic!Show, Atomic!Await, Atomic!FetchSub, Atomic!Element, Atomic!None,
          Atomic!InstructionFits, Atomic!StoreFits, Atomic!ReadFits, Atomic!MoveFits,
          Atomic!Targets, Atomic!InVain, Atomic!Counts, Atomic!Location, Atomic!Elements,
          Atomic!Data, Atomic!Flags, Atomic!Writer, Atomic!WrittenAt, Atomic!Passed,
          Atomic!Informed, Atomic!HasRead, Atomic!Synchronized, Atomic!Memory!Acquires,
          Atomic!Memory!Releases
<1>1. Atomic!Code["sync_nonatomics"] = Atomic!SyncNonatomics
  BY DEF Atomic!Code
<1>2. Items \in Nat \ {0}
  BY ListingsAssumption DEF Atomic!ConstantsAssumption
<1>3. CASE t = "a"
  <2>1. Len(Atomic!Code["sync_nonatomics"][t]) = 3
    BY <1>1, <1>3 DEF Atomic!SyncNonatomics
  <2>2. CASE i = 1
    BY <1>1, <1>2, <1>3, <2>1, <2>2 DEF Atomic!SyncNonatomics
  <2>3. CASE i = 2
    BY <1>1, <1>2, <1>3, <2>1, <2>3 DEF Atomic!SyncNonatomics
  <2>4. CASE i = 3
    BY <1>1, <1>2, <1>3, <2>1, <2>4 DEF Atomic!SyncNonatomics
  <2>5. i = 1 \/ i = 2 \/ i = 3
    BY <2>1
  <2> QED
    BY <2>2, <2>3, <2>4, <2>5, Zenon
<1>4. CASE t = "b"
  <2>1. Len(Atomic!Code["sync_nonatomics"][t]) = 4
    BY <1>1, <1>4 DEF Atomic!SyncNonatomics, Atomic!CountIf
  <2>2. CASE i = 1
    BY <1>1, <1>2, <1>4, <2>1, <2>2 DEF Atomic!SyncNonatomics, Atomic!CountIf
  <2>3. CASE i = 2
    BY <1>1, <1>2, <1>4, <2>1, <2>3 DEF Atomic!SyncNonatomics, Atomic!CountIf
  <2>4. CASE i = 3
    BY <1>1, <1>2, <1>4, <2>1, <2>4 DEF Atomic!SyncNonatomics, Atomic!CountIf
  <2>5. CASE i = 4
    BY <1>1, <1>2, <1>4, <2>1, <2>5 DEF Atomic!SyncNonatomics, Atomic!CountIf
  <2>6. i = 1 \/ i = 2 \/ i = 3 \/ i = 4
    BY <2>1
  <2> QED
    BY <2>2, <2>3, <2>4, <2>5, <2>6, Zenon
<1>5. CASE t = "c"
  BY <1>1, <1>5 DEF Atomic!SyncNonatomics
<1>6. CASE t = "d"
  BY <1>1, <1>6 DEF Atomic!SyncNonatomics
<1> QED
  BY <1>3, <1>4, <1>5, <1>6, Zenon DEF Atomic!Thread

LEMMA CodeIsSequence ==
  ASSUME NEW p \in DOMAIN Atomic!Code, NEW t \in Atomic!Thread
  PROVE  /\ Len(Atomic!Code[p][t]) \in Nat
         /\ DOMAIN Atomic!Code[p][t] = 1 .. Len(Atomic!Code[p][t])
<1>1. Atomic!Thread = {"a", "b", "c", "d"}
  BY DEF Atomic!Thread
<1>2. CASE p = "sync_with_atomics"
  <2>1. Atomic!Code[p] = Atomic!SyncWithAtomics
    BY <1>2 DEF Atomic!Code
  <2> QED
    BY <1>1, <2>1 DEF Atomic!SyncWithAtomics, Atomic!reader_thread, Atomic!writer_thread,
       Atomic!None
<1>3. CASE p = "sequential_consistency"
  <2>1. Atomic!Code[p] = Atomic!SequentialConsistency
    BY <1>3 DEF Atomic!Code
  <2> QED
    BY <1>1, <2>1 DEF Atomic!SequentialConsistency, Atomic!CountIf
<1>4. CASE p = "relaxed_mode"
  <2>1. Atomic!Code[p] = Atomic!RelaxedMode
    BY <1>4 DEF Atomic!Code
  <2> QED
    BY <1>1, <2>1 DEF Atomic!RelaxedMode, Atomic!CountIf, Atomic!None
<1>5. CASE p = "acquire_release"
  <2>1. Atomic!Code[p] = Atomic!AcquireRelease
    BY <1>5 DEF Atomic!Code
  <2> QED
    BY <1>1, <2>1 DEF Atomic!AcquireRelease, Atomic!CountIf, Atomic!None
<1>6. CASE p = "transitive_sync"
  <2>1. Atomic!Code[p] = Atomic!TransitiveSync
    BY <1>6 DEF Atomic!Code
  <2> QED
    BY <1>1, <2>1 DEF Atomic!TransitiveSync, Atomic!thread_1, Atomic!thread_2,
       Atomic!thread_3, Atomic!None
<1>7. CASE p = "memory_consume"
  <2>1. Atomic!Code[p] = Atomic!MemoryConsume
    BY <1>7 DEF Atomic!Code
  <2> QED
    BY <1>1, <2>1 DEF Atomic!MemoryConsume, Atomic!None
<1>8. CASE p = "read_queue"
  <2>1. Atomic!Code[p] = Atomic!ReadQueue
    BY <1>8 DEF Atomic!Code
  <2> QED
    BY <1>1, <2>1 DEF Atomic!ReadQueue, Atomic!consume_queue_items, Atomic!populate_queue,
       Atomic!None
<1>9. CASE p = "barriers"
  <2>1. Atomic!Code[p] = Atomic!Barriers
    BY <1>9 DEF Atomic!Code
  <2> QED
    BY <1>1, <2>1 DEF Atomic!Barriers, Atomic!CountIf, Atomic!None
<1>10. CASE p = "sync_nonatomics"
  <2>1. Atomic!Code[p] = Atomic!SyncNonatomics
    BY <1>10 DEF Atomic!Code
  <2> QED
    BY <1>1, <2>1 DEF Atomic!SyncNonatomics, Atomic!CountIf, Atomic!None
<1> QED
  BY <1>2, <1>3, <1>4, <1>5, <1>6, <1>7, <1>8, <1>9, <1>10 DEF Atomic!Code

LEMMA ProgramsFit == \A p \in DOMAIN Atomic!Code : Atomic!ProgramFits(p)
<1>1. ASSUME NEW p \in DOMAIN Atomic!Code, NEW t \in Atomic!Thread,
             NEW i \in 1 .. Len(Atomic!Code[p][t])
      PROVE  Atomic!InstructionFits(p, t, i, Atomic!Code[p][t][i])
  <2>1. p \in {"sync_with_atomics", "sequential_consistency", "relaxed_mode",
              "acquire_release", "transitive_sync", "memory_consume", "read_queue", "barriers",
              "sync_nonatomics"}
    BY DEF Atomic!Code
  <2> QED
    BY <2>1, SyncWithAtomicsFits, SequentialConsistencyFits, RelaxedModeFits, AcquireReleaseFits,
       TransitiveSyncFits, MemoryConsumeFits, ReadQueueFits, BarriersFits, SyncNonatomicsFits
<1>2. \A p \in DOMAIN Atomic!Code, t \in Atomic!Thread :
        ~Atomic!Passed(p, t, 1) /\ \A l \in Atomic!Data(p) : ~Atomic!HasRead(p, t, 1, l)
  BY DEF Atomic!Passed, Atomic!HasRead, Atomic!WrittenAt, Atomic!Elements
<1>3. /\ Atomic!Code["read_queue"] = Atomic!ReadQueue
      /\ Atomic!Code["sequential_consistency"] = Atomic!SequentialConsistency
  BY DEF Atomic!Code
<1>4. ASSUME NEW t \in Atomic!Thread
      PROVE  Len(Atomic!Code["read_queue"][t]) = IF t = "d" THEN 0 ELSE 2
  <2>1. CASE t = "a"
    BY <1>3, <2>1 DEF Atomic!ReadQueue, Atomic!populate_queue
  <2>2. CASE t = "b"
    BY <1>3, <2>2 DEF Atomic!ReadQueue, Atomic!consume_queue_items
  <2>3. CASE t = "c"
    BY <1>3, <2>3 DEF Atomic!ReadQueue, Atomic!consume_queue_items
  <2>4. CASE t = "d"
    BY <1>3, <2>4 DEF Atomic!ReadQueue, Atomic!None
  <2> QED
    BY <2>1, <2>2, <2>3, <2>4 DEF Atomic!Thread
<1>5. /\ Atomic!Code["read_queue"]["b"][2].op = "element"
      /\ Atomic!Code["read_queue"]["c"][2].op = "element"
  BY <1>3 DEF Atomic!ReadQueue, Atomic!consume_queue_items, Atomic!Element
<1>6. ASSUME NEW p \in DOMAIN Atomic!Code
      PROVE  Atomic!Counts(p, "a", 1) + Atomic!Counts(p, "b", 1) + Atomic!Counts(p, "c", 1)
               + Atomic!Counts(p, "d", 1) <= 2
  <2>1. ASSUME NEW t \in Atomic!Thread, Atomic!Counts(p, t, 1) # 0
        PROVE  t \in IF p = "sequential_consistency" THEN {"c", "d"} ELSE {"b"}
    <3>1. PICK i \in 1 .. Len(Atomic!Code[p][t]) : Atomic!Code[p][t][i].op = "increment"
      BY <2>1 DEF Atomic!Counts
    <3> QED
      BY <1>1, <3>1 DEF Atomic!InstructionFits
  <2>2. \A t \in Atomic!Thread : Atomic!Counts(p, t, 1) \in {0, 1}
    BY DEF Atomic!Counts
  <2> QED
    BY <2>1, <2>2 DEF Atomic!Thread
<1> QED
  BY <1>1, <1>2, <1>4, <1>5, <1>6 DEF Atomic!ProgramFits

LEMMA InstructionAt ==
  ASSUME Atomic!PlacesOK, NEW t \in Atomic!Thread, ~Atomic!Ended(t)
  PROVE  /\ atomicPc[t] \in 1 .. Len(Atomic!Code[atomicProgram][t])
         /\ Atomic!InstructionFits(atomicProgram, t, atomicPc[t], Atomic!At(t))
         /\ \A j \in Atomic!Targets(Atomic!At(t), atomicPc[t]) :
              Atomic!MoveFits(atomicProgram, t, atomicPc[t], Atomic!At(t), j)
<1>1. atomicProgram \in DOMAIN Atomic!Code /\ atomicPc[t] \in Nat
      /\ atomicPc[t] \in 1 .. Len(Atomic!Code[atomicProgram][t]) + 1
  BY DEF Atomic!PlacesOK
<1>2. Len(Atomic!Code[atomicProgram][t]) \in Nat
  BY <1>1, CodeIsSequence
<1>3. atomicPc[t] \in 1 .. Len(Atomic!Code[atomicProgram][t])
  BY <1>1, <1>2 DEF Atomic!Ended
<1>4. Atomic!InstructionFits(atomicProgram, t, atomicPc[t], Atomic!At(t))
  BY <1>1, <1>3, ProgramsFit DEF Atomic!ProgramFits, Atomic!At
<1> QED
  BY <1>3, <1>4 DEF Atomic!InstructionFits

(* What every step does: thread t executes the instruction c, goes on at   *)
(* place j, and may append a message to the location of c or learn from    *)
(* one.                                                                    *)
Writing == {"store", "increment", "fetch_sub"}
Reading == {"load", "element", "fetch_sub"}

Appends(t, c) ==
  LET l == c.at
      n == Len(memory[l])
      new == memory'[l][n + 1]
  IN /\ l \in Atomic!Location
     /\ Len(memory'[l]) = n + 1 /\ n \in Nat \ {0}
     /\ \A m \in 1 .. n : memory'[l][m] = memory[l][m]
     /\ new \in Atomic!Message /\ cur'[t][l] = n + 1
     /\ c.op = "store" =>
          /\ new.value = c.value /\ Atomic!Behind(rel[t], new.view)
          /\ Atomic!Memory!Releases(c.order) => Atomic!Behind(cur[t], new.view)
     /\ c.op = "increment" => new.value = memory[l][n].value + 1
     /\ c.op = "fetch_sub" =>
          new.value = memory[l][n].value - 1 /\ Atomic!Behind(memory[l][n].view, new.view)

Learns(t, c) ==
  \E m \in 1 .. Len(memory[c.at]) :
    /\ memory[c.at][m].value > 0 /\ memory[c.at][m].view \in Atomic!Memory!View
    /\ Atomic!Behind(memory[c.at][m].view, acq'[t])
    /\ Atomic!Memory!Acquires(c.order) => Atomic!Behind(memory[c.at][m].view, cur'[t])

Turn(t, c, j) ==
  LET i == atomicPc[t]
  IN /\ t \in Atomic!Thread /\ i \in Nat /\ j \in Nat
     /\ Atomic!InstructionFits(atomicProgram, t, i, c)
     /\ Atomic!MoveFits(atomicProgram, t, i, c, j) /\ (c.op = "increment" => j = i + 1)
     /\ atomicProgram' = atomicProgram /\ atomicPc' = [atomicPc EXCEPT ![t] = j]
     /\ Atomic!MemoryOK'
     /\ \A u \in Atomic!Thread :
          /\ Atomic!Behind(cur[u], cur'[u]) /\ Atomic!Behind(acq[u], acq'[u])
          /\ Atomic!Behind(rel[u], rel'[u])
     /\ c.op \in Writing => Appends(t, c)
     /\ \A l \in Atomic!Location : c.op \notin Writing \/ c.at # l => memory'[l] = memory[l]
     /\ c.op \in {"load", "fetch_sub"} /\ j # Atomic!InVain(c, i) => Learns(t, c)
     /\ c.op = "fence" =>
          /\ Atomic!Memory!Acquires(c.order) => Atomic!Behind(acq[t], cur'[t])
          /\ Atomic!Memory!Releases(c.order) => rel'[t] = cur'[t]
     /\ \A u \in Atomic!Thread, l \in Atomic!Location :
          ~(u = t /\ c.op \in Reading /\ c.at = l) => read'[u][l] = read[u][l]
     /\ c.op \in Reading =>
          \E m \in 1 .. Len(memory[c.at]) :
            cur[t][c.at] <= m /\ read'[t][c.at] = memory[c.at][m].value

LEMMA WrittenGrows ==
  ASSUME Atomic!MemoryOK, NEW t \in Atomic!Thread, NEW l \in Atomic!Location, NEW v, NEW order,
         NEW continued, Written(t, l, v, order, continued)
  PROVE  /\ Len(memory[l]) \in Nat \ {0}
         /\ memory'[l][Len(memory[l]) + 1] \in Atomic!Message
         /\ \A u \in Atomic!Thread :
              /\ Atomic!Behind(cur[u], cur'[u]) /\ Atomic!Behind(acq[u], acq'[u])
              /\ Atomic!Behind(rel[u], rel'[u])
<1>1. Len(memory[l]) \in Nat \ {0}
  <2>1. Atomic!Tops[l] = Len(memory[l]) /\ Atomic!Tops \in Atomic!Memory!View
    BY DEF Atomic!MemoryOK, Atomic!Tops
  <2> QED
    BY <2>1 DEF Atomic!Memory!View
<1>2. memory'[l] \in Seq(Atomic!Message) /\ Len(memory'[l]) = Len(memory[l]) + 1
  BY DEF Written, Atomic!MemoryOK
<1>3. memory'[l][Len(memory[l]) + 1] \in Atomic!Message
  BY <1>1, <1>2
<1>4. ASSUME NEW u \in Atomic!Thread
      PROVE  /\ Atomic!Behind(cur[u], cur'[u]) /\ Atomic!Behind(acq[u], acq'[u])
             /\ Atomic!Behind(rel[u], rel'[u])
  <2>1. cur[u] \in Atomic!Memory!View /\ acq[u] \in Atomic!Memory!View
        /\ rel[u] \in Atomic!Memory!View
    BY DEF Atomic!MemoryOK
  <2> QED
    BY <2>1, BehindOrder DEF Written
<1> QED
  BY <1>1, <1>3, <1>4

LEMMA DoStoreTurn ==
  ASSUME Atomic!Outline, NEW t \in Atomic!Thread, Atomic!DoStore(t)
  PROVE  Turn(t, Atomic!At(t), atomicPc[t] + 1)
<1> DEFINE c == Atomic!At(t)
           start == Atomic!Memory!StartView
<1> HIDE DEF c, start
<1>1. /\ ~Atomic!Ended(t) /\ c.op = "store"
      /\ Atomic!Memory!Write(t, c.at, c.value, c.order, start)
      /\ atomicPc' = [atomicPc EXCEPT ![t] = atomicPc[t] + 1]
      /\ atomicProgram' = atomicProgram /\ read' = read
  BY Zenon DEF Atomic!DoStore, Atomic!IsAt, Atomic!Memory!Store, Atomic!GoTo, c, start
<1>2. Atomic!MemoryOK /\ Atomic!PlacesOK
  BY DEF Atomic!Outline
<1>3. /\ atomicPc[t] \in Nat /\ Atomic!InstructionFits(atomicProgram, t, atomicPc[t], c)
      /\ atomicPc[t] + 1 \in Atomic!Targets(c, atomicPc[t])
      /\ Atomic!MoveFits(atomicProgram, t, atomicPc[t], c, atomicPc[t] + 1)
  <2>1. /\ atomicPc[t] \in Nat /\ Atomic!InstructionFits(atomicProgram, t, atomicPc[t], c)
        /\ \A k \in Atomic!Targets(c, atomicPc[t]) :
             Atomic!MoveFits(atomicProgram, t, atomicPc[t], c, k)
    BY <1>1, <1>2, InstructionAt DEF c, Atomic!PlacesOK
  <2>2. atomicPc[t] + 1 \in Atomic!Targets(c, atomicPc[t])
    BY <1>1 DEF Atomic!Targets
  <2> QED
    BY <2>1, <2>2
<1>4. c.at \in Atomic!Location /\ c.value \in Atomic!Values
  BY <1>1, <1>3, ListingsAssumption
  DEF Atomic!InstructionFits, Atomic!StoreFits, Atomic!Values, Atomic!ConstantsAssumption
<1>5. start \in Atomic!Memory!View /\ Atomic!Behind(start, Atomic!Tops)
  BY <1>2, StartViewLeast DEF start, Atomic!MemoryOK
<1>6. Written(t, c.at, c.value, c.order, start)
  BY <1>1, <1>2, <1>4, <1>5, WriteEffect, SMTT(30)
<1>7. Appends(t, c)
  <2>1. Len(memory[c.at]) \in Nat \ {0}
        /\ memory'[c.at][Len(memory[c.at]) + 1] \in Atomic!Message
    BY <1>2, <1>4, <1>6, WrittenGrows
  <2> QED
    BY <1>1, <1>2, <1>4, <1>6, <2>1 DEF Appends, Written
<1>8. c.op \in Writing /\ c.op \notin Reading \cup {"fence"}
  BY <1>1 DEF Writing, Reading
<1>9. /\ Atomic!MemoryOK' /\ rel' = rel
      /\ \A l \in Atomic!Location : c.at # l => memory'[l] = memory[l]
      /\ \A u \in Atomic!Thread :
           /\ Atomic!Behind(cur[u], cur'[u]) /\ Atomic!Behind(acq[u], acq'[u])
           /\ Atomic!Behind(rel[u], rel'[u])
  <2>1. /\ Atomic!MemoryOK' /\ rel' = rel
        /\ \A l \in Atomic!Location : c.at # l => memory'[l] = memory[l]
    BY <1>6 DEF Written
  <2> QED
    BY <1>2, <1>4, <1>6, <2>1, WrittenGrows
<1>10. Turn(t, c, atomicPc[t] + 1)
  BY <1>1, <1>3, <1>7, <1>8, <1>9 DEF Turn, Reading
<1> QED
  BY <1>10 DEF c

LEMMA LoadedGrows ==
  ASSUME Atomic!MemoryOK, NEW t \in Atomic!Thread, NEW l, NEW m, NEW order,
         Loaded(t, l, m, order)
  PROVE  \A u \in Atomic!Thread :
           /\ Atomic!Behind(cur[u], cur'[u]) /\ Atomic!Behind(acq[u], acq'[u])
           /\ Atomic!Behind(rel[u], rel'[u])
<1> SUFFICES ASSUME NEW u \in Atomic!Thread
             PROVE  /\ Atomic!Behind(cur[u], cur'[u]) /\ Atomic!Behind(acq[u], acq'[u])
                    /\ Atomic!Behind(rel[u], rel'[u])
  OBVIOUS
<1>1. cur[u] \in Atomic!Memory!View /\ acq[u] \in Atomic!Memory!View
      /\ rel[u] \in Atomic!Memory!View
  BY DEF Atomic!MemoryOK
<1> QED
  BY <1>1, BehindOrder DEF Loaded

LEMMA DoLoadTurn ==
  ASSUME Atomic!Outline, NEW t \in Atomic!Thread, Atomic!DoLoad(t)
  PROVE  /\ indices' = indices /\ Atomic!At(t).op = "load"
         /\ \E l \in Atomic!Location : \E m \in 1 .. Len(memory[l]) :
              read' = [read EXCEPT ![t][l] = memory[l][m].value]
         /\ \E j \in Nat : Turn(t, Atomic!At(t), j)
<1> DEFINE c == Atomic!At(t)
           place(v) == IF v = 0 THEN c.zero ELSE c.set
<1>1. PICK m \in Atomic!Memory!Readable(t, c.at, c.order) :
        LET v == memory[c.at][m].value
        IN /\ Atomic!Memory!Load(t, c.at, m, c.order)
           /\ read' = [read EXCEPT ![t][c.at] = v]
           /\ atomicPc' = [atomicPc EXCEPT ![t] = place(v)]
  BY Zenon DEF Atomic!DoLoad, Atomic!GoTo, Atomic!Memory!Value
<1> DEFINE v == memory[c.at][m].value
           j == place(v)
<1> HIDE DEF c, place, v, j
<1>2. /\ ~Atomic!Ended(t) /\ c.op = "load" /\ atomicProgram' = atomicProgram
      /\ indices' = indices
      /\ Atomic!Memory!Load(t, c.at, m, c.order)
      /\ read' = [read EXCEPT ![t][c.at] = v]
      /\ atomicPc' = [atomicPc EXCEPT ![t] = j]
  BY <1>1, Zenon DEF Atomic!DoLoad, Atomic!IsAt, c, v, j, place
<1>3. Atomic!MemoryOK /\ Atomic!PlacesOK
  BY DEF Atomic!Outline
<1>4. /\ atomicPc[t] \in Nat /\ Atomic!InstructionFits(atomicProgram, t, atomicPc[t], c)
      /\ j \in Atomic!Targets(c, atomicPc[t])
      /\ Atomic!MoveFits(atomicProgram, t, atomicPc[t], c, j)
  <2>1. /\ atomicPc[t] \in Nat /\ Atomic!InstructionFits(atomicProgram, t, atomicPc[t], c)
        /\ \A k \in Atomic!Targets(c, atomicPc[t]) :
             Atomic!MoveFits(atomicProgram, t, atomicPc[t], c, k)
    BY <1>2, <1>3, InstructionAt DEF c, Atomic!PlacesOK
  <2>2. j \in Atomic!Targets(c, atomicPc[t])
    BY <1>2 DEF Atomic!Targets, j, place
  <2> QED
    BY <2>1, <2>2
<1>5. c.at \in Atomic!Location /\ atomicProgram # "read_queue"
  BY <1>2, <1>4 DEF Atomic!InstructionFits, Atomic!ReadFits
<1>6. Loaded(t, c.at, m, c.order)
  BY <1>2, <1>3, <1>5, LoadEffect
<1>7. /\ m \in 1 .. Len(memory[c.at]) /\ cur[t][c.at] <= m
      /\ memory[c.at][m].view \in Atomic!Memory!View
  BY <1>3, <1>5, ReadableMessages
<1>8. v \in Int /\ v >= 0
  <2>1. CASE c.at = "z"
    BY <1>7, <2>1 DEF Atomic!Outline, Atomic!ValuesOK, v
  <2>2. CASE c.at # "z"
    <3>1. v \in Floor .. Items /\ v >= 0
      BY <1>5, <1>7, <2>2 DEF Atomic!Outline, Atomic!ValuesOK, v
    <3> QED
      BY <3>1, ListingsAssumption DEF Atomic!ConstantsAssumption
  <2> QED
    BY <2>1, <2>2
<1>9. j # Atomic!InVain(c, atomicPc[t]) => Learns(t, c)
  <2>1. j # Atomic!InVain(c, atomicPc[t]) => v > 0
    BY <1>2, <1>8 DEF Atomic!InVain, j, place
  <2> QED
    BY <1>6, <1>7, <2>1 DEF Learns, Loaded, v
<1>10. /\ \A u \in Atomic!Thread, l \in Atomic!Location :
            ~(u = t /\ c.at = l) => read'[u][l] = read[u][l]
       /\ read'[t][c.at] = memory[c.at][m].value
  BY <1>2, <1>3, <1>5 DEF Atomic!PlacesOK, v
<1>11. c.op \in Reading /\ c.op \notin Writing \cup {"fence"}
  BY <1>2 DEF Writing, Reading
<1>12. Atomic!MemoryOK' /\ memory' = memory
  BY <1>6 DEF Loaded
<1>13. j \in Nat
  BY <1>4 DEF Atomic!MoveFits
<1>14. Turn(t, c, j)
  BY <1>2, <1>3, <1>4, <1>6, <1>7, <1>9, <1>10, <1>11, <1>12, <1>13, LoadedGrows DEF Turn
<1> QED
  BY <1>2, <1>5, <1>7, <1>13, <1>14 DEF c, v

LEMMA DoFenceTurn ==
  ASSUME Atomic!Outline, NEW t \in Atomic!Thread, Atomic!DoFence(t)
  PROVE  Turn(t, Atomic!At(t), atomicPc[t] + 1)
<1> DEFINE c == Atomic!At(t)
<1> HIDE DEF c
<1>1. /\ ~Atomic!Ended(t) /\ c.op = "fence" /\ Atomic!Memory!Fence(t, c.order)
      /\ atomicPc' = [atomicPc EXCEPT ![t] = atomicPc[t] + 1]
      /\ atomicProgram' = atomicProgram /\ read' = read
  BY Zenon DEF Atomic!DoFence, Atomic!IsAt, Atomic!GoTo, c
<1>2. Atomic!MemoryOK /\ Atomic!PlacesOK
  BY DEF Atomic!Outline
<1>3. /\ atomicPc[t] \in Nat /\ Atomic!InstructionFits(atomicProgram, t, atomicPc[t], c)
      /\ Atomic!MoveFits(atomicProgram, t, atomicPc[t], c, atomicPc[t] + 1)
  <2>1. /\ atomicPc[t] \in Nat /\ Atomic!InstructionFits(atomicProgram, t, atomicPc[t], c)
        /\ \A k \in Atomic!Targets(c, atomicPc[t]) :
             Atomic!MoveFits(atomicProgram, t, atomicPc[t], c, k)
    BY <1>1, <1>2, InstructionAt DEF c, Atomic!PlacesOK
  <2>2. atomicPc[t] + 1 \in Atomic!Targets(c, atomicPc[t])
    BY <1>1 DEF Atomic!Targets
  <2> QED
    BY <2>1, <2>2
<1>4. Fenced(t, c.order)
  BY <1>1, <1>2, FenceEffect
<1>5. ASSUME NEW u \in Atomic!Thread
      PROVE  /\ Atomic!Behind(cur[u], cur'[u]) /\ Atomic!Behind(acq[u], acq'[u])
             /\ Atomic!Behind(rel[u], rel'[u])
  <2>1. cur[u] \in Atomic!Memory!View /\ acq[u] \in Atomic!Memory!View
        /\ rel[u] \in Atomic!Memory!View
    BY <1>2 DEF Atomic!MemoryOK
  <2> QED
    BY <1>4, <2>1, BehindOrder DEF Fenced
<1>6. c.op \notin Writing /\ c.op \notin Reading /\ Atomic!MemoryOK' /\ memory' = memory
  BY <1>1, <1>4 DEF Writing, Reading, Fenced
<1>7. /\ Atomic!Memory!Acquires(c.order) => Atomic!Behind(acq[t], cur'[t])
      /\ Atomic!Memory!Releases(c.order) => rel'[t] = cur'[t]
  BY <1>4 DEF Fenced
<1>8. Turn(t, c, atomicPc[t] + 1)
  BY <1>1, <1>3, <1>5, <1>6, <1>7 DEF Turn
<1> QED
  BY <1>8 DEF c

LEMMA NewestMessage ==
  ASSUME Atomic!MemoryOK, NEW l \in Atomic!Location
  PROVE  /\ Len(memory[l]) \in Nat \ {0}
         /\ \A m \in 1 .. Len(memory[l]) : memory[l][m] \in Atomic!Message
         /\ memory[l][Len(memory[l])].view \in Atomic!Memory!View
         /\ Atomic!Behind(memory[l][Len(memory[l])].view, Atomic!Tops)
<1>1. /\ memory[l] \in Seq(Atomic!Message) /\ Atomic!Tops[l] = Len(memory[l])
      /\ Atomic!Tops \in Atomic!Memory!View
  BY DEF Atomic!MemoryOK, Atomic!Tops
<1>2. Len(memory[l]) \in Nat \ {0}
  BY <1>1 DEF Atomic!Memory!View
<1>3. \A m \in 1 .. Len(memory[l]) : memory[l][m] \in Atomic!Message
  BY <1>1
<1> QED
  BY <1>2, <1>3 DEF Atomic!Message, Atomic!MemoryOK

LEMMA CountBit == \A p, t, i : Atomic!Counts(p, t, i) \in {0, 1}
BY DEF Atomic!Counts

LEMMA DoIncrementTurn ==
  ASSUME Atomic!Outline, NEW t \in Atomic!Thread, Atomic!DoIncrement(t)
  PROVE  Turn(t, Atomic!At(t), atomicPc[t] + 1)
<1> DEFINE c == Atomic!At(t)
           top == memory[c.at][Len(memory[c.at])]
<1> HIDE DEF c, top
<1>1. /\ ~Atomic!Ended(t) /\ c.op = "increment"
      /\ Atomic!Memory!Write(t, c.at, top.value + 1, "seq_cst", top.view)
      /\ atomicPc' = [atomicPc EXCEPT ![t] = atomicPc[t] + 1]
      /\ atomicProgram' = atomicProgram /\ read' = read
  BY Zenon DEF Atomic!DoIncrement, Atomic!IsAt, Atomic!Memory!ReadModifyWrite, Atomic!GoTo,
     Atomic!Memory!Value, Atomic!Memory!Newest, c, top
<1>2. Atomic!MemoryOK /\ Atomic!PlacesOK
  BY DEF Atomic!Outline
<1>3. /\ atomicPc[t] \in Nat /\ Atomic!InstructionFits(atomicProgram, t, atomicPc[t], c)
      /\ Atomic!MoveFits(atomicProgram, t, atomicPc[t], c, atomicPc[t] + 1)
  <2>1. /\ atomicPc[t] \in Nat /\ Atomic!InstructionFits(atomicProgram, t, atomicPc[t], c)
        /\ \A k \in Atomic!Targets(c, atomicPc[t]) :
             Atomic!MoveFits(atomicProgram, t, atomicPc[t], c, k)
    BY <1>1, <1>2, InstructionAt DEF c, Atomic!PlacesOK
  <2>2. atomicPc[t] + 1 \in Atomic!Targets(c, atomicPc[t])
    BY <1>1 DEF Atomic!Targets
  <2> QED
    BY <2>1, <2>2
<1>4. c.at = "z" /\ c.at \in Atomic!Location /\ Atomic!Counts(atomicProgram, t, atomicPc[t]) = 1
  BY <1>1, <1>3 DEF Atomic!InstructionFits, Atomic!Location
<1>5. /\ Len(memory[c.at]) \in Nat \ {0}
      /\ top.view \in Atomic!Memory!View /\ Atomic!Behind(top.view, Atomic!Tops)
  BY <1>2, <1>4, NewestMessage DEF top
<1>6. top.value + 1 \in 0 .. 2
  <2>1. /\ top.value \in 0 .. 2
        /\ top.value + Atomic!Counts(atomicProgram, "a", atomicPc["a"])
             + Atomic!Counts(atomicProgram, "b", atomicPc["b"])
             + Atomic!Counts(atomicProgram, "c", atomicPc["c"])
             + Atomic!Counts(atomicProgram, "d", atomicPc["d"]) <= 2
    BY <1>4, <1>5 DEF Atomic!Outline, Atomic!ValuesOK, top
  <2>2. t \in {"a", "b", "c", "d"}
    BY DEF Atomic!Thread
  <2> QED
    BY <1>4, <2>1, <2>2, CountBit
<1>7. top.value + 1 \in Atomic!Values
  BY <1>6 DEF Atomic!Values
<1>8. Written(t, c.at, top.value + 1, "seq_cst", top.view)
  BY <1>1, <1>2, <1>4, <1>5, <1>7, WriteEffect
<1>9. Appends(t, c)
  <2>1. Len(memory[c.at]) \in Nat \ {0}
        /\ memory'[c.at][Len(memory[c.at]) + 1] \in Atomic!Message
    BY <1>2, <1>4, <1>8, WrittenGrows
  <2> QED
    BY <1>1, <1>2, <1>4, <1>8, <2>1 DEF Appends, Written, top
<1>10. c.op \in Writing /\ c.op \notin Reading \cup {"fence", "load"}
  BY <1>1 DEF Writing, Reading
<1>11. /\ Atomic!MemoryOK'
       /\ \A l \in Atomic!Location : c.at # l => memory'[l] = memory[l]
       /\ \A u \in Atomic!Thread :
            /\ Atomic!Behind(cur[u], cur'[u]) /\ Atomic!Behind(acq[u], acq'[u])
            /\ Atomic!Behind(rel[u], rel'[u])
  <2>1. /\ Atomic!MemoryOK'
        /\ \A l \in Atomic!Location : c.at # l => memory'[l] = memory[l]
    BY <1>8 DEF Written
  <2> QED
    BY <1>2, <1>4, <1>8, <2>1, WrittenGrows
<1>12. Turn(t, c, atomicPc[t] + 1)
  BY <1>1, <1>3, <1>9, <1>10, <1>11 DEF Turn
<1> QED
  BY <1>12 DEF c

LEMMA DoFetchSubTurn ==
  ASSUME Atomic!Outline, NEW t \in Atomic!Thread, Atomic!DoFetchSub(t)
  PROVE  LET top == memory["y"][Len(memory["y"])]
             j == IF top.value <= 0 THEN atomicPc[t] ELSE atomicPc[t] + 1
         IN /\ indices' = indices /\ atomicProgram = "read_queue" /\ t \in {"b", "c"}
            /\ Atomic!At(t).op = "fetch_sub" /\ Atomic!At(t).at = "y" /\ atomicPc[t] = 1
            /\ top.value \in Floor + 1 .. Items
            /\ read' = [read EXCEPT ![t]["y"] = top.value]
            /\ Turn(t, Atomic!At(t), j)
<1> DEFINE c == Atomic!At(t)
           top == memory[c.at][Len(memory[c.at])]
           j == IF top.value <= 0 THEN atomicPc[t] ELSE atomicPc[t] + 1
<1> HIDE DEF c, top, j
<1>1. /\ ~Atomic!Ended(t) /\ c.op = "fetch_sub" /\ top.value > Floor
      /\ Atomic!Memory!Write(t, c.at, top.value - 1, c.order, top.view)
      /\ read' = [read EXCEPT ![t][c.at] = top.value]
      /\ atomicPc' = [atomicPc EXCEPT ![t] = j]
      /\ atomicProgram' = atomicProgram /\ indices' = indices
  BY Zenon DEF Atomic!DoFetchSub, Atomic!IsAt, Atomic!Memory!ReadModifyWrite, Atomic!GoTo,
     Atomic!Memory!Value, Atomic!Memory!Newest, c, top, j
<1>2. Atomic!MemoryOK /\ Atomic!PlacesOK
  BY DEF Atomic!Outline
<1>3. /\ atomicPc[t] \in Nat /\ Atomic!InstructionFits(atomicProgram, t, atomicPc[t], c)
      /\ Atomic!MoveFits(atomicProgram, t, atomicPc[t], c, j)
  <2>1. /\ atomicPc[t] \in Nat /\ Atomic!InstructionFits(atomicProgram, t, atomicPc[t], c)
        /\ \A k \in Atomic!Targets(c, atomicPc[t]) :
             Atomic!MoveFits(atomicProgram, t, atomicPc[t], c, k)
    BY <1>1, <1>2, InstructionAt DEF c, Atomic!PlacesOK
  <2>2. j \in Atomic!Targets(c, atomicPc[t])
    BY <1>1 DEF Atomic!Targets, j
  <2> QED
    BY <2>1, <2>2
<1>4. /\ c.at = "y" /\ c.at \in Atomic!Location /\ c.order = "acquire" /\ atomicPc[t] = 1
      /\ atomicProgram = "read_queue" /\ t \in {"b", "c"}
  BY <1>1, <1>3 DEF Atomic!InstructionFits, Atomic!Location
<1>5. /\ Len(memory[c.at]) \in Nat \ {0}
      /\ top.view \in Atomic!Memory!View /\ Atomic!Behind(top.view, Atomic!Tops)
  BY <1>2, <1>4, NewestMessage DEF top
<1>6. Floor \in Int /\ Items \in Nat /\ top.value \in Floor + 1 .. Items
  <2>1. top.value \in Floor .. Items
    BY <1>4, <1>5 DEF Atomic!Outline, Atomic!ValuesOK, top
  <2> QED
    BY <1>1, <2>1, ListingsAssumption DEF Atomic!ConstantsAssumption
<1>7. top.value - 1 \in Atomic!Values
  BY <1>6 DEF Atomic!Values
<1>8. Written(t, c.at, top.value - 1, c.order, top.view)
  BY <1>1, <1>2, <1>4, <1>5, <1>7, WriteEffect
<1>9. Appends(t, c)
  <2>1. Len(memory[c.at]) \in Nat \ {0}
        /\ memory'[c.at][Len(memory[c.at]) + 1] \in Atomic!Message
    BY <1>2, <1>4, <1>8, WrittenGrows
  <2> QED
    BY <1>1, <1>2, <1>4, <1>8, <2>1 DEF Appends, Written, top
<1>10. c.op \in Writing /\ c.op \in Reading /\ c.op # "fence"
  BY <1>1 DEF Writing, Reading
<1>11. /\ Atomic!MemoryOK'
       /\ \A l \in Atomic!Location : c.at # l => memory'[l] = memory[l]
       /\ \A u \in Atomic!Thread :
            /\ Atomic!Behind(cur[u], cur'[u]) /\ Atomic!Behind(acq[u], acq'[u])
            /\ Atomic!Behind(rel[u], rel'[u])
  <2>1. /\ Atomic!MemoryOK'
        /\ \A l \in Atomic!Location : c.at # l => memory'[l] = memory[l]
    BY <1>8 DEF Written
  <2> QED
    BY <1>2, <1>4, <1>8, <2>1, WrittenGrows
<1>12. j # Atomic!InVain(c, atomicPc[t]) => Learns(t, c)
  <2>1. j # Atomic!InVain(c, atomicPc[t]) => top.value > 0
    BY <1>1, <1>6 DEF Atomic!InVain, j
  <2>2. Atomic!Behind(top.view, acq'[t])
        /\ (Atomic!Memory!Acquires(c.order) => Atomic!Behind(top.view, cur'[t]))
    BY <1>8 DEF Written
  <2> QED
    BY <1>5, <2>1, <2>2 DEF Learns, top
<1>13. /\ \A u \in Atomic!Thread, l \in Atomic!Location :
            ~(u = t /\ c.at = l) => read'[u][l] = read[u][l]
       /\ read'[t][c.at] = top.value
  BY <1>1, <1>2, <1>4 DEF Atomic!PlacesOK
<1>14. \E m \in 1 .. Len(memory[c.at]) :
         cur[t][c.at] <= m /\ read'[t][c.at] = memory[c.at][m].value
  <2>1. cur[t] \in Atomic!Memory!View /\ acq[t] \in Atomic!Memory!View
        /\ cur[t][c.at] <= acq[t][c.at] /\ acq[t][c.at] <= Atomic!Tops[c.at]
    BY <1>2, <1>4 DEF Atomic!MemoryOK, Atomic!Behind
  <2>2. Atomic!Tops[c.at] = Len(memory[c.at])
    BY <1>4 DEF Atomic!Tops
  <2>3. cur[t][c.at] <= Len(memory[c.at])
    BY <1>4, <1>5, <2>1, <2>2 DEF Atomic!Memory!View
  <2> QED
    BY <1>5, <1>13, <2>3 DEF top
<1>15. j \in Nat
  BY <1>3 DEF j
<1>16. Turn(t, c, j)
  BY <1>1, <1>3, <1>9, <1>10, <1>11, <1>12, <1>13, <1>14, <1>15 DEF Turn
<1> QED
  BY <1>1, <1>4, <1>6, <1>16 DEF c, top, j

LEMMA DoElementTurn ==
  ASSUME Atomic!Outline, NEW t \in Atomic!Thread, Atomic!DoElement(t)
  PROVE  LET index == read[t]["y"] - 1
             j == IF index = 0 THEN 3 ELSE 1
         IN /\ atomicProgram = "read_queue" /\ t \in {"b", "c"} /\ atomicPc[t] = 2
            /\ Atomic!At(t).op = "element" /\ Atomic!At(t).at = "x"
            /\ \E m \in 1 .. Len(memory["x"]) :
                 read' = [read EXCEPT ![t]["x"] = memory["x"][m].value]
            /\ indices' = [indices EXCEPT ![t] = Append(@, index)]
            /\ Turn(t, Atomic!At(t), j)
<1> DEFINE c == Atomic!At(t)
           index == read[t][c.counter] - 1
           j == IF index = 0 THEN atomicPc[t] + 1 ELSE 1
<1>1. PICK m \in Atomic!Memory!Readable(t, c.at, "plain") :
        /\ Atomic!Memory!Load(t, c.at, m, "plain")
        /\ read' = [read EXCEPT ![t][c.at] = memory[c.at][m].value]
  BY Zenon DEF Atomic!DoElement, Atomic!Memory!Value
<1> HIDE DEF c, index, j
<1>2. /\ ~Atomic!Ended(t) /\ c.op = "element"
      /\ Atomic!Memory!Load(t, c.at, m, "plain")
      /\ read' = [read EXCEPT ![t][c.at] = memory[c.at][m].value]
      /\ indices' = [indices EXCEPT ![t] = Append(@, index)]
      /\ atomicPc' = [atomicPc EXCEPT ![t] = j] /\ atomicProgram' = atomicProgram
  BY <1>1, Zenon DEF Atomic!DoElement, Atomic!IsAt, Atomic!GoTo, c, index, j
<1>3. Atomic!MemoryOK /\ Atomic!PlacesOK
  BY DEF Atomic!Outline
<1>4. /\ atomicPc[t] \in Nat /\ Atomic!InstructionFits(atomicProgram, t, atomicPc[t], c)
      /\ Atomic!MoveFits(atomicProgram, t, atomicPc[t], c, j)
  <2>1. /\ atomicPc[t] \in Nat /\ Atomic!InstructionFits(atomicProgram, t, atomicPc[t], c)
        /\ \A k \in Atomic!Targets(c, atomicPc[t]) :
             Atomic!MoveFits(atomicProgram, t, atomicPc[t], c, k)
    BY <1>2, <1>3, InstructionAt DEF c, Atomic!PlacesOK
  <2>2. j \in Atomic!Targets(c, atomicPc[t])
    BY <1>2 DEF Atomic!Targets, j
  <2> QED
    BY <2>1, <2>2
<1>5. /\ c.at = "x" /\ c.at \in Atomic!Location /\ c.counter = "y" /\ atomicPc[t] = 2
      /\ atomicProgram = "read_queue" /\ t \in {"b", "c"}
  BY <1>2, <1>4 DEF Atomic!InstructionFits, Atomic!ReadFits
<1>6. Loaded(t, c.at, m, "plain")
  BY <1>2, <1>3, <1>5, LoadEffect
<1>7. m \in 1 .. Len(memory[c.at]) /\ cur[t][c.at] <= m
  BY <1>3, <1>5, ReadableMessages
<1>8. /\ \A u \in Atomic!Thread, l \in Atomic!Location :
            ~(u = t /\ c.at = l) => read'[u][l] = read[u][l]
      /\ read'[t][c.at] = memory[c.at][m].value
  BY <1>2, <1>3, <1>5 DEF Atomic!PlacesOK
<1>9. c.op \in Reading /\ c.op \notin Writing \cup {"fence", "load", "fetch_sub"}
  BY <1>2 DEF Writing, Reading
<1>10. Atomic!MemoryOK' /\ memory' = memory
  BY <1>6 DEF Loaded
<1>11. j \in Nat /\ j = IF index = 0 THEN 3 ELSE 1
  BY <1>5 DEF j
<1>12. Turn(t, c, j)
  BY <1>2, <1>3, <1>4, <1>6, <1>7, <1>8, <1>9, <1>10, <1>11, LoadedGrows DEF Turn
<1> QED
  BY <1>2, <1>5, <1>7, <1>11, <1>12 DEF c, index

LEMMA DataAndFlags ==
  \A p : /\ Atomic!Data(p) \subseteq Atomic!Location \ {"z"}
         /\ Atomic!Flags(p) \subseteq Atomic!Location \ {"z"}
         /\ p = "read_queue" => Atomic!Data(p) = {"x"}
         /\ p = "sync_nonatomics" => Atomic!Data(p) = {"x"} /\ Atomic!Writer(p) = "a"
         /\ Atomic!Writer(p) \in Atomic!Thread
BY DEF Atomic!Data, Atomic!Flags, Atomic!Location, Atomic!Elements, Atomic!Writer, Atomic!Thread,
       Atomic!Synchronized

(* A step changes a location of data only by the one store to it.          *)
LEMMA DataChange ==
  ASSUME Atomic!Outline, NEW t, NEW c, NEW j, Turn(t, c, j),
         NEW l \in Atomic!Data(atomicProgram)
  PROVE  \/ memory'[l] = memory[l] /\ ~(c.op = "store" /\ c.at = l)
         \/ /\ c.op = "store" /\ c.at = l
            /\ t = Atomic!Writer(atomicProgram) /\ atomicPc[t] = Atomic!WrittenAt(l)
            /\ c.value \in 1 .. Items /\ Appends(t, c)
<1>1. l \in Atomic!Location \ {"z"}
  BY DataAndFlags
<1>2. CASE c.op = "store" /\ c.at = l
  <2>1. Atomic!StoreFits(atomicProgram, t, atomicPc[t], c) /\ Appends(t, c)
    BY <1>2 DEF Turn, Atomic!InstructionFits, Writing
  <2> QED
    BY <1>2, <2>1 DEF Atomic!StoreFits
<1>3. CASE ~(c.op = "store" /\ c.at = l)
  <2>1. c.op = "increment" => c.at = "z"
    BY DEF Turn, Atomic!InstructionFits
  <2>2. c.op = "fetch_sub" => c.at = "y" /\ atomicProgram = "read_queue"
    BY DEF Turn, Atomic!InstructionFits
  <2>3. c.op \notin Writing \/ c.at # l
    BY <1>1, <1>3, <2>1, <2>2, DataAndFlags DEF Writing
  <2> QED
    BY <1>1, <1>3, <2>3 DEF Turn
<1> QED
  BY <1>2, <1>3

(* The views of threads are bounded by the newest messages.                *)
LEMMA ViewBound ==
  ASSUME Atomic!MemoryOK, NEW t \in Atomic!Thread, NEW l \in Atomic!Location
  PROVE  /\ cur[t][l] \in Nat /\ acq[t][l] \in Nat /\ rel[t][l] \in Nat
         /\ Len(memory[l]) \in Nat
         /\ rel[t][l] <= cur[t][l] /\ cur[t][l] <= acq[t][l] /\ acq[t][l] <= Len(memory[l])
<1>1. /\ cur[t] \in Atomic!Memory!View /\ acq[t] \in Atomic!Memory!View
      /\ rel[t] \in Atomic!Memory!View /\ Atomic!Tops \in Atomic!Memory!View
      /\ rel[t][l] <= cur[t][l] /\ cur[t][l] <= acq[t][l] /\ acq[t][l] <= Atomic!Tops[l]
  BY DEF Atomic!MemoryOK, Atomic!Behind
<1>2. Atomic!Tops[l] = Len(memory[l])
  BY DEF Atomic!Tops
<1> QED
  BY <1>1, <1>2 DEF Atomic!Memory!View

LEMMA ViewBoundNext ==
  ASSUME Atomic!MemoryOK', NEW t \in Atomic!Thread, NEW l \in Atomic!Location
  PROVE  /\ cur'[t][l] \in Nat /\ acq'[t][l] \in Nat /\ rel'[t][l] \in Nat
         /\ Len(memory'[l]) \in Nat
         /\ rel'[t][l] <= cur'[t][l] /\ cur'[t][l] <= acq'[t][l]
         /\ acq'[t][l] <= Len(memory'[l])
<1>1. /\ cur'[t] \in Atomic!Memory!View /\ acq'[t] \in Atomic!Memory!View
      /\ rel'[t] \in Atomic!Memory!View /\ Atomic!Tops' \in Atomic!Memory!View
      /\ rel'[t][l] <= cur'[t][l] /\ cur'[t][l] <= acq'[t][l] /\ acq'[t][l] <= Atomic!Tops'[l]
  BY DEF Atomic!MemoryOK, Atomic!Behind
<1>2. Atomic!Tops'[l] = Len(memory'[l])
  BY DEF Atomic!Tops
<1> QED
  BY <1>1, <1>2 DEF Atomic!Memory!View

LEMMA PcChange ==
  ASSUME Atomic!Outline, NEW t, NEW c, NEW j, Turn(t, c, j)
  PROVE  /\ atomicPc'[t] = j
         /\ \A u \in Atomic!Thread : atomicPc[u] \in Nat
         /\ \A u \in Atomic!Thread \ {t} : atomicPc'[u] = atomicPc[u]
         /\ t \in Atomic!Thread /\ atomicProgram' = atomicProgram
         /\ atomicPc' \in [Atomic!Thread -> Nat]
BY DEF Turn, Atomic!Outline, Atomic!PlacesOK

LEMMA WrittenAtNat == \A l : Atomic!WrittenAt(l) \in 1 .. 5
BY DEF Atomic!WrittenAt

LEMMA DataWrittenKept ==
  ASSUME Atomic!Outline, NEW t, NEW c, NEW j, Turn(t, c, j)
  PROVE  Atomic!DataWritten'
<1> DEFINE p == atomicProgram
           w == Atomic!Writer(p)
<1> SUFFICES ASSUME NEW l \in Atomic!Data(p)
             PROVE  /\ Len(memory'[l]) = IF atomicPc'[w] > Atomic!WrittenAt(l) THEN 2 ELSE 1
                    /\ cur'[w][l] = Len(memory'[l])
                    /\ Len(memory'[l]) = 2 => memory'[l][2].value > 0
  BY PcChange DEF Atomic!DataWritten
<1> HIDE DEF p, w
<1>1. /\ Len(memory[l]) = IF atomicPc[w] > Atomic!WrittenAt(l) THEN 2 ELSE 1
      /\ cur[w][l] = Len(memory[l]) /\ (Len(memory[l]) = 2 => memory[l][2].value > 0)
  BY DEF Atomic!Outline, Atomic!DataWritten, p, w
<1>2. w \in Atomic!Thread /\ l \in Atomic!Location
  BY DataAndFlags DEF w, p
<1>3. CASE c.op = "store" /\ c.at = l
  <2>1. /\ t = w /\ atomicPc[t] = Atomic!WrittenAt(l) /\ c.value \in 1 .. Items
        /\ Appends(t, c)
    BY <1>3, DataChange DEF p, w
  <2>2. Len(memory[l]) = 1
    BY <1>1, <2>1, WrittenAtNat
  <2>3. j > Atomic!WrittenAt(l)
    BY <1>3, <2>1 DEF Turn, Atomic!MoveFits, p, w
  <2>4. Len(memory'[l]) = 2 /\ cur'[t][l] = 2 /\ memory'[l][2].value = c.value
    BY <1>3, <2>1, <2>2 DEF Appends
  <2> QED
    BY <2>1, <2>3, <2>4, PcChange
<1>4. CASE ~(c.op = "store" /\ c.at = l)
  <2>1. memory'[l] = memory[l]
    BY <1>4, DataChange DEF p
  <2>2. atomicPc'[w] > Atomic!WrittenAt(l) <=> atomicPc[w] > Atomic!WrittenAt(l)
    <3>1. CASE t = w
      BY <1>4, <3>1, PcChange DEF Turn, Atomic!MoveFits, p, w
    <3>2. CASE t # w
      BY <1>2, <3>2, PcChange
    <3> QED
      BY <3>1, <3>2
  <2>3. cur'[w][l] = Len(memory'[l])
    <3>1. Atomic!MemoryOK /\ Atomic!MemoryOK' /\ cur[w][l] <= cur'[w][l]
      BY <1>2 DEF Turn, Atomic!Behind, Atomic!Outline
    <3>2. cur'[w][l] <= Len(memory'[l]) /\ Len(memory'[l]) \in Nat /\ cur'[w][l] \in Nat
      BY <1>2, <3>1, ViewBoundNext
    <3> QED
      BY <1>1, <2>1, <3>1, <3>2
  <2> QED
    BY <1>1, <2>1, <2>2, <2>3
<1> QED
  BY <1>3, <1>4

LEMMA AllWrittenKept ==
  ASSUME Atomic!Outline, NEW t, NEW c, NEW j, Turn(t, c, j), Atomic!AllWritten
  PROVE  /\ Atomic!AllWritten'
         /\ \A l \in Atomic!Data(atomicProgram) : memory'[l] = memory[l]
<1>1. ASSUME NEW l \in Atomic!Data(atomicProgram)
      PROVE  memory'[l] = memory[l]
  <2>1. Len(memory[l]) = 2
    BY DEF Atomic!AllWritten
  <2>2. Len(memory[l]) = IF atomicPc[Atomic!Writer(atomicProgram)] > Atomic!WrittenAt(l)
                         THEN 2 ELSE 1
    BY DEF Atomic!Outline, Atomic!DataWritten
  <2>3. atomicPc[Atomic!Writer(atomicProgram)] # Atomic!WrittenAt(l)
    <3>1. Atomic!WrittenAt(l) \in 1 .. 5
      BY WrittenAtNat
    <3> QED
      BY <2>1, <2>2, <3>1
  <2>4. \/ memory'[l] = memory[l]
        \/ t = Atomic!Writer(atomicProgram) /\ atomicPc[t] = Atomic!WrittenAt(l)
    BY DataChange
  <2> QED
    BY <2>3, <2>4
<1> QED
  BY <1>1, PcChange DEF Atomic!AllWritten

(* Whoever has seen the data still sees them.                              *)
LEMMA SeenKept ==
  ASSUME Atomic!Outline, NEW t, NEW c, NEW j, Turn(t, c, j), Atomic!AllWritten,
         NEW u \in Atomic!Thread, NEW l \in Atomic!Data(atomicProgram)
  PROVE  /\ Len(memory'[l]) = 2
         /\ acq'[u][l] \in Nat /\ cur'[u][l] \in Nat /\ rel'[u][l] \in Nat
         /\ acq[u][l] \in Nat /\ cur[u][l] \in Nat /\ rel[u][l] \in Nat
         /\ rel'[u][l] <= cur'[u][l] /\ cur'[u][l] <= acq'[u][l] /\ acq'[u][l] <= 2
         /\ acq[u][l] <= acq'[u][l] /\ cur[u][l] <= cur'[u][l] /\ rel[u][l] <= rel'[u][l]
<1>1. Len(memory'[l]) = 2
  BY AllWrittenKept DEF Atomic!AllWritten
<1>2. l \in Atomic!Location
  BY DataAndFlags
<1>3. /\ Atomic!MemoryOK /\ Atomic!MemoryOK'
      /\ acq[u][l] <= acq'[u][l] /\ cur[u][l] <= cur'[u][l] /\ rel[u][l] <= rel'[u][l]
  BY <1>2 DEF Turn, Atomic!Behind, Atomic!Outline
<1>4. acq[u][l] \in Nat /\ cur[u][l] \in Nat /\ rel[u][l] \in Nat
  BY <1>2, <1>3, ViewBound
<1> QED
  BY <1>1, <1>2, <1>3, <1>4, ViewBoundNext

LEMMA DataSeenKept ==
  ASSUME Atomic!Outline, NEW t, NEW c, NEW j, Turn(t, c, j)
  PROVE  Atomic!DataSeen'
<1> DEFINE p == atomicProgram
<1> SUFFICES ASSUME NEW u \in Atomic!Thread
             PROVE  /\ Atomic!Passed(p, u, atomicPc'[u]) =>
                         Atomic!AllWritten' /\ \A l \in Atomic!Data(p) : acq'[u][l] = 2
                    /\ Atomic!Informed(p, u, atomicPc'[u]) =>
                         \A l \in Atomic!Data(p) : cur'[u][l] = 2
  BY PcChange DEF Atomic!DataSeen
<1>1. /\ Atomic!Passed(p, u, atomicPc[u]) =>
           Atomic!AllWritten /\ \A l \in Atomic!Data(p) : acq[u][l] = 2
      /\ Atomic!Informed(p, u, atomicPc[u]) => \A l \in Atomic!Data(p) : cur[u][l] = 2
  BY DEF Atomic!Outline, Atomic!DataSeen
<1>2. ASSUME Learns(t, c), c.at \in Atomic!Flags(p)
      PROVE  /\ Atomic!AllWritten
             /\ \A l \in Atomic!Data(p) : 2 <= acq'[t][l]
             /\ Atomic!Memory!Acquires(c.order) => \A l \in Atomic!Data(p) : 2 <= cur'[t][l]
  <2>1. PICK m \in 1 .. Len(memory[c.at]) :
          /\ memory[c.at][m].value > 0 /\ memory[c.at][m].view \in Atomic!Memory!View
          /\ Atomic!Behind(memory[c.at][m].view, acq'[t])
          /\ Atomic!Memory!Acquires(c.order) => Atomic!Behind(memory[c.at][m].view, cur'[t])
    BY <1>2 DEF Learns
  <2>2. Atomic!AllWritten /\ \A l \in Atomic!Data(p) : memory[c.at][m].view[l] = 2
    BY <1>2, <2>1 DEF Atomic!Outline, Atomic!FlagsCarry
  <2>3. Atomic!Data(p) \subseteq Atomic!Location
    BY DataAndFlags
  <2> QED
    BY <2>1, <2>2, <2>3 DEF Atomic!Behind
<1>3. ASSUME Atomic!Passed(p, u, atomicPc'[u])
      PROVE  Atomic!AllWritten /\ \A l \in Atomic!Data(p) : acq'[u][l] = 2
  <2>1. CASE Atomic!Passed(p, u, atomicPc[u])
    <3>1. ASSUME NEW l \in Atomic!Data(p) PROVE acq'[u][l] = 2
      BY <1>1, <2>1, SeenKept
    <3> QED
      BY <1>1, <2>1, <3>1
  <2>2. CASE ~Atomic!Passed(p, u, atomicPc[u])
    <3>1. u = t /\ atomicPc'[u] = j
      BY <1>3, <2>2, PcChange
    <3>2. Learns(t, c) /\ c.at \in Atomic!Flags(p)
      BY <1>3, <2>2, <3>1 DEF Turn, Atomic!MoveFits
    <3>3. ASSUME NEW l \in Atomic!Data(p) PROVE acq'[u][l] = 2
      <4>1. 2 <= acq'[t][l] /\ Atomic!AllWritten
        BY <1>2, <3>2
      <4> QED
        BY <3>1, <4>1, SeenKept
    <3> QED
      BY <1>2, <3>2, <3>3
  <2> QED
    BY <2>1, <2>2
<1>4. Atomic!Passed(p, u, atomicPc'[u]) => Atomic!AllWritten'
  BY <1>3, AllWrittenKept
<1>5. ASSUME Atomic!Informed(p, u, atomicPc'[u]), NEW l \in Atomic!Data(p)
      PROVE  cur'[u][l] = 2
  <2>1. Atomic!AllWritten
    BY <1>3, <1>5 DEF Atomic!Informed
  <2>2. CASE Atomic!Informed(p, u, atomicPc[u])
    BY <1>1, <2>1, <2>2, SeenKept
  <2>3. CASE ~Atomic!Informed(p, u, atomicPc[u])
    <3>1. u = t /\ atomicPc'[u] = j
      BY <1>5, <2>3, PcChange
    <3>2. \/ Learns(t, c) /\ c.at \in Atomic!Flags(p) /\ Atomic!Memory!Acquires(c.order)
          \/ /\ c.op = "fence" /\ Atomic!Passed(p, t, atomicPc[t])
             /\ Atomic!Memory!Acquires(c.order)
      BY <1>5, <2>3, <3>1 DEF Turn, Atomic!MoveFits
    <3>3. CASE Learns(t, c) /\ c.at \in Atomic!Flags(p) /\ Atomic!Memory!Acquires(c.order)
      <4>1. 2 <= cur'[t][l]
        BY <1>2, <3>3
      <4> QED
        BY <2>1, <3>1, <4>1, SeenKept
    <3>4. CASE /\ c.op = "fence" /\ Atomic!Passed(p, t, atomicPc[t])
               /\ Atomic!Memory!Acquires(c.order)
      <4>1. Atomic!Behind(acq[t], cur'[t])
        BY <3>4 DEF Turn
      <4>2. acq[t][l] <= cur'[t][l]
        BY <4>1, DataAndFlags DEF Atomic!Behind
      <4>3. acq[t][l] = 2
        BY <1>1, <3>1, <3>4
      <4> QED
        BY <2>1, <3>1, <4>2, <4>3, SeenKept
    <3> QED
      BY <3>2, <3>3, <3>4
  <2> QED
    BY <2>2, <2>3
<1> QED
  BY <1>3, <1>4, <1>5

LEMMA DataReadKept ==
  ASSUME Atomic!Outline, NEW t, NEW c, NEW j, Turn(t, c, j)
  PROVE  Atomic!DataRead'
<1> DEFINE p == atomicProgram
<1> SUFFICES ASSUME NEW u \in Atomic!Thread, NEW l \in Atomic!Data(p),
                    Atomic!HasRead(p, u, atomicPc'[u], l)
             PROVE  read'[u][l] > 0
  BY PcChange DEF Atomic!DataRead
<1>1. Atomic!HasRead(p, u, atomicPc[u], l) => read[u][l] > 0
  BY DEF Atomic!Outline, Atomic!DataRead
<1>2. l \in Atomic!Location
  BY DataAndFlags
<1>3. CASE u = t /\ c.op \in {"load", "element"} /\ c.at = l
  <2>1. atomicPc'[u] = j
    BY <1>3, PcChange
  <2>2. Atomic!Informed(p, t, atomicPc[t])
    BY <1>3, <2>1 DEF Turn, Atomic!MoveFits
  <2>3. cur[t][l] = 2 /\ Len(memory[l]) = 2 /\ memory[l][2].value > 0
    <3>1. cur[t][l] = 2 /\ Atomic!AllWritten
      BY <1>3, <2>2 DEF Atomic!Outline, Atomic!DataSeen, Atomic!Informed
    <3>2. Len(memory[l]) = 2
      BY <3>1 DEF Atomic!AllWritten
    <3> QED
      BY <3>1, <3>2 DEF Atomic!Outline, Atomic!DataWritten
  <2>4. PICK m \in 1 .. Len(memory[l]) :
          cur[t][l] <= m /\ read'[t][l] = memory[l][m].value
    BY <1>3 DEF Turn, Reading
  <2> QED
    BY <1>3, <2>3, <2>4
<1>4. CASE ~(u = t /\ c.op \in {"load", "element"} /\ c.at = l)
  <2>1. Atomic!HasRead(p, u, atomicPc[u], l)
    <3>1. CASE u = t
      BY <1>4, <3>1, PcChange DEF Turn, Atomic!MoveFits
    <3>2. CASE u # t
      BY <3>2, PcChange
    <3> QED
      BY <3>1, <3>2
  <2>2. ~(c.op = "fetch_sub" /\ c.at = l)
    <3>1. c.op = "fetch_sub" => c.at = "y" /\ p = "read_queue"
      BY DEF Turn, Atomic!InstructionFits
    <3> QED
      BY <3>1, DataAndFlags
  <2>3. read'[u][l] = read[u][l]
    BY <1>2, <1>4, <2>2 DEF Turn, Reading
  <2> QED
    BY <1>1, <2>1, <2>3
<1> QED
  BY <1>3, <1>4

LEMMA FlagsCarryKept ==
  ASSUME Atomic!Outline, NEW t, NEW c, NEW j, Turn(t, c, j)
  PROVE  Atomic!FlagsCarry'
<1> DEFINE p == atomicProgram
<1>1. ASSUME p = "sync_nonatomics", atomicPc'["a"] > 2
      PROVE  rel'["a"]["x"] = 2
  <2>1. /\ "a" \in Atomic!Thread /\ "x" \in Atomic!Data(p) /\ Atomic!Writer(p) = "a"
        /\ "x" \in Atomic!Location /\ Atomic!WrittenAt("x") = 1
    BY <1>1, DataAndFlags DEF Atomic!Thread, Atomic!Location, Atomic!WrittenAt
  <2>2. /\ Len(memory["x"]) = IF atomicPc["a"] > 1 THEN 2 ELSE 1
        /\ cur["a"]["x"] = Len(memory["x"])
        /\ atomicPc["a"] > 2 => rel["a"]["x"] = 2
    BY <1>1, <2>1 DEF Atomic!Outline, Atomic!DataWritten, Atomic!FlagsCarry
  <2>3. atomicPc["a"] \in Nat /\ atomicPc'["a"] \in Nat
    BY <2>1, PcChange
  <2>4. atomicPc["a"] > 1
        /\ (atomicPc["a"] > 2 \/ (t = "a" /\ c.op = "fence" /\ Atomic!Memory!Releases(c.order)))
    <3>1. CASE t = "a"
      <4>1. atomicPc["a"] > 2
            \/ (c.op = "fence" /\ Atomic!Memory!Releases(c.order) /\ atomicPc["a"] > 1)
        BY <1>1, <3>1, PcChange DEF Turn, Atomic!MoveFits
      <4> QED
        BY <2>3, <3>1, <4>1
    <3>2. CASE t # "a"
      BY <1>1, <2>1, <2>3, <3>2, PcChange
    <3> QED
      BY <3>1, <3>2
  <2>5. Atomic!AllWritten
    BY <1>1, <2>2, <2>4, DataAndFlags DEF Atomic!AllWritten
  <2>6. /\ rel'["a"]["x"] \in Nat /\ rel'["a"]["x"] <= 2 /\ rel["a"]["x"] <= rel'["a"]["x"]
        /\ cur["a"]["x"] <= cur'["a"]["x"]
    BY <2>1, <2>5, SeenKept
  <2>7. atomicPc["a"] > 2 \/ rel'["a"] = cur'["a"]
    BY <2>4 DEF Turn
  <2> QED
    BY <2>2, <2>4, <2>6, <2>7
<1>2. ASSUME NEW f \in Atomic!Flags(p), NEW m \in 1 .. Len(memory'[f]),
             memory'[f][m].value > 0
      PROVE  Atomic!AllWritten' /\ \A l \in Atomic!Data(p) : memory'[f][m].view[l] = 2
  <2>1. f \in Atomic!Location \ {"z"} /\ Atomic!MemoryOK /\ Atomic!MemoryOK'
    BY DataAndFlags DEF Turn, Atomic!Outline
  <2>2. Len(memory[f]) \in Nat \ {0} /\ \A k \in 1 .. Len(memory[f]) :
          memory[f][k] \in Atomic!Message
    BY <2>1, NewestMessage
  <2>3. \A k \in 1 .. Len(memory[f]) :
          memory[f][k].value > 0 =>
            Atomic!AllWritten /\ \A l \in Atomic!Data(p) : memory[f][k].view[l] = 2
    BY DEF Atomic!Outline, Atomic!FlagsCarry
  <2>4. CASE m \in 1 .. Len(memory[f]) /\ memory'[f][m] = memory[f][m]
    BY <1>2, <2>3, <2>4, AllWrittenKept
  <2>5. CASE ~(m \in 1 .. Len(memory[f]) /\ memory'[f][m] = memory[f][m])
    <3>1. c.op \in Writing /\ c.at = f
      BY <2>1, <2>5 DEF Turn
    <3>2. Appends(t, c)
      BY <3>1 DEF Turn
    <3>3. m = Len(memory[f]) + 1
      BY <2>2, <2>5, <3>1, <3>2 DEF Appends
    <3>4. Atomic!AllWritten /\ \A l \in Atomic!Data(p) : 2 <= memory'[f][m].view[l]
      <4>1. CASE c.op = "store"
        <5>1. /\ Atomic!Behind(rel[t], memory'[f][m].view)
              /\ Atomic!Memory!Releases(c.order) => Atomic!Behind(cur[t], memory'[f][m].view)
          BY <3>1, <3>2, <3>3, <4>1 DEF Appends
        <5>2. /\ \/ Atomic!Informed(p, t, atomicPc[t])
                 \/ /\ t = Atomic!Writer(p)
                    /\ \A l \in Atomic!Data(p) : atomicPc[t] > Atomic!WrittenAt(l)
              /\ \/ Atomic!Memory!Releases(c.order)
                 \/ p = "sync_nonatomics" /\ t = "a" /\ atomicPc[t] > 2
          BY <3>1, <4>1 DEF Turn, Atomic!InstructionFits, Atomic!StoreFits
        <5>3. Atomic!AllWritten /\ \A l \in Atomic!Data(p) : cur[t][l] = 2
          <6>1. CASE Atomic!Informed(p, t, atomicPc[t])
            BY <6>1, PcChange DEF Atomic!Outline, Atomic!DataSeen, Atomic!Informed
          <6>2. CASE /\ t = Atomic!Writer(p)
                     /\ \A l \in Atomic!Data(p) : atomicPc[t] > Atomic!WrittenAt(l)
            BY <6>2 DEF Atomic!Outline, Atomic!DataWritten, Atomic!AllWritten
          <6> QED
            BY <5>2, <6>1, <6>2
        <5>4. CASE Atomic!Memory!Releases(c.order)
          BY <5>1, <5>3, <5>4, DataAndFlags DEF Atomic!Behind
        <5>5. CASE p = "sync_nonatomics" /\ t = "a" /\ atomicPc[t] > 2
          <6>1. rel["a"]["x"] = 2 /\ Atomic!Data(p) = {"x"} /\ "x" \in Atomic!Location
            BY <5>5, DataAndFlags DEF Atomic!Outline, Atomic!FlagsCarry, Atomic!Location
          <6> QED
            BY <5>1, <5>3, <5>5, <6>1 DEF Atomic!Behind
        <5> QED
          BY <5>2, <5>4, <5>5
      <4>2. CASE c.op = "fetch_sub"
        <5>1. /\ memory'[f][m].value = memory[f][Len(memory[f])].value - 1
              /\ Atomic!Behind(memory[f][Len(memory[f])].view, memory'[f][m].view)
          BY <3>1, <3>2, <3>3, <4>2 DEF Appends
        <5>2. memory[f][Len(memory[f])].value \in Int
          BY <2>2, ListingsAssumption
          DEF Atomic!Message, Atomic!Values, Atomic!ConstantsAssumption
        <5>3. memory[f][Len(memory[f])].value > 0
          BY <1>2, <5>1, <5>2
        <5>4. /\ Atomic!AllWritten
              /\ \A l \in Atomic!Data(p) : memory[f][Len(memory[f])].view[l] = 2
          BY <2>2, <2>3, <5>3
        <5> QED
          BY <5>1, <5>4, DataAndFlags DEF Atomic!Behind
      <4>3. c.op # "increment"
        BY <2>1, <3>1 DEF Turn, Atomic!InstructionFits
      <4> QED
        BY <3>1, <4>1, <4>2, <4>3 DEF Writing
    <3>5. ASSUME NEW l \in Atomic!Data(p) PROVE memory'[f][m].view[l] = 2
      <4>1. Len(memory'[l]) = 2 /\ l \in Atomic!Location
        BY <3>4, AllWrittenKept, DataAndFlags DEF Atomic!AllWritten
      <4>2. Atomic!Tops'[l] = 2
        BY <4>1 DEF Atomic!Tops
      <4>3. memory'[f][m].view[l] <= Atomic!Tops'[l]
        BY <2>1, <4>1 DEF Atomic!MemoryOK, Atomic!Behind
      <4>4. memory'[f][m].view[l] \in Nat
        <5>1. memory'[f][m] \in Atomic!Message
          BY <3>1, <3>2, <3>3 DEF Appends
        <5> QED
          BY <4>1, <5>1 DEF Atomic!Message, Atomic!Memory!View
      <4> QED
        BY <3>4, <4>2, <4>3, <4>4
    <3> QED
      BY <3>4, <3>5, AllWrittenKept
  <2> QED
    BY <2>4, <2>5
<1> QED
  BY <1>1, <1>2, PcChange DEF Atomic!FlagsCarry

LEMMA ValuesKept ==
  ASSUME Atomic!Outline, NEW t, NEW c, NEW j, Turn(t, c, j)
  PROVE  Atomic!ValuesOK'
<1> DEFINE p == atomicProgram
           counted(u) == Atomic!Counts(p, u, atomicPc[u])
           counts(u) == Atomic!Counts(p, u, atomicPc'[u])
<1>0. Floor \in Int /\ Floor < 0 /\ Items \in Nat \ {0}
  BY ListingsAssumption DEF Atomic!ConstantsAssumption
<1>1. ASSUME NEW l \in Atomic!Location \ {"z"}, NEW m \in 1 .. Len(memory'[l])
      PROVE  /\ memory'[l][m].value \in Floor .. Items
             /\ p # "read_queue" => memory'[l][m].value >= 0
  <2>1. /\ Len(memory[l]) \in Nat \ {0}
        /\ \A k \in 1 .. Len(memory[l]) : memory[l][k] \in Atomic!Message
    BY NewestMessage DEF Atomic!Outline
  <2>2. \A k \in 1 .. Len(memory[l]) :
          /\ memory[l][k].value \in Floor .. Items
          /\ p # "read_queue" => memory[l][k].value >= 0
    BY DEF Atomic!Outline, Atomic!ValuesOK
  <2>3. CASE m \in 1 .. Len(memory[l]) /\ memory'[l][m] = memory[l][m]
    BY <2>2, <2>3
  <2>4. CASE ~(m \in 1 .. Len(memory[l]) /\ memory'[l][m] = memory[l][m])
    <3>1. c.op \in Writing /\ c.at = l
      BY <2>4 DEF Turn
    <3>2. Appends(t, c)
      BY <3>1 DEF Turn
    <3>3. m = Len(memory[l]) + 1
      BY <2>1, <2>4, <3>1, <3>2 DEF Appends
    <3>4. c.op # "increment"
      BY <3>1 DEF Turn, Atomic!InstructionFits
    <3>5. CASE c.op = "store"
      <4>1. memory'[l][m].value = c.value
        BY <3>1, <3>2, <3>3, <3>5 DEF Appends
      <4>2. c.value \in 1 .. Items
        BY <3>5 DEF Turn, Atomic!InstructionFits, Atomic!StoreFits
      <4> QED
        BY <1>0, <4>1, <4>2
    <3>6. CASE c.op = "fetch_sub"
      <4>1. memory'[l][m].value = memory[l][Len(memory[l])].value - 1
        BY <3>1, <3>2, <3>3, <3>6 DEF Appends
      <4>2. memory'[l][m].value \in Atomic!Values
        BY <3>1, <3>2, <3>3 DEF Appends, Atomic!Message
      <4>3. p = "read_queue"
        BY <3>6 DEF Turn, Atomic!InstructionFits
      <4>4. memory[l][Len(memory[l])].value \in Floor .. Items
        BY <2>1, <2>2
      <4> QED
        BY <1>0, <4>1, <4>2, <4>3, <4>4, SMTT(30) DEF Atomic!Values
    <3> QED
      BY <3>1, <3>4, <3>5, <3>6 DEF Writing
  <2> QED
    BY <2>3, <2>4
<1>2. /\ \A u \in Atomic!Thread : counted(u) \in {0, 1} /\ counts(u) \in {0, 1}
      /\ \A u \in Atomic!Thread : counts(u) <= counted(u)
  <2>1. \A u \in Atomic!Thread : counted(u) \in {0, 1} /\ counts(u) \in {0, 1}
    BY CountBit
  <2>2. \A u \in Atomic!Thread \ {t} : counts(u) = counted(u)
    BY PcChange
  <2>3. counts(t) <= counted(t)
    <3>1. Atomic!Counts(p, t, j) <= Atomic!Counts(p, t, atomicPc[t])
      BY DEF Turn, Atomic!MoveFits
    <3> QED
      BY <3>1, PcChange
  <2> QED
    BY <2>1, <2>2, <2>3
<1> DEFINE old == memory["z"][Len(memory["z"])].value
           new == memory'["z"][Len(memory'["z"])].value
<1>3. /\ "z" \in Atomic!Location /\ Len(memory["z"]) \in Nat \ {0}
      /\ \A m \in 1 .. Len(memory["z"]) : memory["z"][m].value \in 0 .. 2
      /\ old \in 0 .. 2
      /\ old + counted("a") + counted("b") + counted("c") + counted("d") <= 2
  <2>1. "z" \in Atomic!Location /\ Atomic!MemoryOK
    BY DEF Atomic!Location, Atomic!Outline
  <2>2. Len(memory["z"]) \in Nat \ {0}
    BY <2>1, NewestMessage
  <2>3. /\ \A m \in 1 .. Len(memory["z"]) : memory["z"][m].value \in 0 .. 2
        /\ old + counted("a") + counted("b") + counted("c") + counted("d") <= 2
    BY DEF Atomic!Outline, Atomic!ValuesOK
  <2> QED
    BY <2>1, <2>2, <2>3
<1>4. /\ \A m \in 1 .. Len(memory'["z"]) : memory'["z"][m].value \in 0 .. 2
      /\ new + counts("a") + counts("b") + counts("c") + counts("d") <= 2
  <2>1. {"a", "b", "c", "d"} = Atomic!Thread
    BY DEF Atomic!Thread
  <2>2. CASE c.op = "increment"
    <3>1. /\ c.at = "z" /\ Atomic!Counts(p, t, atomicPc[t]) = 1
          /\ Atomic!Counts(p, t, atomicPc[t] + 1) = 0 /\ Appends(t, c)
      BY <2>2 DEF Turn, Atomic!InstructionFits, Writing
    <3>2. /\ Len(memory'["z"]) = Len(memory["z"]) + 1 /\ new = old + 1
          /\ \A m \in 1 .. Len(memory["z"]) : memory'["z"][m] = memory["z"][m]
      BY <2>2, <3>1 DEF Appends
    <3>3. counted(t) = 1 /\ counts(t) = 0 /\ t \in Atomic!Thread
      <4>1. j \in Nat /\ atomicPc[t] \in Nat /\ j = atomicPc[t] + 1
        BY <2>2 DEF Turn, Atomic!InstructionFits
      <4> QED
        BY <3>1, <4>1, PcChange
    <3>4. new + counts("a") + counts("b") + counts("c") + counts("d") <= 2
      BY <1>2, <1>3, <2>1, <3>2, <3>3, SMTT(30)
    <3>5. new \in 0 .. 2
      BY <1>2, <1>3, <2>1, <3>2, <3>4
    <3>6. ASSUME NEW m \in 1 .. Len(memory'["z"])
          PROVE  memory'["z"][m].value \in 0 .. 2
      <4>1. m \in 1 .. Len(memory["z"]) \/ m = Len(memory'["z"])
        BY <1>3, <3>2
      <4> QED
        BY <1>3, <3>2, <3>5, <4>1
    <3> QED
      BY <3>4, <3>6
  <2>3. CASE c.op # "increment"
    <3>1. c.at # "z" \/ c.op \notin Writing
      <4>1. c.op = "store" => c.at # "z"
        BY DEF Turn, Atomic!InstructionFits, Atomic!StoreFits
      <4>2. c.op = "fetch_sub" => c.at = "y"
        BY DEF Turn, Atomic!InstructionFits
      <4> QED
        BY <2>3, <4>1, <4>2 DEF Writing
    <3>2. memory'["z"] = memory["z"]
      BY <1>3, <3>1 DEF Turn
    <3> QED
      BY <1>2, <1>3, <2>1, <3>2, SMTT(30)
  <2> QED
    BY <2>2, <2>3
<1> QED
  BY <1>1, <1>4, PcChange DEF Atomic!ValuesOK

LEMMA ReadTyped ==
  ASSUME Atomic!Outline, NEW t \in Atomic!Thread, NEW l \in Atomic!Location,
         NEW m \in 1 .. Len(memory[l]), read' = [read EXCEPT ![t][l] = memory[l][m].value]
  PROVE  read' \in [Atomic!Thread -> [Atomic!Location -> Atomic!Values]]
<1>1. memory[l][m].value \in Atomic!Values
  BY NewestMessage DEF Atomic!Outline, Atomic!Message
<1>2. read \in [Atomic!Thread -> [Atomic!Location -> Atomic!Values]]
  BY DEF Atomic!Outline, Atomic!PlacesOK
<1> QED
  BY <1>1, <1>2

LEMMA PlacesKept ==
  ASSUME Atomic!Outline, NEW t, NEW c, NEW j, Turn(t, c, j),
         read' \in [Atomic!Thread -> [Atomic!Location -> Atomic!Values]],
         indices' \in [Atomic!Thread -> Seq(0 .. Items - 1)],
         \A u \in {"b", "c"} :
           atomicProgram = "read_queue" /\ atomicPc'[u] = 2 => read'[u]["y"] \in 1 .. Items
  PROVE  Atomic!PlacesOK'
<1>1. ASSUME NEW u \in Atomic!Thread
      PROVE  atomicPc'[u] \in 1 .. Len(Atomic!Code[atomicProgram][u]) + 1
  <2>1. CASE u = t
    <3>1. j \in 1 .. Len(Atomic!Code[atomicProgram][t]) + 1
      BY DEF Turn, Atomic!MoveFits
    <3> QED
      BY <2>1, <3>1, PcChange
  <2>2. CASE u # t
    BY <2>2, PcChange DEF Atomic!Outline, Atomic!PlacesOK
  <2> QED
    BY <2>1, <2>2
<1>2. atomicProgram' \in DOMAIN Atomic!Code
  BY PcChange DEF Atomic!Outline, Atomic!PlacesOK
<1> QED
  BY <1>1, <1>2, PcChange DEF Atomic!PlacesOK

(* Only 5.11 uses indices, and only its two consumers do.                  *)
LEMMA IndicesSame ==
  ASSUME indices' = indices, atomicProgram' = atomicProgram,
         \A u \in {"b", "c"} :
           atomicProgram = "read_queue" =>
             /\ atomicPc'[u] = 2 <=> atomicPc[u] = 2
             /\ atomicPc[u] = 2 => read'[u]["y"] = read[u]["y"]
  PROVE  \A u \in Atomic!Thread : Atomic!Indices(u)' = Atomic!Indices(u)
BY DEF Atomic!Indices

LEMMA OthersKeepIndices ==
  ASSUME Atomic!Outline, NEW t, NEW c, NEW j, Turn(t, c, j),
         indices' = indices, atomicProgram # "read_queue"
  PROVE  Atomic!IndicesOK' /\ Atomic!TakenOK'
<1>1. \A u \in Atomic!Thread : Atomic!Indices(u)' = Atomic!Indices(u)
  BY PcChange, IndicesSame
<1>2. Atomic!IndicesOK'
  BY <1>1, PcChange DEF Atomic!Outline, Atomic!IndicesOK
<1>3. Atomic!TakenOK'
  BY PcChange DEF Atomic!Outline, Atomic!TakenOK
<1> QED
  BY <1>2, <1>3

LEMMA DoStoreOutline ==
  ASSUME Atomic!Outline, NEW t \in Atomic!Thread, Atomic!DoStore(t)
  PROVE  Atomic!PlacesOK' /\ Atomic!IndicesOK' /\ Atomic!TakenOK'
<1> DEFINE c == Atomic!At(t)
           j == atomicPc[t] + 1
<1> HIDE DEF c, j
<1>1. /\ Turn(t, c, j) /\ indices' = indices /\ read' = read /\ c.op = "store"
      /\ j = atomicPc[t] + 1
  BY DoStoreTurn DEF Atomic!DoStore, Atomic!IsAt, c, j
<1>2. atomicProgram = "read_queue" =>
        t = "a" /\ (c.at = "y" <=> atomicPc[t] = 2) /\ (atomicPc[t] = 2 => c.value = Items)
  BY <1>1 DEF Turn, Atomic!InstructionFits, Atomic!StoreFits
<1>3. \A u \in {"b", "c"} : atomicProgram = "read_queue" => atomicPc'[u] = atomicPc[u]
  BY <1>1, <1>2, PcChange DEF Atomic!Thread
<1>4. Atomic!PlacesOK'
  BY <1>1, <1>3, PlacesKept DEF Atomic!Outline, Atomic!PlacesOK
<1>5. CASE atomicProgram # "read_queue"
  BY <1>1, <1>4, <1>5, OthersKeepIndices
<1>6. CASE atomicProgram = "read_queue"
  <2>1. /\ t = "a" /\ (c.at = "y" <=> atomicPc["a"] = 2)
        /\ (atomicPc["a"] = 2 => c.value = Items)
        /\ atomicPc'["a"] = atomicPc["a"] + 1 /\ atomicPc["a"] \in 1 .. 2
    <3>1. t = "a" /\ (c.at = "y" <=> atomicPc["a"] = 2) /\ (atomicPc["a"] = 2 => c.value = Items)
      BY <1>2, <1>6
    <3>2. atomicPc'["a"] = atomicPc["a"] + 1
      BY <1>1, <3>1, PcChange
    <3>3. atomicPc["a"] \in 1 .. Len(Atomic!Code[atomicProgram]["a"])
      BY <3>1, InstructionAt DEF Atomic!Outline, Atomic!DoStore, Atomic!IsAt
    <3>4. Len(Atomic!Code["read_queue"]["a"]) = 2
      <4>1. "read_queue" \in DOMAIN Atomic!Code /\ "a" \in Atomic!Thread
        BY <3>1, <1>6 DEF Atomic!Outline, Atomic!PlacesOK
      <4> QED
        BY <4>1, ProgramsFit DEF Atomic!ProgramFits
    <3> QED
      BY <1>6, <3>1, <3>2, <3>3, <3>4
  <2>2. \A u \in Atomic!Thread : Atomic!Indices(u)' = Atomic!Indices(u)
    BY <1>1, <1>3, PcChange, IndicesSame
  <2>3. CASE atomicPc["a"] = 2
    <3>1. Atomic!Counter' = Items
      <4>1. Appends(t, c)
        BY <1>1 DEF Turn, Writing
      <4> QED
        BY <1>1, <2>1, <2>3, <4>1 DEF Appends, Atomic!Counter
    <3>2. /\ UNION {Atomic!Indices(u) : u \in Atomic!Thread} = {}
          /\ \A u, w \in Atomic!Thread : u # w => Atomic!Indices(u) \cap Atomic!Indices(w) = {}
      BY <1>6, <2>3 DEF Atomic!Outline, Atomic!IndicesOK
    <3>3. {i \in 0 .. Items - 1 : i >= Items} = {}
      BY ListingsAssumption DEF Atomic!ConstantsAssumption
    <3>4. Atomic!IndicesOK'
      BY <1>6, <2>1, <2>2, <2>3, <3>1, <3>2, <3>3, PcChange, <1>1 DEF Atomic!IndicesOK
    <3>5. Atomic!TakenOK'
      BY <1>1, <1>3, <1>6, <2>3, PcChange DEF Atomic!Outline, Atomic!TakenOK
    <3> QED
      BY <1>4, <3>4, <3>5
  <2>4. CASE atomicPc["a"] = 1
    <3>1. Atomic!Counter' = Atomic!Counter
      <4>1. memory'["y"] = memory["y"]
        BY <1>1, <2>1, <2>4 DEF Turn, Atomic!Location
      <4> QED
        BY <4>1 DEF Atomic!Counter
    <3>2. Atomic!IndicesOK'
      BY <1>1, <1>6, <2>1, <2>2, <2>4, <3>1, PcChange DEF Atomic!Outline, Atomic!IndicesOK
    <3>3. Atomic!TakenOK'
      BY <1>1, <1>3, <1>6, <2>4, PcChange DEF Atomic!Outline, Atomic!TakenOK
    <3> QED
      BY <1>4, <3>2, <3>3
  <2> QED
    BY <2>1, <2>3, <2>4
<1> QED
  BY <1>5, <1>6

LEMMA DoLoadOutline ==
  ASSUME Atomic!Outline, NEW t \in Atomic!Thread, Atomic!DoLoad(t)
  PROVE  Atomic!PlacesOK' /\ Atomic!IndicesOK' /\ Atomic!TakenOK'
<1> DEFINE c == Atomic!At(t)
<1> HIDE DEF c
<1>1. PICK j \in Nat : Turn(t, c, j)
  BY DoLoadTurn DEF c
<1>2. /\ indices' = indices /\ c.op = "load"
      /\ read' \in [Atomic!Thread -> [Atomic!Location -> Atomic!Values]]
  <2>1. /\ indices' = indices /\ c.op = "load"
        /\ \E l \in Atomic!Location : \E m \in 1 .. Len(memory[l]) :
             read' = [read EXCEPT ![t][l] = memory[l][m].value]
    BY DoLoadTurn DEF c
  <2> QED
    BY <2>1, ReadTyped
<1>3. atomicProgram # "read_queue"
  BY <1>1, <1>2 DEF Turn, Atomic!InstructionFits
<1>4. Atomic!PlacesOK'
  BY <1>1, <1>2, <1>3, PlacesKept DEF Atomic!Outline, Atomic!PlacesOK
<1> QED
  BY <1>1, <1>2, <1>3, <1>4, OthersKeepIndices

LEMMA DoFenceOutline ==
  ASSUME Atomic!Outline, NEW t \in Atomic!Thread, Atomic!DoFence(t)
  PROVE  Atomic!PlacesOK' /\ Atomic!IndicesOK' /\ Atomic!TakenOK'
<1> DEFINE c == Atomic!At(t)
           j == atomicPc[t] + 1
<1> HIDE DEF c, j
<1>1. Turn(t, c, j) /\ indices' = indices /\ read' = read /\ c.op = "fence"
  BY DoFenceTurn DEF Atomic!DoFence, Atomic!IsAt, c, j
<1>2. atomicProgram # "read_queue"
  BY <1>1 DEF Turn, Atomic!InstructionFits
<1>3. Atomic!PlacesOK'
  BY <1>1, <1>2, PlacesKept DEF Atomic!Outline, Atomic!PlacesOK
<1> QED
  BY <1>1, <1>2, <1>3, OthersKeepIndices

LEMMA DoIncrementOutline ==
  ASSUME Atomic!Outline, NEW t \in Atomic!Thread, Atomic!DoIncrement(t)
  PROVE  Atomic!PlacesOK' /\ Atomic!IndicesOK' /\ Atomic!TakenOK'
<1> DEFINE c == Atomic!At(t)
           j == atomicPc[t] + 1
<1> HIDE DEF c, j
<1>1. Turn(t, c, j) /\ indices' = indices /\ read' = read /\ c.op = "increment"
  BY DoIncrementTurn DEF Atomic!DoIncrement, Atomic!IsAt, c, j
<1>2. atomicProgram # "read_queue"
  BY <1>1 DEF Turn, Atomic!InstructionFits
<1>3. Atomic!PlacesOK'
  BY <1>1, <1>2, PlacesKept DEF Atomic!Outline, Atomic!PlacesOK
<1> QED
  BY <1>1, <1>2, <1>3, OthersKeepIndices

LEMMA DoFetchSubOutline ==
  ASSUME Atomic!Outline, NEW t \in Atomic!Thread, Atomic!DoFetchSub(t)
  PROVE  Atomic!PlacesOK' /\ Atomic!IndicesOK' /\ Atomic!TakenOK'
<1> DEFINE c == Atomic!At(t)
           v == Atomic!Counter
           j == IF v <= 0 THEN atomicPc[t] ELSE atomicPc[t] + 1
<1> HIDE DEF c, v, j
<1>1. /\ Turn(t, c, j) /\ c.op = "fetch_sub" /\ c.at = "y"
      /\ indices' = indices /\ atomicProgram = "read_queue" /\ t \in {"b", "c"}
      /\ atomicPc[t] = 1 /\ v \in Floor + 1 .. Items
      /\ read' = [read EXCEPT ![t]["y"] = v]
  BY DoFetchSubTurn DEF c, v, j, Atomic!Counter
<1>2. /\ Floor \in Int /\ Floor < 0 /\ Items \in Nat \ {0} /\ v \in Int
  BY <1>1, ListingsAssumption DEF Atomic!ConstantsAssumption
<1>3. /\ read \in [Atomic!Thread -> [Atomic!Location -> Atomic!Values]]
      /\ indices \in [Atomic!Thread -> Seq(0 .. Items - 1)]
      /\ \A u \in {"b", "c"} :
           atomicProgram = "read_queue" /\ atomicPc[u] = 2 => read[u]["y"] \in 1 .. Items
  BY DEF Atomic!Outline, Atomic!PlacesOK
<1>4. /\ "y" \in Atomic!Location /\ v \in Atomic!Values
      /\ read' \in [Atomic!Thread -> [Atomic!Location -> Atomic!Values]]
      /\ read'[t]["y"] = v
      /\ \A u \in Atomic!Thread \ {t} : read'[u] = read[u]
  <2>1. "y" \in Atomic!Location /\ v \in Atomic!Values
    BY <1>1, <1>2 DEF Atomic!Location, Atomic!Values
  <2> QED
    BY <1>1, <1>3, <2>1
<1>5. /\ atomicPc'[t] = j /\ j = (IF v <= 0 THEN 1 ELSE 2)
      /\ \A u \in Atomic!Thread \ {t} : atomicPc'[u] = atomicPc[u]
      /\ "b" \in Atomic!Thread /\ "c" \in Atomic!Thread /\ "a" \in Atomic!Thread \ {t}
      /\ atomicProgram' = atomicProgram
  BY <1>1, PcChange DEF j, Atomic!Thread
<1>6. Atomic!PlacesOK'
  <2>1. ASSUME NEW u \in {"b", "c"}, atomicPc'[u] = 2 PROVE read'[u]["y"] \in 1 .. Items
    <3>1. CASE u = t
      BY <1>1, <1>2, <1>4, <1>5, <2>1, <3>1
    <3>2. CASE u # t
      BY <1>1, <1>3, <1>4, <1>5, <2>1, <3>2
    <3> QED
      BY <3>1, <3>2
  <2> QED
    BY <1>1, <1>3, <1>4, <2>1, PlacesKept
<1>7. Atomic!Counter' = v - 1
  <2>1. Appends(t, c)
    BY <1>1 DEF Turn, Writing
  <2> QED
    BY <1>1, <2>1 DEF Appends, Atomic!Counter, v
<1> DEFINE all == UNION {Atomic!Indices(u) : u \in Atomic!Thread}
<1>8. /\ atomicPc["a"] # 3 => v <= 0 /\ all = {}
      /\ atomicPc["a"] = 3 => all = {i \in 0 .. Items - 1 : i >= v}
      /\ \A u, w \in Atomic!Thread : u # w => Atomic!Indices(u) \cap Atomic!Indices(w) = {}
  BY <1>1 DEF Atomic!Outline, Atomic!IndicesOK, v
<1>9. \A u \in Atomic!Thread :
        /\ Atomic!Indices(u) \subseteq all
        /\ Atomic!Range(indices[u]) \subseteq Atomic!Indices(u)
  BY DEF Atomic!Indices
<1>10. CASE v <= 0
  <2>1. \A u \in Atomic!Thread : Atomic!Indices(u)' = Atomic!Indices(u)
    <3>1. \A u \in {"b", "c"} :
            /\ atomicPc'[u] = 2 <=> atomicPc[u] = 2
            /\ atomicPc[u] = 2 => read'[u]["y"] = read[u]["y"]
      BY <1>1, <1>4, <1>5, <1>10
    <3> QED
      BY <1>1, <1>5, <3>1, IndicesSame
  <2>2. {i \in 0 .. Items - 1 : i >= v} = {i \in 0 .. Items - 1 : i >= v - 1}
    BY <1>2, <1>10
  <2>3. Atomic!IndicesOK'
    BY <1>1, <1>2, <1>5, <1>7, <1>8, <1>10, <2>1, <2>2 DEF Atomic!IndicesOK
  <2>4. Atomic!TakenOK'
    <3>1. \A u \in {"b", "c"} :
            /\ atomicPc'[u] = 2 => atomicPc[u] = 2 /\ read'[u]["y"] = read[u]["y"]
            /\ atomicPc'[u] = 3 => atomicPc[u] = 3
      BY <1>1, <1>4, <1>5, <1>10
    <3>2. Atomic!Counter' <= 0
      BY <1>2, <1>7, <1>10
    <3> QED
      BY <1>1, <1>5, <3>1, <3>2 DEF Atomic!Outline, Atomic!TakenOK
  <2> QED
    BY <1>6, <2>3, <2>4
<1>11. CASE v > 0
  <2>1. atomicPc["a"] = 3 /\ all = {i \in 0 .. Items - 1 : i >= v} /\ atomicPc'["a"] = 3
    BY <1>2, <1>5, <1>8, <1>11
  <2>2. v - 1 \in 0 .. Items - 1 /\ v - 1 \notin all
    BY <1>1, <1>2, <1>11, <2>1
  <2>3. /\ Atomic!Indices(t) = Atomic!Range(indices[t])
        /\ Atomic!Indices(t)' = Atomic!Indices(t) \cup {v - 1}
        /\ \A u \in Atomic!Thread \ {t} : Atomic!Indices(u)' = Atomic!Indices(u)
    BY <1>1, <1>4, <1>5, <1>11 DEF Atomic!Indices
  <2>4. UNION {Atomic!Indices(u)' : u \in Atomic!Thread} = all \cup {v - 1}
    BY <2>3
  <2>5. all \cup {v - 1} = {i \in 0 .. Items - 1 : i >= v - 1}
    BY <1>2, <2>1, <2>2
  <2>6. \A u, w \in Atomic!Thread :
          u # w => Atomic!Indices(u)' \cap Atomic!Indices(w)' = {}
    BY <1>8, <1>9, <2>2, <2>3
  <2>7. Atomic!IndicesOK'
    BY <1>1, <1>5, <1>7, <2>1, <2>4, <2>5, <2>6 DEF Atomic!IndicesOK
  <2>8. Atomic!TakenOK'
    <3>1. v - 1 \notin Atomic!Range(indices[t])
      BY <1>9, <2>2
    <3>2. \A u \in {"b", "c"} : atomicPc'[u] # 3
      BY <1>1, <1>2, <1>5, <1>11 DEF Atomic!Outline, Atomic!TakenOK, v
    <3>3. \A u \in {"b", "c"} :
            atomicPc'[u] = 2 => read'[u]["y"] - 1 \notin Atomic!Range(indices[u])
      BY <1>1, <1>4, <1>5, <3>1 DEF Atomic!Outline, Atomic!TakenOK
    <3> QED
      BY <1>1, <1>5, <3>2, <3>3 DEF Atomic!Outline, Atomic!TakenOK
  <2> QED
    BY <1>6, <2>7, <2>8
<1> QED
  BY <1>2, <1>10, <1>11

LEMMA RangeAppend ==
  ASSUME NEW S, NEW s \in Seq(S), NEW e \in S
  PROVE  Atomic!Range(Append(s, e)) = Atomic!Range(s) \cup {e}
<1>1. /\ Len(s) \in Nat /\ Len(Append(s, e)) = Len(s) + 1
      /\ DOMAIN s = 1 .. Len(s) /\ DOMAIN Append(s, e) = 1 .. Len(s) + 1
      /\ \A i \in 1 .. Len(s) : Append(s, e)[i] = s[i]
      /\ Append(s, e)[Len(s) + 1] = e
  OBVIOUS
<1>2. \A i : i \in 1 .. Len(s) + 1 <=> i \in 1 .. Len(s) \/ i = Len(s) + 1
  BY <1>1
<1> QED
  BY <1>1, <1>2 DEF Atomic!Range

LEMMA InjectiveAppend ==
  ASSUME NEW S, NEW s \in Seq(S), NEW e \in S, e \notin Atomic!Range(s), Atomic!IsInjective(s)
  PROVE  Atomic!IsInjective(Append(s, e))
<1>1. /\ Len(s) \in Nat
      /\ DOMAIN s = 1 .. Len(s) /\ DOMAIN Append(s, e) = 1 .. Len(s) + 1
      /\ \A i \in 1 .. Len(s) : Append(s, e)[i] = s[i]
      /\ Append(s, e)[Len(s) + 1] = e
  OBVIOUS
<1>2. \A i : i \in 1 .. Len(s) + 1 <=> i \in 1 .. Len(s) \/ i = Len(s) + 1
  BY <1>1
<1>3. \A i \in 1 .. Len(s) : s[i] # e
  BY <1>1 DEF Atomic!Range
<1> QED
  BY <1>1, <1>2, <1>3 DEF Atomic!IsInjective

LEMMA DoElementOutline ==
  ASSUME Atomic!Outline, NEW t \in Atomic!Thread, Atomic!DoElement(t)
  PROVE  Atomic!PlacesOK' /\ Atomic!IndicesOK' /\ Atomic!TakenOK'
<1> DEFINE c == Atomic!At(t)
           index == read[t]["y"] - 1
           j == IF index = 0 THEN 3 ELSE 1
<1> HIDE DEF c, index, j
<1>1. /\ Turn(t, c, j) /\ c.op = "element"
      /\ atomicProgram = "read_queue" /\ t \in {"b", "c"} /\ atomicPc[t] = 2
      /\ indices' = [indices EXCEPT ![t] = Append(@, index)]
      /\ \E m \in 1 .. Len(memory["x"]) :
           read' = [read EXCEPT ![t]["x"] = memory["x"][m].value]
  BY DoElementTurn DEF c, index, j
<1>2. /\ read \in [Atomic!Thread -> [Atomic!Location -> Atomic!Values]]
      /\ indices \in [Atomic!Thread -> Seq(0 .. Items - 1)]
      /\ \A u \in {"b", "c"} :
           atomicProgram = "read_queue" /\ atomicPc[u] = 2 => read[u]["y"] \in 1 .. Items
  BY DEF Atomic!Outline, Atomic!PlacesOK
<1>3. Items \in Nat \ {0} /\ index \in 0 .. Items - 1 /\ index = read[t]["y"] - 1
  BY <1>1, <1>2, ListingsAssumption DEF Atomic!ConstantsAssumption, index
<1>4. /\ "x" \in Atomic!Location
      /\ read' \in [Atomic!Thread -> [Atomic!Location -> Atomic!Values]]
      /\ \A u \in Atomic!Thread : read'[u]["y"] = read[u]["y"]
  <2>1. "x" \in Atomic!Location /\ "y" \in Atomic!Location
    BY DEF Atomic!Location
  <2>2. read' \in [Atomic!Thread -> [Atomic!Location -> Atomic!Values]]
    BY <1>1, <2>1, ReadTyped
  <2> QED
    BY <1>1, <1>2, <2>1, <2>2
<1>5. /\ indices' \in [Atomic!Thread -> Seq(0 .. Items - 1)]
      /\ indices'[t] = Append(indices[t], index) /\ indices[t] \in Seq(0 .. Items - 1)
      /\ \A u \in Atomic!Thread \ {t} : indices'[u] = indices[u]
  BY <1>1, <1>2, <1>3
<1>6. /\ atomicPc'[t] = j /\ j \in {1, 3} /\ (j = 3 => index = 0)
      /\ \A u \in Atomic!Thread \ {t} : atomicPc'[u] = atomicPc[u]
      /\ "b" \in Atomic!Thread /\ "c" \in Atomic!Thread /\ "a" \in Atomic!Thread \ {t}
      /\ atomicProgram' = atomicProgram
  BY <1>1, PcChange DEF j, Atomic!Thread
<1>7. Atomic!PlacesOK'
  <2>1. ASSUME NEW u \in {"b", "c"}, atomicPc'[u] = 2 PROVE read'[u]["y"] \in 1 .. Items
    BY <1>1, <1>2, <1>4, <1>6, <2>1
  <2> QED
    BY <1>1, <1>4, <1>5, <2>1, PlacesKept
<1>8. Atomic!Counter' = Atomic!Counter
  <2>1. memory' = [k \in Atomic!Location |-> memory[k]]
    <3>1. \A k \in Atomic!Location : memory'[k] = memory[k]
      BY <1>1 DEF Turn, Writing
    <3> QED
      BY <1>1, <3>1 DEF Turn, Atomic!MemoryOK
  <2>2. memory'["y"] = memory["y"]
    BY <2>1 DEF Atomic!Location
  <2> QED
    BY <2>2 DEF Atomic!Counter
<1>9. /\ Atomic!Indices(t) = Atomic!Range(indices[t]) \cup {index}
      /\ Atomic!Indices(t)' = Atomic!Range(indices'[t])
      /\ Atomic!Range(indices'[t]) = Atomic!Range(indices[t]) \cup {index}
      /\ \A u \in Atomic!Thread \ {t} : Atomic!Indices(u)' = Atomic!Indices(u)
  <2>1. Atomic!Range(indices'[t]) = Atomic!Range(indices[t]) \cup {index}
    BY <1>3, <1>5, RangeAppend
  <2> QED
    BY <1>1, <1>3, <1>4, <1>5, <1>6, <2>1 DEF Atomic!Indices
<1>10. \A u \in Atomic!Thread : Atomic!Indices(u)' = Atomic!Indices(u)
  BY <1>9
<1>11. Atomic!IndicesOK'
  BY <1>1, <1>6, <1>8, <1>10 DEF Atomic!Outline, Atomic!IndicesOK
<1>12. Atomic!TakenOK'
  <2>1. /\ Atomic!IsInjective(indices[t])
        /\ index \notin Atomic!Range(indices[t])
    <3>1. Atomic!TakenOK
      BY DEF Atomic!Outline
    <3> QED
      BY <1>1, <1>3, <3>1 DEF Atomic!TakenOK
  <2>2. Atomic!IsInjective(indices'[t])
    BY <1>3, <1>5, <2>1, InjectiveAppend
  <2>3. j = 3 => atomicPc["a"] = 3 /\ Atomic!Counter <= 0
    <3>1. ASSUME j = 3 PROVE 0 \in UNION {Atomic!Indices(u) : u \in Atomic!Thread}
      BY <1>1, <1>6, <1>9, <3>1
    <3>2. atomicPc["a"] # 3 => UNION {Atomic!Indices(u) : u \in Atomic!Thread} = {}
      BY <1>1 DEF Atomic!Outline, Atomic!IndicesOK
    <3>3. atomicPc["a"] = 3 =>
            UNION {Atomic!Indices(u) : u \in Atomic!Thread}
              = {i \in 0 .. Items - 1 : i >= Atomic!Counter}
      BY <1>1 DEF Atomic!Outline, Atomic!IndicesOK
    <3>4. Atomic!Counter \in Int
      <4>1. "y" \in Atomic!Location /\ Atomic!MemoryOK
        BY DEF Atomic!Location, Atomic!Outline
      <4>2. Atomic!Counter \in Atomic!Values
        BY <4>1, NewestMessage DEF Atomic!Counter, Atomic!Message
      <4> QED
        BY <4>2, ListingsAssumption DEF Atomic!Values, Atomic!ConstantsAssumption
    <3> QED
      BY <3>1, <3>2, <3>3, <3>4
  <2>4. ASSUME NEW u \in Atomic!Thread
        PROVE  /\ Atomic!IsInjective(indices'[u])
               /\ u \in {"b", "c"} =>
                    /\ atomicPc'[u] = 2 => read'[u]["y"] - 1 \notin Atomic!Range(indices'[u])
                    /\ atomicPc'[u] = 3 => atomicPc'["a"] = 3 /\ Atomic!Counter' <= 0
    <3>1. CASE u = t
      BY <1>6, <1>8, <2>2, <2>3, <3>1
    <3>2. CASE u # t
      <4>1. /\ Atomic!IsInjective(indices[u])
            /\ u \in {"b", "c"} =>
                 /\ atomicPc[u] = 2 => read[u]["y"] - 1 \notin Atomic!Range(indices[u])
                 /\ atomicPc[u] = 3 => atomicPc["a"] = 3 /\ Atomic!Counter <= 0
        BY <1>1 DEF Atomic!Outline, Atomic!TakenOK
      <4>2. indices'[u] = indices[u] /\ atomicPc'[u] = atomicPc[u]
            /\ read'[u]["y"] = read[u]["y"]
        BY <1>4, <1>5, <1>6, <3>2
      <4> QED
        BY <1>6, <1>8, <4>1, <4>2
    <3> QED
      BY <3>1, <3>2
  <2>5. atomicProgram' = "read_queue" /\ Atomic!Thread = Atomic!Thread \cup {"b", "c"}
    BY <1>1, <1>6
  <2> QED
    BY <2>4, <2>5, Zenon DEF Atomic!TakenOK
<1> QED
  BY <1>7, <1>11, <1>12

LEMMA TurnOutline ==
  ASSUME Atomic!Outline, NEW t, NEW c, NEW j, Turn(t, c, j),
         Atomic!PlacesOK', Atomic!IndicesOK', Atomic!TakenOK'
  PROVE  Atomic!Outline'
<1>1. Atomic!MemoryOK'
  BY DEF Turn
<1> QED
  BY <1>1, ValuesKept, DataWrittenKept, FlagsCarryKept, DataSeenKept, DataReadKept
  DEF Atomic!Outline

LEMMA AtomicStepOutline == Atomic!Outline /\ Atomic!Next => Atomic!Outline'
<1> SUFFICES ASSUME Atomic!Outline, NEW t \in Atomic!Thread,
                    \/ Atomic!DoStore(t) \/ Atomic!DoFence(t) \/ Atomic!DoLoad(t)
                    \/ Atomic!DoIncrement(t) \/ Atomic!DoFetchSub(t) \/ Atomic!DoElement(t)
             PROVE  Atomic!Outline'
  BY Zenon DEF Atomic!Next
<1>1. CASE Atomic!DoStore(t)
  BY <1>1, DoStoreTurn, DoStoreOutline, TurnOutline
<1>2. CASE Atomic!DoFence(t)
  BY <1>2, DoFenceTurn, DoFenceOutline, TurnOutline
<1>3. CASE Atomic!DoLoad(t)
  BY <1>3, DoLoadTurn, DoLoadOutline, TurnOutline
<1>4. CASE Atomic!DoIncrement(t)
  BY <1>4, DoIncrementTurn, DoIncrementOutline, TurnOutline
<1>5. CASE Atomic!DoFetchSub(t)
  BY <1>5, DoFetchSubTurn, DoFetchSubOutline, TurnOutline
<1>6. CASE Atomic!DoElement(t)
  BY <1>6, DoElementTurn, DoElementOutline, TurnOutline
<1> QED
  BY <1>1, <1>2, <1>3, <1>4, <1>5, <1>6

LEMMA AtomicStutterOutline == Atomic!Outline /\ UNCHANGED atomic => Atomic!Outline'
<1> SUFFICES ASSUME Atomic!Outline, UNCHANGED atomic PROVE Atomic!Outline'
  OBVIOUS
<1>1. /\ memory' = memory /\ cur' = cur /\ acq' = acq /\ rel' = rel
      /\ atomicProgram' = atomicProgram /\ atomicPc' = atomicPc /\ read' = read
      /\ indices' = indices
  BY DEF atomic
<1>2. Atomic!MemoryOK'
  BY <1>1 DEF Atomic!Outline, Atomic!MemoryOK, Atomic!Tops
<1>3. Atomic!PlacesOK' /\ Atomic!ValuesOK'
  BY <1>1 DEF Atomic!Outline, Atomic!PlacesOK, Atomic!ValuesOK
<1>4. Atomic!DataWritten' /\ Atomic!DataRead'
  BY <1>1 DEF Atomic!Outline, Atomic!DataWritten, Atomic!DataRead
<1>5. Atomic!FlagsCarry' /\ Atomic!DataSeen'
  BY <1>1 DEF Atomic!Outline, Atomic!FlagsCarry, Atomic!DataSeen, Atomic!AllWritten
<1>6. Atomic!Counter' = Atomic!Counter
      /\ \A u \in Atomic!Thread : Atomic!Indices(u)' = Atomic!Indices(u)
  BY <1>1, IndicesSame DEF Atomic!Counter
<1>7. Atomic!IndicesOK' /\ Atomic!TakenOK'
  <2>1. Atomic!IndicesOK'
    BY <1>1, <1>6 DEF Atomic!Outline, Atomic!IndicesOK
  <2>2. Atomic!TakenOK'
    BY <1>1, <1>6 DEF Atomic!Outline, Atomic!TakenOK
  <2> QED
    BY <2>1, <2>2
<1> QED
  BY <1>2, <1>3, <1>4, <1>5, <1>7 DEF Atomic!Outline

LEMMA AtomicInitOutline == Atomic!Init => Atomic!Outline
<1> SUFFICES ASSUME Atomic!Init PROVE Atomic!Outline
  OBVIOUS
<1> DEFINE start == Atomic!Memory!StartView
<1> HIDE DEF start
<1>1. /\ memory = [l \in Atomic!Location |-> <<[value |-> 0, view |-> start]>>]
      /\ cur = [t \in Atomic!Thread |-> start] /\ acq = [t \in Atomic!Thread |-> start]
      /\ rel = [t \in Atomic!Thread |-> start]
      /\ atomicProgram \in DOMAIN Atomic!Code /\ atomicPc = [t \in Atomic!Thread |-> 1]
      /\ read = [t \in Atomic!Thread |-> [l \in Atomic!Location |-> 0]]
      /\ indices = [t \in Atomic!Thread |-> <<>>]
  BY DEF Atomic!Init, Atomic!Memory!MemoryInit, start
<1>2. Items \in Nat \ {0} /\ Floor \in Int /\ Floor < 0
  BY ListingsAssumption DEF Atomic!ConstantsAssumption
<1>3. start \in Atomic!Memory!View /\ start = [l \in Atomic!Location |-> 1]
  BY DEF start, Atomic!Memory!View, Atomic!Memory!StartView
<1>4. /\ \A l \in Atomic!Location :
           /\ memory[l] \in Seq(Atomic!Message) /\ Len(memory[l]) = 1
           /\ memory[l][1].value = 0 /\ memory[l][1].view = start
      /\ Atomic!Tops = start
  <2>1. [value |-> 0, view |-> start] \in Atomic!Message
    BY <1>2, <1>3 DEF Atomic!Message, Atomic!Values
  <2>2. \A l \in Atomic!Location :
           /\ memory[l] \in Seq(Atomic!Message) /\ Len(memory[l]) = 1
           /\ memory[l][1].value = 0 /\ memory[l][1].view = start
    BY <1>1, <2>1
  <2> QED
    BY <1>3, <2>2 DEF Atomic!Tops
<1>5. Atomic!Behind(start, start)
  BY <1>3, BehindOrder
<1>6. Atomic!MemoryOK
  <2>1. /\ memory \in [Atomic!Location -> Seq(Atomic!Message)]
        /\ cur \in [Atomic!Thread -> Atomic!Memory!View]
        /\ acq \in [Atomic!Thread -> Atomic!Memory!View]
        /\ rel \in [Atomic!Thread -> Atomic!Memory!View]
    BY <1>1, <1>3, <1>4
  <2>2. \A t \in Atomic!Thread : cur[t] = start /\ acq[t] = start /\ rel[t] = start
    BY <1>1
  <2>3. \A l \in Atomic!Location : \A m \in 1 .. Len(memory[l]) : memory[l][m].view = start
    BY <1>4
  <2> QED
    BY <1>3, <1>4, <1>5, <2>1, <2>2, <2>3 DEF Atomic!MemoryOK
<1>7. Atomic!PlacesOK
  <2>1. \A t \in Atomic!Thread : Len(Atomic!Code[atomicProgram][t]) \in Nat
    BY <1>1, CodeIsSequence
  <2>2. 0 \in Atomic!Values
    BY <1>2 DEF Atomic!Values
  <2>3. "b" \in Atomic!Thread /\ "c" \in Atomic!Thread
    BY DEF Atomic!Thread
  <2> QED
    BY <1>1, <2>1, <2>2, <2>3 DEF Atomic!PlacesOK
<1>8. Atomic!ValuesOK
  <2>1. /\ Atomic!Counts(atomicProgram, "a", 1) + Atomic!Counts(atomicProgram, "b", 1)
             + Atomic!Counts(atomicProgram, "c", 1) + Atomic!Counts(atomicProgram, "d", 1) <= 2
        /\ \A t \in Atomic!Thread : Atomic!Counts(atomicProgram, t, 1) \in {0, 1}
    BY <1>1, ProgramsFit, CountBit DEF Atomic!ProgramFits
  <2>2. "z" \in Atomic!Location /\ Atomic!Thread = {"a", "b", "c", "d"}
    BY DEF Atomic!Location, Atomic!Thread
  <2> QED
    BY <1>1, <1>2, <1>4, <2>1, <2>2 DEF Atomic!ValuesOK
<1>9. Atomic!DataWritten
  <2>1. /\ Atomic!Writer(atomicProgram) \in Atomic!Thread
        /\ Atomic!Data(atomicProgram) \subseteq Atomic!Location
    BY DataAndFlags
  <2> SUFFICES ASSUME NEW l \in Atomic!Data(atomicProgram)
               PROVE  LET w == Atomic!Writer(atomicProgram)
                      IN /\ Len(memory[l]) = IF atomicPc[w] > Atomic!WrittenAt(l) THEN 2 ELSE 1
                         /\ cur[w][l] = Len(memory[l])
                         /\ Len(memory[l]) = 2 => memory[l][2].value > 0
    BY DEF Atomic!DataWritten
  <2>2. Atomic!WrittenAt(l) \in 1 .. 5 /\ l \in Atomic!Location
    BY <2>1, WrittenAtNat
  <2>3. /\ Len(memory[l]) = 1 /\ cur[Atomic!Writer(atomicProgram)][l] = 1
        /\ atomicPc[Atomic!Writer(atomicProgram)] = 1
    BY <1>1, <1>3, <1>4, <2>1, <2>2
  <2> QED
    BY <2>2, <2>3
<1>10. Atomic!FlagsCarry
  <2>1. Atomic!Flags(atomicProgram) \subseteq Atomic!Location /\ "a" \in Atomic!Thread
    BY DataAndFlags DEF Atomic!Thread
  <2> QED
    BY <1>1, <1>4, <2>1 DEF Atomic!FlagsCarry
<1>11. Atomic!DataSeen /\ Atomic!DataRead
  BY <1>1, ProgramsFit DEF Atomic!ProgramFits, Atomic!DataSeen, Atomic!DataRead, Atomic!Informed
<1>12. \A t \in Atomic!Thread : Atomic!Range(indices[t]) = {} /\ Atomic!IsInjective(indices[t])
  BY <1>1 DEF Atomic!Range, Atomic!IsInjective
<1>13. Atomic!IndicesOK
  <2>1. \A t \in Atomic!Thread : Atomic!Indices(t) = {}
    BY <1>1, <1>12 DEF Atomic!Indices
  <2>2. Atomic!Counter = 0 /\ "a" \in Atomic!Thread
    BY <1>4 DEF Atomic!Counter, Atomic!Location, Atomic!Thread
  <2> QED
    BY <1>1, <2>1, <2>2 DEF Atomic!IndicesOK
<1>14. Atomic!TakenOK
  <2>1. \A t \in Atomic!Thread :
          /\ Atomic!IsInjective(indices[t]) /\ atomicPc[t] = 1
    BY <1>1, <1>12
  <2> QED
    BY <2>1 DEF Atomic!TakenOK
<1> QED
  BY <1>6, <1>7, <1>8, <1>9, <1>10, <1>11, <1>13, <1>14 DEF Atomic!Outline

-----------------------------------------------------------------------------
(* What the outline says of the properties.                                *)

LEMMA AtomicTypes == Atomic!Outline => Atomic!TypeOK
<1> SUFFICES ASSUME Atomic!Outline PROVE Atomic!TypeOK
  OBVIOUS
<1>1. Atomic!MemoryOK /\ Atomic!PlacesOK
  BY DEF Atomic!Outline
<1>2. \A t \in Atomic!Thread, l \in Atomic!Location :
        cur[t][l] <= acq[t][l] /\ acq[t][l] <= Atomic!Memory!Newest(l)
  BY <1>1, ViewBound DEF Atomic!Memory!Newest
<1>3. \A t \in Atomic!Thread, l \in Atomic!Location : rel[t][l] <= cur[t][l]
  BY <1>1, Zenon DEF Atomic!MemoryOK, Atomic!Behind
<1>4. \A k \in Atomic!Location : \A m \in 1 .. Atomic!Memory!Newest(k) :
        \A l \in Atomic!Location : memory[k][m].view[l] <= Atomic!Memory!Newest(l)
  <2>1. \A l \in Atomic!Location : Atomic!Tops[l] = Atomic!Memory!Newest(l)
    BY DEF Atomic!Tops, Atomic!Memory!Newest
  <2>2. \A k \in Atomic!Location : \A m \in 1 .. Atomic!Memory!Newest(k) :
          Atomic!Behind(memory[k][m].view, Atomic!Tops)
    BY <1>1 DEF Atomic!MemoryOK, Atomic!Memory!Newest
  <2> QED
    BY <2>1, <2>2 DEF Atomic!Behind
<1>5. Atomic!Memory!MemoryTypeOK(Atomic!Values)
  BY <1>1, <1>2, <1>3, <1>4 DEF Atomic!MemoryOK, Atomic!Memory!MemoryTypeOK, Atomic!Message
<1> QED
  BY <1>1, <1>5 DEF Atomic!TypeOK, Atomic!PlacesOK

LEMMA AtomicReaders == Atomic!Outline => Atomic!ReadersSeeData
<1> SUFFICES ASSUME Atomic!Outline, atomicProgram \in Atomic!Synchronized,
                    NEW t \in Atomic!Thread, Atomic!Ended(t), NEW l \in Atomic!DataOf(t)
             PROVE  read[t][l] # 0
  BY DEF Atomic!ReadersSeeData
<1> DEFINE code == Atomic!Code[atomicProgram][t]
<1>1. PICK i \in DOMAIN code :
        /\ code[i].op \in {"load", "element"} /\ code[i].at = l
        /\ l \in {"x"} \cup Atomic!Elements
  BY DEF Atomic!DataOf
<1>2. atomicProgram \in DOMAIN Atomic!Code /\ atomicPc[t] \in 1 .. Len(code) + 1
  BY DEF Atomic!Outline, Atomic!PlacesOK
<1>3. i \in 1 .. Len(code)
  BY <1>1, <1>2, CodeIsSequence
<1>4. Atomic!InstructionFits(atomicProgram, t, i, code[i])
  BY <1>2, <1>3, ProgramsFit DEF Atomic!ProgramFits
<1>5. l \in Atomic!Data(atomicProgram) /\ Atomic!HasRead(atomicProgram, t, Len(code) + 1, l)
  BY <1>1, <1>4 DEF Atomic!InstructionFits, Atomic!ReadFits
<1>6. atomicPc[t] = Len(code) + 1
  <2>1. Len(code) \in Nat /\ ~(atomicPc[t] <= Len(code))
    BY <1>2, CodeIsSequence DEF Atomic!Ended
  <2> QED
    BY <1>2, <2>1
<1>7. read[t][l] > 0
  BY <1>5, <1>6 DEF Atomic!Outline, Atomic!DataRead
<1> QED
  BY <1>7

LEMMA AtomicRaces == Atomic!Outline => Atomic!NoDataRace
<1> SUFFICES ASSUME Atomic!Outline, atomicProgram \in Atomic!Synchronized,
                    NEW t \in Atomic!Thread, ~Atomic!Ended(t),
                    \/ Atomic!At(t).op \in {"store", "load"} /\ Atomic!At(t).order = "plain"
                    \/ Atomic!At(t).op = "element"
             PROVE  cur[t][Atomic!At(t).at] = Len(memory[Atomic!At(t).at])
  BY DEF Atomic!NoDataRace, Atomic!IsAt, Atomic!Memory!Newest
<1> DEFINE c == Atomic!At(t)
<1> HIDE DEF c
<1>1. Atomic!InstructionFits(atomicProgram, t, atomicPc[t], c)
  BY InstructionAt DEF Atomic!Outline, c
<1>2. /\ c.at \in Atomic!Data(atomicProgram)
      /\ t = Atomic!Writer(atomicProgram) \/ Atomic!Informed(atomicProgram, t, atomicPc[t])
  BY <1>1 DEF Atomic!InstructionFits, c
<1>3. CASE t = Atomic!Writer(atomicProgram)
  BY <1>2, <1>3 DEF Atomic!Outline, Atomic!DataWritten, c
<1>4. CASE Atomic!Informed(atomicProgram, t, atomicPc[t])
  BY <1>2, <1>4 DEF Atomic!Outline, Atomic!DataSeen, Atomic!AllWritten, Atomic!Informed, c
<1> QED
  BY <1>2, <1>3, <1>4

LEMMA AtomicItems == Atomic!Outline => Atomic!ItemsTakenOnce
<1> SUFFICES ASSUME Atomic!Outline PROVE Atomic!ItemsTakenOnce
  OBVIOUS
<1>1. ASSUME NEW t \in Atomic!Thread
      PROVE  /\ Atomic!IsAt(t, "element") <=>
                  atomicProgram = "read_queue" /\ t \in {"b", "c"} /\ atomicPc[t] = 2
             /\ Atomic!IsAt(t, "element") => Atomic!At(t).counter = "y"
             /\ atomicProgram = "read_queue" /\ t \in {"b", "c"} /\ Atomic!Ended(t) =>
                  atomicPc[t] = 3
             /\ atomicProgram = "read_queue" /\ t = "a" => atomicPc[t] \in 1 .. 3
  <2>1. /\ Atomic!PlacesOK /\ atomicProgram \in DOMAIN Atomic!Code
        /\ atomicPc[t] \in 1 .. Len(Atomic!Code[atomicProgram][t]) + 1
    BY DEF Atomic!Outline, Atomic!PlacesOK
  <2>2. atomicProgram = "read_queue" =>
          /\ Len(Atomic!Code[atomicProgram][t]) = IF t = "d" THEN 0 ELSE 2
          /\ t \in {"b", "c"} => Atomic!Code[atomicProgram][t][2].op = "element"
    BY <2>1, ProgramsFit DEF Atomic!ProgramFits
  <2>3. Atomic!IsAt(t, "element") =>
          /\ atomicProgram = "read_queue" /\ t \in {"b", "c"} /\ atomicPc[t] = 2
          /\ Atomic!At(t).counter = "y"
    BY <2>1, InstructionAt DEF Atomic!IsAt, Atomic!InstructionFits
  <2>4. atomicProgram = "read_queue" /\ t \in {"b", "c"} /\ atomicPc[t] = 2 =>
          Atomic!IsAt(t, "element")
    BY <2>2 DEF Atomic!IsAt, Atomic!At, Atomic!Ended
  <2>5. atomicProgram = "read_queue" /\ t \in {"b", "c"} /\ Atomic!Ended(t) => atomicPc[t] = 3
    BY <2>1, <2>2 DEF Atomic!Ended
  <2>6. ASSUME atomicProgram = "read_queue", t = "a" PROVE atomicPc[t] \in 1 .. 3
    <3>1. Len(Atomic!Code[atomicProgram][t]) = 2
      BY <2>2, <2>6
    <3> QED
      BY <2>1, <3>1
  <2> QED
    BY <2>3, <2>4, <2>5, <2>6
<1>2. \A t \in Atomic!Thread : Atomic!Held(t) = Atomic!Indices(t)
  BY <1>1 DEF Atomic!Held, Atomic!Indices
<1> DEFINE all == UNION {Atomic!Indices(t) : t \in Atomic!Thread}
<1>3. /\ atomicProgram # "read_queue" => all = {}
      /\ atomicProgram = "read_queue" =>
           /\ atomicPc["a"] # 3 => all = {}
           /\ atomicPc["a"] = 3 => all = {i \in 0 .. Items - 1 : i >= Atomic!Counter}
      /\ \A t, u \in Atomic!Thread : t # u => Atomic!Indices(t) \cap Atomic!Indices(u) = {}
  BY DEF Atomic!Outline, Atomic!IndicesOK
<1>4. Atomic!Counter \in Int
  <2>1. "y" \in Atomic!Location /\ Atomic!MemoryOK
    BY DEF Atomic!Location, Atomic!Outline
  <2>2. Atomic!Counter \in Atomic!Values
    BY <2>1, NewestMessage DEF Atomic!Counter, Atomic!Message
  <2> QED
    BY <2>2, ListingsAssumption DEF Atomic!Values, Atomic!ConstantsAssumption
<1>5. \A i \in all : i \in 0 .. Items - 1 /\ i .. Items - 1 \subseteq all
  BY <1>3, <1>4, ListingsAssumption DEF Atomic!ConstantsAssumption
<1>6. \A t \in Atomic!Thread : Atomic!IsInjective(indices[t])
  BY DEF Atomic!Outline, Atomic!TakenOK
<1>7. atomicProgram = "read_queue" /\ (Atomic!Ended("b") \/ Atomic!Ended("c")) =>
        all = 0 .. Items - 1
  <2> SUFFICES ASSUME atomicProgram = "read_queue", NEW t \in {"b", "c"}, Atomic!Ended(t)
               PROVE  all = 0 .. Items - 1
    OBVIOUS
  <2>1. t \in Atomic!Thread
    BY DEF Atomic!Thread
  <2>2. atomicPc["a"] = 3 /\ Atomic!Counter <= 0
    BY <1>1, <2>1 DEF Atomic!Outline, Atomic!TakenOK
  <2> QED
    BY <1>3, <1>4, <2>2
<1> QED
  BY <1>2, <1>3, <1>5, <1>6, <1>7, Zenon DEF Atomic!ItemsTakenOnce

-----------------------------------------------------------------------------
(* parallel_accumulate, for every length and number of processors. *)

(* The quotient that \div gives. *)
LEMMA Quotient ==
  ASSUME NEW a \in Nat, NEW b \in Nat \ {0}
  PROVE  a \div b \in Nat /\ b * (a \div b) <= a /\ a < b * (a \div b) + b
BY SMTT(30)

LEMMA ThreadCount ==
  ASSUME length \in Nat, hardware \in Nat
  PROVE  Sum!num_threads \in 0 .. length /\ (Sum!num_threads = 0 <=> length = 0)
<1> DEFINE m == min_per_thread
           a == length + m - 1
           other == IF hardware # 0 THEN hardware ELSE 2
<1>1. m \in Nat \ {0} /\ a \in Nat /\ other \in Nat \ {0}
  BY ListingsAssumption DEF Sum!ConstantsAssumption
<1>2. Sum!max_threads \in Nat /\ m * Sum!max_threads <= a /\ a < m * Sum!max_threads + m
  BY <1>1, Quotient DEF Sum!max_threads
<1>3. Sum!max_threads = 0 <=> length = 0
  BY <1>1, <1>2
<1>4. Sum!max_threads <= length
  <2> SUFFICES ASSUME Sum!max_threads >= length + 1
               PROVE  FALSE
    BY <1>2
  <2>1. m * Sum!max_threads >= m * (length + 1)
    BY <1>1, <1>2
  <2>2. m * (length + 1) = m * length + m
    BY <1>1
  <2>3. m * length >= length
    BY <1>1
  <2> QED
    BY <1>1, <1>2, <2>1, <2>2, <2>3
<1>5. /\ Sum!num_threads \in {Sum!max_threads, other}
      /\ Sum!num_threads <= Sum!max_threads /\ Sum!num_threads <= other
  <2>1. \E x \in {Sum!max_threads, other} : \A y \in {Sum!max_threads, other} : x <= y
    BY <1>1, <1>2
  <2> QED
    BY <2>1 DEF Sum!num_threads, Sum!Min
<1> HIDE DEF m, a, other
<1> QED
  BY <1>1, <1>2, <1>3, <1>4, <1>5

LEMMA BlocksDivide ==
  ASSUME length \in Nat, hardware \in Nat
  PROVE  /\ UNION {Sum!Block(i) : i \in Sum!Worker} = 1 .. length
         /\ \A i, j \in Sum!Worker : i # j => Sum!Block(i) \cap Sum!Block(j) = {}
<1> DEFINE n == Sum!num_threads
           b == Sum!block_size
<1>1. n \in 0 .. length /\ (n = 0 <=> length = 0)
  BY ThreadCount
<1>2. CASE n = 0
  BY <1>1, <1>2 DEF Sum!Worker
<1>3. CASE n # 0
  <2>1. b \in Nat /\ n * b <= length /\ length < n * b + n
    BY <1>1, <1>3, Quotient DEF Sum!block_size
  <2>2. b # 0
    BY <1>1, <2>1
  <2>3. ASSUME NEW i \in Sum!Worker
        PROVE  /\ (i - 1) * b \in Nat /\ i * b \in Nat /\ i * b = (i - 1) * b + b
               /\ i * b <= length
    <3>1. i \in 1 .. n /\ i - 1 \in Nat
      BY <1>1 DEF Sum!Worker
    <3>2. i * b <= n * b
      BY <1>1, <2>1, <3>1
    <3> QED
      BY <1>1, <2>1, <3>1, <3>2
  <2>4. \A i, j \in Sum!Worker : i < j => i * b <= (j - 1) * b
    BY <1>1, <2>1 DEF Sum!Worker
  <2>5. \A i \in Sum!Worker : Sum!Block(i) = (i - 1) * b + 1 .. IF i = n THEN length ELSE i * b
    BY DEF Sum!Block
  <2>6. \A i \in Sum!Worker : i \in 1 .. n
    BY DEF Sum!Worker
  <2>7. ASSUME NEW k \in 1 .. length
        PROVE  \E i \in Sum!Worker : k \in Sum!Block(i)
    <3> DEFINE q == (k - 1) \div b
    <3>1. q \in Nat /\ b * q <= k - 1 /\ k - 1 < b * q + b
      BY <2>1, <2>2, Quotient
    <3>2. CASE q < n - 1
      <4>1. q + 1 \in Sum!Worker /\ q + 1 # n
        BY <1>1, <3>1, <3>2 DEF Sum!Worker
      <4>2. (q + 1 - 1) * b = b * q /\ (q + 1) * b = b * q + b
        BY <2>1, <3>1
      <4> HIDE DEF q
      <4>3. k \in Sum!Block(q + 1)
        BY <1>1, <2>1, <2>5, <3>1, <4>1, <4>2
      <4> QED
        BY <4>1, <4>3
    <3>3. CASE q >= n - 1
      <4>1. (n - 1) * b <= b * q
        BY <1>1, <1>3, <2>1, <3>1, <3>3
      <4>2. n \in Sum!Worker
        BY <1>1, <1>3 DEF Sum!Worker
      <4> HIDE DEF q
      <4>3. k \in Sum!Block(n)
        BY <1>1, <2>1, <2>3, <2>5, <3>1, <4>1, <4>2
      <4> QED
        BY <4>2, <4>3
    <3> QED
      BY <1>1, <3>1, <3>2, <3>3
  <2> HIDE DEF n, b
  <2>8. \A i \in Sum!Worker : Sum!Block(i) \subseteq 1 .. length
    BY <2>1, <2>3, <2>5
  <2>9. ASSUME NEW i \in Sum!Worker, NEW j \in Sum!Worker, i < j
        PROVE  Sum!Block(i) \cap Sum!Block(j) = {}
    <3>1. i # n /\ i * b <= (j - 1) * b
      BY <1>1, <2>4, <2>6, <2>9
    <3>2. /\ Sum!Block(i) = (i - 1) * b + 1 .. i * b
          /\ Sum!Block(j) = (j - 1) * b + 1 .. IF j = n THEN length ELSE j * b
      BY <2>5, <3>1
    <3>3. i * b \in Nat /\ j * b \in Nat /\ (i - 1) * b \in Nat /\ (j - 1) * b \in Nat
      BY <2>3
    <3> QED
      BY <3>1, <3>2, <3>3
  <2> QED
    <3>1. \A i, j \in Sum!Worker : i # j => Sum!Block(i) \cap Sum!Block(j) = {}
      BY <1>1, <2>6, <2>9
    <3>2. UNION {Sum!Block(i) : i \in Sum!Worker} = 1 .. length
      BY <2>7, <2>8
    <3> QED
      BY <3>1, <3>2
<1> QED
  BY <1>2, <1>3

(* The calls of Sum!accumulate_block and their results. *)
SumInv ==
  /\ length \in Nat /\ hardware \in Nat
  /\ threads \in 0 .. Sum!num_threads
  /\ results = [i \in Sum!Worker |-> results[i]]
  /\ \A i \in Sum!Worker : results[i] \in {Unset, Sum!Block(i)}
  /\ total # Unset => total = Sum!accumulate /\ \A i \in Sum!Worker : results[i] # Unset

LEMMA SumStarts == Sum!Init => SumInv
<1> SUFFICES ASSUME Sum!Init PROVE SumInv
  OBVIOUS
<1>1. length \in Nat /\ hardware \in Nat
  BY ListingsAssumption DEF Sum!Init, Sum!ConstantsAssumption
<1>2. Sum!num_threads \in Nat
  BY <1>1, ThreadCount
<1>3. results = [i \in Sum!Worker |-> Unset]
  BY Zenon DEF Sum!Init
<1> QED
  BY <1>1, <1>2, <1>3 DEF Sum!Init, SumInv

LEMMA SumGoesOn ==
  ASSUME SumInv, Sum!Next \/ UNCHANGED sum
  PROVE  SumInv'
<1>1. ASSUME UNCHANGED <<length, hardware>>
      PROVE  Sum!num_threads' = Sum!num_threads /\ Sum!Worker' = Sum!Worker
             /\ \A i : Sum!Block(i)' = Sum!Block(i)
  BY <1>1 DEF Sum!num_threads, Sum!max_threads, Sum!block_size, Sum!Worker, Sum!Block
<1>2. Sum!num_threads \in Nat
  BY ThreadCount DEF SumInv
<1>3. CASE Sum!StartThread
  <2>1. UNCHANGED <<length, hardware, results, total>> /\ threads' \in 0 .. Sum!num_threads
    BY <1>2, <1>3 DEF SumInv, Sum!StartThread
  <2>2. Sum!accumulate' = Sum!accumulate
    BY <2>1 DEF Sum!accumulate
  <2> QED
    BY <1>1, <2>1, <2>2 DEF SumInv
<1>4. ASSUME NEW i \in 1 .. threads, Sum!accumulate_block(i)
      PROVE  SumInv'
  <2>1. i \in Sum!Worker
    BY <1>2 DEF SumInv, Sum!Worker
  <2>2. total = Unset
    BY <1>4, <2>1 DEF SumInv, Sum!accumulate_block
  <2>3. results' = [results EXCEPT ![i] = Sum!Block(i)]
        /\ UNCHANGED <<length, hardware, threads, total>>
    BY <1>4 DEF Sum!accumulate_block
  <2>4. results = [j \in Sum!Worker |-> results[j]]
    BY DEF SumInv
  <2>5. results' = [j \in Sum!Worker |-> results'[j]]
        /\ \A j \in Sum!Worker :
             results'[j] = IF j = i THEN Sum!Block(i) ELSE results[j]
    BY <2>3, <2>4
  <2> QED
    BY <1>1, <2>1, <2>2, <2>3, <2>5 DEF SumInv
<1>5. CASE Sum!Return
  <2>1. DOMAIN results = Sum!Worker
    BY Zenon DEF SumInv
  <2>2. UNCHANGED <<length, hardware, threads, results>> /\ total' = Sum!accumulate
    BY <1>5 DEF Sum!Return
  <2>3. Sum!accumulate' = Sum!accumulate
    BY <2>2 DEF Sum!accumulate
  <2>4. \A i \in Sum!Worker : results[i] # Unset
    BY <1>5, <2>1 DEF Sum!Return
  <2> QED
    BY <1>1, <2>2, <2>3, <2>4 DEF SumInv
<1>6. CASE UNCHANGED sum
  <2>1. UNCHANGED <<length, hardware, threads, results, total>>
    BY <1>6 DEF sum
  <2>2. Sum!accumulate' = Sum!accumulate
    BY <2>1 DEF Sum!accumulate
  <2> QED
    BY <1>1, <2>1, <2>2 DEF SumInv
<1> QED
  BY <1>3, <1>4, <1>5, <1>6 DEF Sum!Next

(* The range and the number of processors, which never change. *)
SumChosen == length \in Lengths /\ hardware \in Hardware

LEMMA SumTypes == SumInv /\ SumChosen /\ Sum!TotalIsSum => Sum!TypeOK
<1> SUFFICES ASSUME SumInv, SumChosen, Sum!TotalIsSum PROVE Sum!TypeOK
  OBVIOUS
<1>1. /\ results = [i \in Sum!Worker |-> results[i]]
      /\ \A i \in Sum!Worker : results[i] \in {Unset, Sum!Block(i)}
  BY Zenon DEF SumInv
<1>2. UNION {Sum!Block(i) : i \in Sum!Worker} = 1 .. length
  BY BlocksDivide DEF SumInv
<1>3. \A i \in Sum!Worker : results[i] \in {Unset} \cup SUBSET (1 .. length)
  BY <1>1, <1>2
<1>4. results \in [Sum!Worker -> {Unset} \cup SUBSET (1 .. length)]
  BY <1>1, <1>3, Zenon
<1>5. total \in {Unset} \cup [1 .. length -> Nat]
  BY DEF Sum!TotalIsSum
<1> QED
  BY <1>4, <1>5 DEF SumInv, SumChosen, Sum!TypeOK

(* Every element is in one block, and so is once in the sum of the blocks. *)
LEMMA SumAddsUp == SumInv => Sum!TotalIsSum
<1> SUFFICES ASSUME SumInv, total # Unset
             PROVE  total = [k \in 1 .. length |-> 1]
  BY DEF Sum!TotalIsSum
<1>1. /\ total = Sum!accumulate /\ DOMAIN results = Sum!Worker
      /\ \A i \in Sum!Worker : results[i] = Sum!Block(i)
  BY DEF SumInv
<1>2. /\ UNION {Sum!Block(i) : i \in Sum!Worker} = 1 .. length
      /\ \A i, j \in Sum!Worker : i # j => Sum!Block(i) \cap Sum!Block(j) = {}
  BY BlocksDivide DEF SumInv
<1>3. UNION {results[i] : i \in DOMAIN results} = 1 .. length
  BY <1>1, <1>2
<1>4. ASSUME NEW k \in 1 .. length
      PROVE  Cardinality({i \in DOMAIN results : k \in results[i]}) = 1
  <2>1. PICK j \in Sum!Worker : k \in Sum!Block(j)
    BY <1>2
  <2>2. {i \in DOMAIN results : k \in results[i]} = {j}
    BY <1>1, <1>2, <2>1
  <2> QED
    BY <2>2, FS_Singleton
<1>5. \A S : Sum!Cardinality(S) = Cardinality(S)
  BY Zenon DEF Sum!Cardinality, Cardinality
<1> QED
  BY <1>1, <1>3, <1>4, <1>5 DEF Sum!accumulate

-----------------------------------------------------------------------------
(* The quicksorts, for every list of integers. *)

(* The calls in S have parts of a list of n elements, and none in common. *)
CallsFit(n, S) ==
  /\ \A d \in S : d.first \in 1 .. n + 1 /\ d.last \in 0 .. n
  /\ \A d, e \in S : d # e => d.last < e.first \/ e.last < d.first

(* Only elements of one of them are in the wrong order. *)
InOrder(n, l, S) ==
  \A i, j \in 1 .. n : i < j /\ l[i] > l[j] => \E d \in S : d.first <= i /\ j <= d.last

(* What the calls on either side of the pivot of c have. *)
Sides(c, p, below, above) ==
  below.first = c.first /\ below.last = p - 1 /\ above.first = p + 1 /\ above.last = c.last

(* How the part of a call is divided. *)
Pivots(l, first, p, last, order) ==
  /\ order \in [first .. last -> first .. last]
  /\ order[p] = first
  /\ \A i \in first .. p - 1 : l[order[i]] < l[first]
  /\ \A i \in p + 1 .. last : l[order[i]] >= l[first]

(* The list m is the list l with that part in another order. *)
Moved(n, l, first, last, order, m) ==
  \A k \in 1 .. n : m[k] = IF k \in first .. last THEN l[order[k]] ELSE l[k]

(* The calls on either side of the pivot are apart from all others. *)
LEMMA CallsApart ==
  ASSUME NEW n \in Nat, NEW S, CallsFit(n, S), NEW c \in S, NEW p \in c.first .. c.last,
         NEW below, NEW above, Sides(c, p, below, above)
  PROVE  CallsFit(n, (S \ {c}) \cup {below, above})
<1> SUFFICES ASSUME NEW d \in (S \ {c}) \cup {below, above},
                    NEW e \in (S \ {c}) \cup {below, above}
             PROVE  /\ d.first \in 1 .. n + 1 /\ d.last \in 0 .. n
                    /\ d # e => d.last < e.first \/ e.last < d.first
  BY DEF CallsFit
<1> USE DEF CallsFit, Sides
<1>1. c.first \in 1 .. n + 1 /\ c.last \in 0 .. n
  OBVIOUS
<1>2. below.last \in 0 .. n /\ above.first \in 1 .. n + 1
  BY <1>1
<1>3. \A f \in {d, e} :
        \/ /\ f \in S \ {c} /\ f.first \in 1 .. n + 1 /\ f.last \in 0 .. n
           /\ f.last < c.first \/ c.last < f.first
        \/ f = below
        \/ f = above
  OBVIOUS
<1>4. d.first \in 1 .. n + 1 /\ d.last \in 0 .. n
  BY <1>1, <1>2, <1>3
<1>5. CASE d \in S \ {c} /\ e \in S \ {c}
  BY <1>4, <1>5
<1>6. CASE d = below /\ e \in S \ {c}
  BY <1>1, <1>2, <1>3, <1>4, <1>6
<1>7. CASE d = above /\ e \in S \ {c}
  BY <1>1, <1>2, <1>3, <1>4, <1>7
<1>8. CASE e = below /\ d \in S \ {c}
  BY <1>1, <1>2, <1>3, <1>4, <1>8
<1>9. CASE e = above /\ d \in S \ {c}
  BY <1>1, <1>2, <1>3, <1>4, <1>9
<1>10. CASE d \in {below, above} /\ e \in {below, above}
  BY <1>4, <1>10
<1> QED
  BY <1>3, <1>4, <1>5, <1>6, <1>7, <1>8, <1>9, <1>10

(* An element of the part and one that is not are in order. *)
LEMMA OthersOrdered ==
  ASSUME NEW n \in Nat, NEW l \in [1 .. n -> Int], NEW S, CallsFit(n, S), InOrder(n, l, S),
         NEW c \in S, NEW x \in 1 .. n, NEW y \in 1 .. n, x < y,
         x \in c.first .. c.last <=> y \notin c.first .. c.last
  PROVE  l[x] <= l[y]
<1> SUFFICES ASSUME l[x] > l[y]
             PROVE  FALSE
  OBVIOUS
<1>1. PICK d \in S : d.first <= x /\ y <= d.last
  BY DEF InOrder
<1>2. c.first \in Int /\ c.last \in Int /\ d.first \in Int /\ d.last \in Int
  BY DEF CallsFit
<1>3. d # c
  BY <1>1, <1>2
<1>4. d.last < c.first \/ c.last < d.first
  BY <1>3 DEF CallsFit
<1> DEFINE first == c.first
           last == c.last
           low == d.first
           high == d.last
<1>5. /\ first \in Int /\ last \in Int /\ low \in Int /\ high \in Int
      /\ low <= x /\ y <= high /\ (high < first \/ last < low)
  BY <1>1, <1>2, <1>4
<1>6. x \in first .. last \/ y \in first .. last
  OBVIOUS
<1> HIDE DEF first, last, low, high
<1> QED
  BY <1>5, <1>6

(* Elements on the two sides of the pivot are in order. *)
LEMMA SidesOrdered ==
  ASSUME NEW l, NEW first \in Int, NEW last \in Int, NEW p \in first .. last, NEW order,
         Pivots(l, first, p, last, order),
         \A k \in first .. last : l[k] \in Int,
         NEW i \in first .. last, NEW j \in first .. last, i <= p, p <= j
  PROVE  l[order[i]] <= l[order[j]]
<1>1. order[i] \in first .. last /\ order[j] \in first .. last
  BY DEF Pivots
<1>2. l[order[i]] \in Int /\ l[order[j]] \in Int /\ l[first] \in Int
  BY <1>1
<1>3. l[order[i]] <= l[first]
  <2>1. CASE i = p
    <3>1. order[i] = first
      BY <2>1 DEF Pivots
    <3> QED
      BY <1>2, <3>1
  <2>2. CASE i < p
    <3>1. i \in first .. p - 1
      BY <2>2
    <3>2. l[order[i]] < l[first]
      BY <3>1, Zenon DEF Pivots
    <3> QED
      BY <1>2, <3>2
  <2> QED
    BY <2>1, <2>2
<1>4. l[first] <= l[order[j]]
  <2>1. CASE j = p
    <3>1. order[j] = first
      BY <2>1 DEF Pivots
    <3> QED
      BY <1>2, <3>1
  <2>2. CASE p < j
    <3>1. j \in p + 1 .. last
      BY <2>2
    <3>2. l[order[j]] >= l[first]
      BY <3>1, Zenon DEF Pivots
    <3> QED
      BY <1>2, <3>2
  <2> QED
    BY <2>1, <2>2
<1> QED
  BY <1>2, <1>3, <1>4

(* Who is in the wrong order behind the division was so within another     *)
(* call, or is so on one side of the pivot.                                *)
LEMMA OrderKept ==
  ASSUME NEW n \in Nat, NEW l \in [1 .. n -> Int], NEW S, CallsFit(n, S), InOrder(n, l, S),
         NEW c \in S, NEW p \in c.first .. c.last,
         NEW order, Pivots(l, c.first, p, c.last, order),
         NEW below, NEW above, Sides(c, p, below, above),
         NEW m, Moved(n, l, c.first, c.last, order, m)
  PROVE  InOrder(n, m, (S \ {c}) \cup {below, above})
<1> SUFFICES ASSUME NEW i \in 1 .. n, NEW j \in 1 .. n, i < j, m[i] > m[j]
             PROVE  \E d \in (S \ {c}) \cup {below, above} : d.first <= i /\ j <= d.last
  BY DEF InOrder
<1> DEFINE first == c.first
           last == c.last
           part == first .. last
<1>1. first \in 1 .. n + 1 /\ last \in 0 .. n /\ p \in part
  BY DEF CallsFit
<1>2. \A k \in part : order[k] \in part
  BY DEF Pivots
<1>3. below.first = first /\ below.last = p - 1 /\ above.first = p + 1 /\ above.last = last
  BY DEF Sides
<1>4. /\ i \in part => m[i] = l[order[i]]
      /\ i \notin part => m[i] = l[i]
      /\ j \in part => m[j] = l[order[j]]
      /\ j \notin part => m[j] = l[j]
  BY DEF Moved
<1>5. \A d \in S : d = c \/ d \in S \ {c}
  OBVIOUS
<1>6. CASE i \notin part /\ j \notin part
  <2>1. l[i] > l[j]
    BY <1>4, <1>6
  <2>2. PICK d \in S : d.first <= i /\ j <= d.last
    BY <2>1 DEF InOrder
  <2>3. d # c
    BY <1>1, <1>6, <2>2
  <2> QED
    BY <2>2, <2>3
<1> HIDE DEF first, last
<1>7. \A k \in part : k \in 1 .. n
  BY <1>1
<1>8. CASE i \in part /\ j \notin part
  <2>1. order[i] \in part /\ order[i] \in 1 .. n
    BY <1>2, <1>7, <1>8
  <2>2. order[i] < j
    BY <1>1, <1>8, <2>1
  <2>3. l[order[i]] <= l[j]
    BY <1>8, <2>1, <2>2, OthersOrdered DEF first, last
  <2>4. m[i] = l[order[i]] /\ m[j] = l[j] /\ l[order[i]] \in Int /\ l[j] \in Int
    BY <1>4, <1>8, <2>1
  <2> QED
    BY <2>3, <2>4
<1>9. CASE i \notin part /\ j \in part
  <2>1. order[j] \in part /\ order[j] \in 1 .. n
    BY <1>2, <1>7, <1>9
  <2>2. i < order[j]
    BY <1>1, <1>9, <2>1
  <2>3. l[i] <= l[order[j]]
    BY <1>9, <2>1, <2>2, OthersOrdered DEF first, last
  <2>4. m[i] = l[i] /\ m[j] = l[order[j]] /\ l[i] \in Int /\ l[order[j]] \in Int
    BY <1>4, <1>9, <2>1
  <2> QED
    BY <2>3, <2>4
<1>10. CASE i \in part /\ j \in part
  <2>1. order[i] \in 1 .. n /\ order[j] \in 1 .. n
    BY <1>2, <1>7, <1>10
  <2>2. m[i] = l[order[i]] /\ m[j] = l[order[j]] /\ l[order[i]] \in Int /\ l[order[j]] \in Int
    BY <1>4, <1>10, <2>1
  <2>3. ~(i <= p /\ p <= j)
    <3> SUFFICES ASSUME i <= p, p <= j PROVE FALSE
      OBVIOUS
    <3>1. first \in Int /\ last \in Int
      BY <1>1
    <3>2. \A k \in part : l[k] \in Int
      BY <1>7
    <3>3. l[order[i]] <= l[order[j]]
      <4>1. Pivots(l, first, p, last, order)
        BY DEF first, last
      <4> QED
        BY <1>1, <1>10, <3>1, <3>2, <4>1, SidesOrdered
    <3> QED
      BY <2>2, <3>3
  <2>4. CASE j < p
    <3>1. first <= i /\ j <= p - 1
      BY <1>1, <1>10, <2>4
    <3> QED
      BY <1>3, <3>1
  <2>5. CASE p < i
    <3>1. p + 1 <= i /\ j <= last
      BY <1>1, <1>10, <2>5
    <3> QED
      BY <1>3, <3>1
  <2> QED
    BY <1>1, <2>3, <2>4, <2>5
<1> QED
  BY <1>6, <1>8, <1>9, <1>10
(* Orders after one another: f within T, then g. *)
LEMMA Rearranged ==
  ASSUME NEW S, NEW T \in SUBSET S,
         NEW f \in Sort!Bijection(T, T), NEW g \in Sort!Bijection(S, S)
  PROVE  [i \in S |-> IF i \in T THEN g[f[i]] ELSE g[i]] \in Sort!Bijection(S, S)
<1> DEFINE h == [i \in S |-> IF i \in T THEN g[f[i]] ELSE g[i]]
<1>1. /\ f \in [T -> T] /\ \A i, j \in T : f[i] = f[j] => i = j
      /\ \A j \in T : \E i \in T : f[i] = j
  BY DEF Sort!Bijection, Sort!Injection, Sort!Surjection, Sort!IsInjective
<1>2. /\ g \in [S -> S] /\ \A i, j \in S : g[i] = g[j] => i = j
      /\ \A j \in S : \E i \in S : g[i] = j
  BY DEF Sort!Bijection, Sort!Injection, Sort!Surjection, Sort!IsInjective
<1>3. h \in [S -> S]
  BY <1>1, <1>2
<1>4. ASSUME NEW i \in S, NEW j \in S, h[i] = h[j]
      PROVE  i = j
  <2>1. (i \in T => f[i] \in T) /\ (j \in T => f[j] \in T)
    BY <1>1
  <2>2. (IF i \in T THEN f[i] ELSE i) = (IF j \in T THEN f[j] ELSE j)
    BY <1>2, <1>4, <2>1
  <2> QED
    BY <1>1, <2>1, <2>2
<1>5. ASSUME NEW j \in S
      PROVE  \E i \in S : h[i] = j
  <2>1. PICK k \in S : g[k] = j
    BY <1>2
  <2>2. CASE k \in T
    <3>1. PICK i \in T : f[i] = k
      BY <1>1, <2>2
    <3> QED
      BY <2>1, <3>1
  <2>3. CASE k \notin T
    BY <2>1, <2>3
  <2> QED
    BY <2>2, <2>3
<1> HIDE DEF h
<1>6. h \in Sort!Bijection(S, S)
  BY <1>3, <1>4, <1>5 DEF Sort!Bijection, Sort!Injection, Sort!Surjection, Sort!IsInjective
<1> QED
  BY <1>6 DEF h

(* The list is the input in another order, and only an open call may have  *)
(* elements in the wrong order.                                            *)
SortInv ==
  /\ input \in Seq(Int)
  /\ list \in [1 .. Len(input) -> Int]
  /\ \E order \in Sort!Bijection(DOMAIN input, DOMAIN input) :
       list = [i \in DOMAIN input |-> input[order[i]]]
  /\ CallsFit(Len(input), open)
  /\ InOrder(Len(input), list, open)

LEMMA SortStarts == Sort!Init => SortInv
<1> SUFFICES ASSUME Sort!Init PROVE SortInv
  OBVIOUS
<1> DEFINE n == Len(input)
           all == Sort!Call(1, n)
<1>1. input \in Seq(Int) /\ list = input /\ open = {all}
  BY ListingsAssumption DEF Sort!Init, Sort!ConstantsAssumption
<1>2. n \in Nat /\ DOMAIN input = 1 .. n /\ list \in [1 .. n -> Int]
  BY <1>1
<1>3. \E order \in Sort!Bijection(DOMAIN input, DOMAIN input) :
        list = [i \in DOMAIN input |-> input[order[i]]]
  <2> DEFINE same == [i \in DOMAIN input |-> i]
  <2>1. same \in Sort!Bijection(DOMAIN input, DOMAIN input)
    BY DEF Sort!Bijection, Sort!Injection, Sort!Surjection, Sort!IsInjective
  <2>2. list = [i \in DOMAIN input |-> input[same[i]]]
    BY <1>1, <1>2
  <2> QED
    BY <2>1, <2>2
<1>4. all.first = 1 /\ all.last = n
  BY DEF Sort!Call
<1> HIDE DEF all, n
<1>5. CallsFit(n, open)
  BY <1>1, <1>2, <1>4 DEF CallsFit
<1>6. InOrder(n, list, open)
  BY <1>1, <1>2, <1>4 DEF InOrder
<1> QED
  BY <1>1, <1>2, <1>3, <1>5, <1>6 DEF SortInv, n

(* A call that has divided its part. *)
LEMMA SortDivides ==
  ASSUME SortInv, NEW c \in open, NEW p \in c.first .. c.last,
         NEW order \in Sort!Partitions(c, p),
         list' = [i \in DOMAIN list |-> IF i \in DOMAIN order THEN list[order[i]] ELSE list[i]],
         open' = (open \ {c}) \cup {Sort!Call(c.first, p - 1), Sort!Call(p + 1, c.last)},
         input' = input
  PROVE  SortInv'
<1> DEFINE n == Len(input)
           whole == 1 .. n
           part == c.first .. c.last
           below == Sort!Call(c.first, p - 1)
           above == Sort!Call(p + 1, c.last)
<1>1. /\ n \in Nat /\ DOMAIN input = whole /\ list \in [whole -> Int]
      /\ CallsFit(n, open) /\ InOrder(n, list, open)
  BY DEF SortInv
<1>2. order \in Sort!Bijection(part, part) /\ order \in [part -> part]
  BY DEF Sort!Partitions, Sort!Bijection, Sort!Surjection
<1>3. Pivots(list, c.first, p, c.last, order)
  BY <1>2 DEF Sort!Partitions, Pivots
<1>4. Sides(c, p, below, above)
  BY DEF Sort!Call, Sides
<1> HIDE DEF below, above
<1>5. list' = [i \in whole |-> IF i \in part THEN list[order[i]] ELSE list[i]]
  BY <1>1, <1>2
<1>6. part \subseteq whole
  BY <1>1 DEF CallsFit
<1>7. list' \in [whole -> Int]
  BY <1>1, <1>2, <1>5, <1>6
<1>8. \E f \in Sort!Bijection(whole, whole) : list' = [i \in whole |-> input[f[i]]]
  <2>1. PICK g \in Sort!Bijection(whole, whole) : list = [i \in whole |-> input[g[i]]]
    BY <1>1 DEF SortInv
  <2> DEFINE h == [i \in whole |-> IF i \in part THEN g[order[i]] ELSE g[i]]
  <2>2. h \in Sort!Bijection(whole, whole)
    BY <1>2, <1>6, <2>1, Rearranged
  <2>3. list' = [i \in whole |-> input[h[i]]]
    BY <1>2, <1>5, <1>6, <2>1
  <2> QED
    BY <2>2, <2>3
<1>9. open' = (open \ {c}) \cup {below, above}
  BY DEF below, above
<1>10. CallsFit(n, open')
  BY <1>1, <1>4, <1>9, CallsApart
<1>11. InOrder(n, list', open')
  <2>1. Moved(n, list, c.first, c.last, order, list')
    BY <1>5 DEF Moved
  <2> HIDE DEF n
  <2>2. InOrder(n, list', (open \ {c}) \cup {below, above})
    BY <1>1, <1>3, <1>4, <2>1, OrderKept
  <2> QED
    BY <1>9, <2>2
<1>12. input' \in Seq(Int) /\ DOMAIN input' = whole /\ Len(input') = n
  BY <1>1 DEF SortInv
<1>13. \E f \in Sort!Bijection(DOMAIN input', DOMAIN input') :
         list' = [i \in DOMAIN input' |-> input'[f[i]]]
  <2>1. PICK f \in Sort!Bijection(whole, whole) : list' = [i \in whole |-> input[f[i]]]
    BY <1>8
  <2>2. list' = [i \in whole |-> input'[f[i]]]
    BY <2>1
  <2> QED
    BY <1>12, <2>1, <2>2, Zenon
<1> QED
  BY <1>7, <1>10, <1>11, <1>12, <1>13, Zenon DEF SortInv

LEMMA SortGoesOn ==
  ASSUME SortInv, Sort!Next \/ UNCHANGED sort
  PROVE  SortInv'
<1>1. ASSUME NEW c \in open, Sort!quick_sort(c)
      PROVE  SortInv'
  <2>1. input' = input
    BY <1>1 DEF Sort!quick_sort
  <2>2. CASE c.first > c.last /\ open' = open \ {c} /\ list' = list
    <3>1. CallsFit(Len(input), open')
      BY <2>2 DEF SortInv, CallsFit
    <3>2. InOrder(Len(input), list', open')
      <4> SUFFICES ASSUME NEW i \in 1 .. Len(input), NEW j \in 1 .. Len(input), i < j,
                          list[i] > list[j]
                   PROVE  \E d \in open' : d.first <= i /\ j <= d.last
        BY <2>2 DEF InOrder
      <4>1. PICK d \in open : d.first <= i /\ j <= d.last
        BY DEF SortInv, InOrder
      <4>2. c.first \in Int /\ c.last \in Int
        BY DEF SortInv, CallsFit
      <4>3. d # c
        BY <2>2, <4>1, <4>2
      <4> QED
        BY <2>2, <4>1, <4>3
    <3> QED
      BY <2>1, <2>2, <3>1, <3>2 DEF SortInv
  <2>3. ASSUME NEW p \in c.first .. c.last, NEW order \in Sort!Partitions(c, p),
               list' = [i \in DOMAIN list |->
                          IF i \in DOMAIN order THEN list[order[i]] ELSE list[i]],
               open' = (open \ {c}) \cup {Sort!Call(c.first, p - 1), Sort!Call(p + 1, c.last)}
        PROVE  SortInv'
    BY <2>1, <2>3, SortDivides
  <2> QED
    BY <1>1, <2>2, <2>3 DEF Sort!quick_sort
<1>2. CASE UNCHANGED sort
  <2>1. UNCHANGED <<input, list, open>>
    BY <1>2 DEF sort
  <2> QED
    BY <2>1, Zenon DEF SortInv, CallsFit, InOrder
<1> QED
  BY <1>1, <1>2 DEF Sort!Next

LEMMA SortSorts == SortInv => Sort!ResultIsSorted
<1> SUFFICES ASSUME SortInv PROVE Sort!ResultIsSorted
  OBVIOUS
<1>1. DOMAIN list = 1 .. Len(input) /\ \A i \in DOMAIN list : i \in Int /\ list[i] \in Int
  BY DEF SortInv
<1>2. \A i, j \in DOMAIN list : i < j /\ list[i] > list[j] =>
        \E c \in open : c.first <= i /\ j <= c.last
  BY <1>1 DEF SortInv, InOrder
<1>3. open = {} => \A i, j \in DOMAIN list : i < j => list[i] <= list[j]
  BY <1>1, <1>2
<1> QED
  BY <1>2, <1>3 DEF SortInv, Sort!ResultIsSorted

(* The list that main sorts and the listing, which never change, and the   *)
(* calls.                                                                  *)
SortChosen ==
  /\ listing \in {"4.12", "4.13"} /\ input \in Inputs
  /\ open \subseteq [first : Int, last : Int]

LEMMA SortChosenStarts == Sort!Init => SortChosen
<1> SUFFICES ASSUME Sort!Init PROVE SortChosen
  OBVIOUS
<1>1. input \in Seq(Int)
  BY ListingsAssumption DEF Sort!Init, Sort!ConstantsAssumption
<1> QED
  BY <1>1 DEF Sort!Init, Sort!Call, SortChosen

LEMMA SortChosenGoesOn ==
  ASSUME SortChosen, Sort!Next \/ UNCHANGED sort
  PROVE  SortChosen'
<1>1. ASSUME NEW c \in open, Sort!quick_sort(c)
      PROVE  SortChosen'
  <2>1. UNCHANGED <<listing, input>>
    BY <1>1 DEF Sort!quick_sort
  <2>2. c.first \in Int /\ c.last \in Int
    BY DEF SortChosen
  <2>3. open' \subseteq [first : Int, last : Int]
    <3>1. CASE open' = open \ {c}
      BY <3>1 DEF SortChosen
    <3>2. ASSUME NEW p \in c.first .. c.last,
                 open' = (open \ {c}) \cup {Sort!Call(c.first, p - 1), Sort!Call(p + 1, c.last)}
          PROVE  open' \subseteq [first : Int, last : Int]
      <4>1. p \in Int
        BY <2>2
      <4>2. /\ Sort!Call(c.first, p - 1) \in [first : Int, last : Int]
            /\ Sort!Call(p + 1, c.last) \in [first : Int, last : Int]
        BY <2>2, <4>1 DEF Sort!Call
      <4> QED
        BY <3>2, <4>2 DEF SortChosen
    <3> QED
      BY <1>1, <3>1, <3>2 DEF Sort!quick_sort
  <2> QED
    BY <2>1, <2>3 DEF SortChosen
<1>2. CASE UNCHANGED sort
  BY <1>2 DEF sort, SortChosen
<1> QED
  BY <1>1, <1>2 DEF Sort!Next

LEMMA SortTypes == SortInv /\ SortChosen => Sort!TypeOK
<1> SUFFICES ASSUME SortInv, SortChosen PROVE Sort!TypeOK
  OBVIOUS
<1>1. DOMAIN input = 1 .. Len(input) /\ list \in [DOMAIN input -> Int]
  BY DEF SortInv
<1>2. ASSUME NEW c \in open
      PROVE  c \in [first : 1 .. Len(input) + 1, last : 0 .. Len(input)]
  BY DEF SortInv, SortChosen, CallsFit
<1> QED
  BY <1>1, <1>2 DEF SortChosen, Sort!TypeOK

-----------------------------------------------------------------------------
(* All of Listings. *)

(* What is chosen in the beginning, and the calls of the quicksorts. *)
Choice ==
  /\ chosen \in {"blocking", "atomic", "spinlock", "sort", "sum"}
  /\ SortChosen /\ SumChosen

LEMMA ChoiceStarts == ListingsInit => Choice
BY SortChosenStarts DEF ListingsInit, Choice, SumChosen, Sum!Init

LEMMA ChoiceStays == Choice /\ [ListingsNext]_listings => Choice'
<1> SUFFICES ASSUME Choice, [ListingsNext]_listings
             PROVE  Choice'
  OBVIOUS
<1>1. UNCHANGED chosen
  BY DEF ListingsNext, BlockingStep, AtomicStep, SpinlockStep, SortStep, SumStep, listings
<1>2. Sort!Next \/ UNCHANGED sort
  BY DEF ListingsNext, BlockingStep, AtomicStep, SpinlockStep, SortStep, SumStep, listings
<1>3. UNCHANGED <<length, hardware>>
  <2>1. Sum!Next \/ UNCHANGED sum
    BY DEF ListingsNext, BlockingStep, AtomicStep, SpinlockStep, SortStep, SumStep, listings
  <2> QED
    BY <2>1 DEF Sum!Next, Sum!StartThread, Sum!accumulate_block, Sum!Return, sum
<1> QED
  BY <1>1, <1>2, <1>3, SortChosenGoesOn DEF Choice, SumChosen

(* The inductive invariant. *)
ListingsInv ==
  Choice /\ Outline /\ NumbersFit /\ Atomic!Outline /\ SpinlockInv /\ SortInv /\ SumInv

LEMMA ListingsStart == ListingsInit => ListingsInv
BY ChoiceStarts, BlockingInit, NumbersStart, AtomicInitOutline, SpinlockStarts, SortStarts,
   SumStarts
   DEF ListingsInit, ListingsInv

LEMMA BlockingNextNumbers == Outline /\ NumbersFit /\ Next => NumbersFit'
<1> SUFFICES ASSUME Outline, NumbersFit, Next PROVE NumbersFit'
  OBVIOUS
<1>1. TypeOK /\ PopsFit
  BY DEF Outline
<1>2. ASSUME NEW t \in Thread, WakeSpuriously(t) PROVE NumbersFit'
  BY <1>2, NumbersStay DEF WakeSpuriously, items
<1> QED
  BY <1>1, <1>2, StepKeepsNumbers DEF Next

LEMMA ListingsGoOn == ListingsInv /\ [ListingsNext]_listings => ListingsInv'
<1> SUFFICES ASSUME ListingsInv, [ListingsNext]_listings
             PROVE  ListingsInv'
  OBVIOUS
<1> USE DEF ListingsInv
<1>0. Choice'
  BY ChoiceStays
<1>1. UNCHANGED vars => Outline' /\ NumbersFit'
  <2>1. UNCHANGED vars => UNCHANGED <<program, pc, queue, taken>>
    BY DEF vars, items
  <2> QED
    BY <2>1, BlockingStutterOutline, NumbersStay
<1>2. UNCHANGED atomic => Atomic!Outline'
  BY AtomicStutterOutline DEF atomic
<1>3. UNCHANGED spinlock => SpinlockInv'
  BY SpinlockGoesOn
<1>4. UNCHANGED sort => SortInv'
  BY SortGoesOn
<1>5. UNCHANGED sum => SumInv'
  BY SumGoesOn
<1>6. CASE BlockingStep
  BY <1>0, <1>2, <1>3, <1>4, <1>5, <1>6, BlockingNextOutline, BlockingNextNumbers DEF BlockingStep
<1>7. CASE AtomicStep
  BY <1>0, <1>1, <1>3, <1>4, <1>5, <1>7, AtomicStepOutline DEF AtomicStep
<1>8. CASE SpinlockStep
  BY <1>0, <1>1, <1>2, <1>4, <1>5, <1>8, SpinlockGoesOn DEF SpinlockStep
<1>9. CASE SortStep
  BY <1>0, <1>1, <1>2, <1>3, <1>5, <1>9, SortGoesOn DEF SortStep
<1>10. CASE SumStep
  BY <1>0, <1>1, <1>2, <1>3, <1>4, <1>10, SumGoesOn DEF SumStep
<1>11. CASE UNCHANGED listings
  BY <1>0, <1>1, <1>2, <1>3, <1>4, <1>5, <1>11 DEF listings
<1> QED
  BY <1>0, <1>6, <1>7, <1>8, <1>9, <1>10, <1>11 DEF ListingsNext

LEMMA Inductive == ListingsSpec => []ListingsInv
BY ListingsStart, ListingsGoOn, PTL DEF ListingsSpec

(* The types of all variables of all parts: a mutex has an owner exactly   *)
(* while it is held and never a thread that sleeps, all views are of       *)
(* messages that exist, an index taken in 5.11 is one of an element, the   *)
(* flag of the spinlock tells whether it is held, a call of a quicksort is *)
(* about a part of its list and a result of parallel_accumulate about one  *)
(* of its range.                                                           *)
THEOREM TypeCorrect == ListingsSpec => []ListingsTypeOK
<1>1. ListingsInv => ListingsTypeOK
  BY AtomicTypes, SortTypes, SumAddsUp, SumTypes
     DEF ListingsInv, Choice, Outline, SpinlockInv, ListingsTypeOK
<1> QED
  BY <1>1, Inductive, PTL

(* No two threads hold the spinlock. *)
THEOREM Exclusive == ListingsSpec => []Spinlock!MutualExclusion
<1>1. ListingsInv => Spinlock!MutualExclusion
  BY DEF ListingsInv, SpinlockInv
<1> QED
  BY <1>1, Inductive, PTL

(* Every critical section of the spinlock sees all the writes of the       *)
(* earlier ones.                                                           *)
THEOREM Ordered == ListingsSpec => []SectionsOrdered
<1>1. ListingsInv => SectionsOrdered
  BY DEF ListingsInv, SpinlockInv, SectionsOrdered
<1> QED
  BY <1>1, Inductive, PTL

(* In chapter 5 a thread that sees the flag sees what was written before   *)
(* it was set, for every order, fence and counter of the listings.         *)
THEOREM DataSeen == ListingsSpec => []ReadersSeeData
<1>1. ListingsInv => ReadersSeeData
  BY AtomicReaders DEF ListingsInv, ReadersSeeData
<1> QED
  BY <1>1, Inductive, PTL

(* Accesses of plain data are ordered by the memory orders of chapter 5,   *)
(* or kept apart by the mutexes, joins and futures of chapters 1 to 4.     *)
THEOREM RaceFree == ListingsSpec => []NothingRaces
<1>1. ListingsInv => NothingRaces
  BY AtomicRaces, BlockingRaces DEF ListingsInv, NothingRaces
<1> QED
  BY <1>1, Inductive, PTL

(* No item of 5.11 has two consumers, however many there are; the numbers  *)
(* of 4.1.1, 4.4 and 4.5 are taken in order and all of them before main    *)
(* returns; no once_flag has its function run twice, or its result used    *)
(* early.                                                                  *)
THEOREM OnlyOnce == ListingsSpec => []DoneOnce
<1>1. ListingsInv => DoneOnce
  BY AtomicItems, BlockingOnce, BlockingNumbers DEF ListingsInv, Outline, DoneOnce
<1> QED
  BY <1>1, Inductive, PTL

(* The quicksorts of 4.12 and 4.13 sort, for every list of integers and    *)
(* whatever call goes on next, and the sum of parallel_accumulate has each *)
(* element once, for every length and number of processors.                *)
THEOREM Sequential == ListingsSpec => []ResultsAreSequential
<1>1. ListingsInv => ResultsAreSequential
  BY SortSorts, SumAddsUp DEF ListingsInv, ResultsAreSequential
<1> QED
  BY <1>1, Inductive, PTL

(* Who refers to a local of main does so while it exists: main goes on     *)
(* past the join or the get first, however long the threads run.           *)
THEOREM ScopesOutlive == ListingsSpec => []NoUseAfterScope
<1>1. ListingsInv => NoUseAfterScope
  BY BlockingScopes DEF ListingsInv
<1> QED
  BY <1>1, Inductive, PTL

=============================================================================
