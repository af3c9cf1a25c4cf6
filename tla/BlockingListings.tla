-------------------------- MODULE BlockingListings --------------------------
(***************************************************************************)
(* The small programs of chapters 1 to 4 whose threads wait for each       *)
(* other: with join, mutexes, call_once, a condition variable, promises    *)
(* and tasks.                                                              *)
(*                                                                         *)
(* A program gives each thread its code, a sequence of instructions.  main *)
(* starts the threads as the listing does; where the main of a listing is  *)
(* the only user of a class with a mutex or a once_flag, two threads use   *)
(* it here, save in 3.2 and 3.9.1: there main misuses it, and is the one   *)
(* thread.  When main returns the process ends, whatever the other threads *)
(* are doing.                                                              *)
(***************************************************************************)
EXTENDS Integers, Sequences, FiniteSets

CONSTANTS
  Repeats,      \* how often a counted loop of a listing is repeated
  MaxSpurious,  \* bound on the spurious wake-ups
  NoThread      \* owner of a free mutex

Thread == {"main", "a", "b", "c", "d", "e"}
Mutex == {"m", "n"}

ConstantsAssumption ==
  Repeats \in Nat \ {0} /\ MaxSpurious \in Nat /\ NoThread \notin Thread

(* The mutexes that their owner may lock again. *)
Recursive(listing) == IF listing = "recursive_mutex" THEN {"m"} ELSE {}

VARIABLES
  program,
  pc,         \* where each thread is in its code
  started,    \* the threads that have been started
  scope,      \* the locals of main that exist
  owner, depth,  \* holder of each mutex, and how often it holds it
  asleep,     \* threads in the wait of the condition variable
  spurious,   \* spurious wake-ups so far
  queue,      \* data_queue of 4.1.1, 4.4 and 4.5, tasks of 4.9
  taken,      \* what has been taken from queue
  ready,      \* the promises that have been kept, by the thread they belong to
  once,       \* the once_flag
  inits       \* how often the once_flag's function has run

locks == <<owner, depth>>
cond == <<asleep, spurious>>
items == <<queue, taken>>
flag == <<once, inits>>
vars == <<program, pc, started, scope, locks, cond, items, ready, flag>>

-----------------------------------------------------------------------------
(* The instructions.  at is the object that an instruction is about, and   *)
(* place the place where the thread may go on.                             *)

Do(op, at) == [op |-> op, at |-> at, place |-> 0]
DoOr(op, at, place) == [op |-> op, at |-> at, place |-> place]

Start(t) == Do("start", t)
Join(t) == Do("join", t)
Begin(l) == Do("begin", l)
End(l) == Do("end", l)
Read(l) == Do("read", l)
Write(l) == Do("write", l)
Lock(m) == Do("lock", m)
Unlock(m) == Do("unlock", m)
StdLock == Do("std_lock", "both")  \* std::lock of m and n
Get(t) == Do("get", t)
SetValue(t) == Do("set_value", t)

Times(code) == [i \in 1 .. Repeats * Len(code) |-> code[((i - 1) % Len(code)) + 1]]

None == <<>>

(* A program whose main does no more than start and join two threads. *)
Two(a, b) ==
  [main |-> <<Start("a"), Start("b"), Join("a"), Join("b")>>,
   a |-> a, b |-> b, c |-> None, d |-> None, e |-> None]

One(main, a) ==
  [main |-> main, a |-> a, b |-> None, c |-> None, d |-> None, e |-> None]

-----------------------------------------------------------------------------
(* Chapters 1 and 2: threads, most of which use a local variable of their  *)
(* starter.                                                                *)

(* 1.1 *)
HelloParallelWorld == One(<<Start("a"), Join("a")>>, None)

func == Times(<<Read("local_val")>>)

(* 2.1 *)
oops == <<Begin("local_val"), Start("a"), End("local_val")>>

LocalVarDetach == One(oops \o <<Do("return", "main")>>, func)

(* Mutant of join: it ends without a join. *)
join_Missing == <<Begin("local_val"), Start("a"), End("local_val"), Join("a")>>

(* 2.2, whose try block throws nothing *)
join == <<Begin("local_val"), Start("a"), Join("a"), End("local_val")>>

LocalVarJoin == One(join, func)

(* 2.3: ~thread_guard joins, before local_val goes out of scope. *)
raii == <<Begin("local_val"), Start("a")>> \o <<Join("a")>> \o <<End("local_val")>>

RAII == One(raii, func)

(* 2.6: ~scoped_thread joins. *)
foo_scoped == <<Begin("local_val"), Start("a")>> \o <<Join("a")>> \o <<End("local_val")>>

ScopedThread == One(foo_scoped, func)

(* 2.5: the thread object is moved out of one function and into another.   *)
MovingThread == One(<<Start("a")>> \o <<Join("a")>>, None)

(* 2.7: four of the twenty threads, joined in the order of the vector *)
Containers ==
  One(<<Start("a"), Start("b"), Start("c"), Start("d"),
        Join("a"), Join("b"), Join("c"), Join("d")>>, None)

-----------------------------------------------------------------------------
(* Chapter 3.  data is what the mutex or the flag of a listing protects,   *)
(* and other what the second mutex does.                                   *)

(* 3.1 *)
list_add == <<Lock("m"), Write("data"), Unlock("m")>>
list_contains == <<Lock("m"), Read("data"), Unlock("m")>>
job == Times(list_add)

ListProtected ==
  [Two(job, job \o list_contains) EXCEPT !.main = @ \o <<Read("data")>>]

(* 3.2: main keeps a pointer to the data and uses it without the mutex.    *)
(* As main is the only thread, nothing races with that use here.           *)
ReturnProtectedData == One(<<Lock("m"), Unlock("m"), Read("data")>>, None)

Swap == <<Write("data"), Write("other")>>

(* Mutant of swap_X: one mutex after the other, lhs.m first. *)
swap_X_InTurn(m, n) == <<Lock(m), Lock(n)>> \o Swap \o <<Unlock(m), Unlock(n)>>

(* 3.6: the guards adopt the mutexes, and unlock them. *)
swap_X(m, n) == <<StdLock>> \o Swap \o <<Unlock(n), Unlock(m)>>

StdLockProgram == Two(swap_X("m", "n"), swap_X("n", "m"))

(* 3.9: std::lock is given the mutexes, not the unique_locks, which        *)
(* therefore own nothing and unlock nothing.                               *)
swap_deferred == <<StdLock>> \o Swap

UniqueLockProgram == Two(swap_deferred, swap_deferred)

(* 3.9.1: the lock that return_lock returns is on a local mutex of it, and *)
(* acquire_lock unlocks it.                                                *)
return_lock == <<Begin("local_m"), Lock("m"), End("local_m")>>
acquire_lock == <<Read("local_m"), Unlock("m")>>

MovingMutex == One(return_lock \o acquire_lock, None)

(* 3.10 *)
get_detail(m, l) == <<Lock(m), Read(l), Unlock(m)>>

GranularComparison ==
  Two(get_detail("m", "data") \o get_detail("n", "other"),
      get_detail("n", "other") \o get_detail("m", "data"))

(* 3.10.1 *)
data_process ==
  <<Lock("m"), Read("data"), Unlock("m"), Lock("m"), Write("data"), Unlock("m")>>

Granularity == Two(data_process, data_process)

(* std::call_once at place i, followed by what the function does; whoever  *)
(* comes later goes on behind it.                                          *)
CallOnce(i) ==
  <<DoOr("once", "flag", i + 3), Do("init", "data"), Do("once_done", "flag")>>

(* 3.11: send_data, and receive_data, at place i *)
send_data(i) == CallOnce(i) \o <<Read("data")>>
receive_data(i) == CallOnce(i) \o <<Read("data")>>

OpenConnection == Two(send_data(1) \o send_data(5), receive_data(1))

(* 3.11.1 at place i *)
foo_resource(i) == CallOnce(i) \o <<Read("data")>>

InitObject == Two(foo_resource(1) \o foo_resource(5), foo_resource(1))

(* 3.13 *)
bar == <<Lock("m"), Write("data"), Unlock("m")>>
foo_recursive == <<Lock("m"), Write("data")>> \o bar \o <<Unlock("m")>>

RecursiveMutex == Two(foo_recursive, foo_recursive \o bar)

-----------------------------------------------------------------------------
(* Chapter 4 *)

Push(v) == Do("push", v)

(* 4.1.1: three items, each pushed and notified under the mutex. *)
push_and_notify(v) == <<Lock("m"), Push(v), Do("notify", "data_cond"), Unlock("m")>>

data_processing_thread(last) ==
  <<Lock("m"), Do("wait", "m"), Do("pop", "data_queue"), Unlock("m"),
    DoOr("unless_last", last, 1)>>

ConditionVariable ==
  One(<<Start("a")>> \o push_and_notify(1) \o push_and_notify(2) \o push_and_notify(3)
        \o <<Join("a")>>,
      data_processing_thread(3))

(* 4.4 and 4.5: the numbers 3, 2, 1 go through a threadsafe_queue; 4.5     *)
(* asks in the end whether the queue is empty.                             *)
push_numbers == push_and_notify(3) \o push_and_notify(2) \o push_and_notify(1)

DataProcessing == One(<<Start("a")>> \o push_numbers \o <<Join("a")>>, data_processing_thread(1))

empty == <<Lock("m"), Read("queue"), Unlock("m")>>

DataProcessingEmpty == [DataProcessing EXCEPT !.main = @ \o empty]

(* 4.6: the threads of ex1 to ex4 are a to d.  In ex4 the promise is kept  *)
(* by main and d gets it through a reference.                              *)
ex1 == <<Do("async", "a"), Get("a")>>
ex2 == <<Start("b"), Get("b"), Join("b")>>
ex3 == <<Start("c"), Get("c"), Join("c")>>
ex4 == <<Begin("future"), Start("d"), SetValue("main"), Join("d"), End("future")>>
set_future == <<Read("future"), Get("main")>>

Future ==
  [main |-> ex1 \o ex2 \o ex3 \o ex4,
   a |-> <<SetValue("a")>>, b |-> <<SetValue("b")>>, c |-> <<SetValue("c")>>,
   d |-> set_future, e |-> None]

(* 4.7.1: f2 is deferred, and starts when main waits for it. *)
AsyncPolicies ==
  [main |-> <<Start("a"), Do("async", "c"), Do("async", "d"),
              Get("a"), Get("c"), Get("d"), Get("b")>>,
   a |-> <<SetValue("a")>>, b |-> <<SetValue("b")>>,
   c |-> <<SetValue("c")>>, d |-> <<SetValue("d")>>, e |-> None]

(* 4.7: the jobs get locals of main by reference, x with f1 and f5, str    *)
(* with f2 and y with f4; f3 has a copy.                                   *)
job_of(t, l) == <<Read(l), SetValue(t)>>

AsyncArguments ==
  [main |-> <<Begin("x"), Do("async", "a"), Get("a"), Begin("str"), Do("async", "b"), Get("b"),
              Begin("y"), Do("async", "c"), Do("async", "d"), Get("c"), Get("d"),
              Do("async", "e"), Get("e"), End("y"), End("str"), End("x")>>,
   a |-> job_of("a", "x"), b |-> job_of("b", "str"), c |-> <<SetValue("c")>>,
   d |-> job_of("d", "y"), e |-> job_of("e", "x")]

(* 4.8: the first two tasks run in main; their futures are b's and c's.    *)
task_lambda == <<SetValue("b"), Get("b")>>
task_bind == <<SetValue("c"), Get("c")>>
task_thread == <<Start("a"), Join("a"), Get("a")>>

PackagedTask == One(task_lambda \o task_bind \o task_thread, <<SetValue("a")>>)

(* 4.9: gui_thread polls, and runs the task with m locked. *)
gui_thread ==
  <<Lock("m"), DoOr("unless_empty", "tasks", 5), Unlock("m"), Do("goto", 1),
    Do("pop", "tasks"), SetValue("a"), Unlock("m")>>

post_task_for_gui_thread == <<Lock("m"), Push(1), Unlock("m")>>

PackagedTaskGUI ==
  One(<<Start("a")>> \o post_task_for_gui_thread \o <<Get("a"), Join("a")>>, gui_thread)

(* 4.10: each thread keeps a promise of main, with a value or with an      *)
(* exception.  The promises are locals of main.                            *)
job_promise(t) == <<Read("promise"), SetValue(t)>>
get_and_join(t) == <<Start(t), Get(t), Join(t)>>

FutureExceptions ==
  [main |-> <<Begin("promise")>> \o get_and_join("a") \o get_and_join("b")
              \o get_and_join("c") \o <<End("promise")>>,
   a |-> job_promise("a"), b |-> job_promise("b"), c |-> job_promise("c"), d |-> None, e |-> None]

(* 4.11: nobody sets done, and the wait ends by its timeout. *)
wait_loop ==
  <<Lock("m"), Do("wait_until", "m"), Lock("m"), Read("done"), Unlock("m")>>

WaitTimeout == One(wait_loop, None)

Code ==
  [hello_parallel_world |-> HelloParallelWorld, return_protected_data |-> ReturnProtectedData,
   async_arguments |-> AsyncArguments, wait_timeout |-> WaitTimeout,
   local_var_detach |-> LocalVarDetach, local_var_join |-> LocalVarJoin, raii |-> RAII,
   scoped_thread |-> ScopedThread, moving_thread |-> MovingThread,
   containers |-> Containers, moving_mutex |-> MovingMutex, list_protected |-> ListProtected,
   std_lock |-> StdLockProgram, std_lock_and_unique_lock |-> UniqueLockProgram,
   granular_comparison |-> GranularComparison, granularity |-> Granularity,
   open_connection |-> OpenConnection, init_object |-> InitObject,
   recursive_mutex |-> RecursiveMutex, condition_variable |-> ConditionVariable,
   data_processing |-> DataProcessing, data_processing_empty |-> DataProcessingEmpty,
   future |-> Future, async_policies |-> AsyncPolicies, packaged_task |-> PackagedTask,
   packaged_task_GUI |-> PackagedTaskGUI, future_exceptions |-> FutureExceptions]

-----------------------------------------------------------------------------
(* Their execution. *)

Init ==
  /\ program \in DOMAIN Code
  /\ pc = [t \in Thread |-> 1]
  /\ started = {"main"}
  /\ scope = {}
  /\ owner = [m \in Mutex |-> NoThread] /\ depth = [m \in Mutex |-> 0]
  /\ asleep = {} /\ spurious = 0
  /\ queue = <<>> /\ taken = <<>>
  /\ ready = {}
  /\ once = "new" /\ inits = 0

Ended(t) == pc[t] > Len(Code[program][t])

(* The next instruction of t. *)
At(t) == Code[program][t][pc[t]]

IsAt(t, ops) == ~Ended(t) /\ At(t).op \in ops

GoTo(t, place) == pc' = [pc EXCEPT ![t] = place]
GoOn(t) == GoTo(t, pc[t] + 1)

(* std::thread, and std::async, which may leave the job to get. *)
DoStart(t) ==
  /\ IsAt(t, {"start", "async"})
  /\ started' = started \cup {At(t).at}
  /\ GoOn(t)
  /\ UNCHANGED <<program, scope, locks, cond, items, ready, flag>>

DoDefer(t) ==
  /\ IsAt(t, {"async"})
  /\ GoOn(t)
  /\ UNCHANGED <<program, started, scope, locks, cond, items, ready, flag>>

DoJoin(t) ==
  /\ IsAt(t, {"join"})
  /\ Ended(At(t).at)
  /\ GoOn(t)
  /\ UNCHANGED <<program, started, scope, locks, cond, items, ready, flag>>

DoScope(t) ==
  /\ IsAt(t, {"begin", "end"})
  /\ scope' = IF At(t).op = "begin" THEN scope \cup {At(t).at} ELSE scope \ {At(t).at}
  /\ GoOn(t)
  /\ UNCHANGED <<program, started, locks, cond, items, ready, flag>>

(* Reads and writes, whose values do not matter, and main's return. *)
DoAccess(t) ==
  /\ IsAt(t, {"read", "write", "return"})
  /\ GoOn(t)
  /\ UNCHANGED <<program, started, scope, locks, cond, items, ready, flag>>

MayLock(t, m) == owner[m] \in {NoThread} \cup IF m \in Recursive(program) THEN {t} ELSE {}

DoLock(t) ==
  /\ IsAt(t, {"lock"})
  /\ MayLock(t, At(t).at)
  /\ owner' = [owner EXCEPT ![At(t).at] = t]
  /\ depth' = [depth EXCEPT ![At(t).at] = @ + 1]
  /\ GoOn(t)
  /\ UNCHANGED <<program, started, scope, cond, items, ready, flag>>

DoUnlock(t) ==
  LET m == At(t).at
  IN /\ IsAt(t, {"unlock"})
     /\ owner' = [owner EXCEPT ![m] = IF depth[m] = 1 THEN NoThread ELSE @]
     /\ depth' = [depth EXCEPT ![m] = @ - 1]
     /\ GoOn(t)
     /\ UNCHANGED <<program, started, scope, cond, items, ready, flag>>

(* std::lock keeps none of its mutexes while it waits for another. *)
DoStdLock(t) ==
  /\ IsAt(t, {"std_lock"})
  /\ \A m \in Mutex : MayLock(t, m)
  /\ owner' = [m \in Mutex |-> t]
  /\ depth' = [m \in Mutex |-> depth[m] + 1]
  /\ GoOn(t)
  /\ UNCHANGED <<program, started, scope, cond, items, ready, flag>>

(* wait(lk, pred): with pred true it returns, and otherwise it releases    *)
(* the mutex and sleeps.  wait_until, in a loop, goes to sleep at once.    *)
DoWait(t) ==
  LET m == At(t).at
  IN /\ IsAt(t, {"wait", "wait_until"})
     /\ owner[m] = t
     /\ IF At(t).op = "wait" /\ queue # <<>>
          THEN GoOn(t) /\ UNCHANGED <<owner, depth, asleep>>
          ELSE /\ owner' = [owner EXCEPT ![m] = NoThread]
               /\ depth' = [depth EXCEPT ![m] = 0]
               /\ asleep' = asleep \cup {t}
               /\ UNCHANGED pc
     /\ UNCHANGED <<program, started, scope, spurious, items, ready, flag>>

(* A thread that has been woken locks the mutex again, inside wait. *)
Relock(t) ==
  /\ IsAt(t, {"wait", "wait_until"})
  /\ t \notin asleep /\ owner[At(t).at] = NoThread
  /\ owner' = [owner EXCEPT ![At(t).at] = t]
  /\ depth' = [depth EXCEPT ![At(t).at] = 1]
  /\ UNCHANGED <<program, pc, started, scope, cond, items, ready, flag>>

(* The time of wait_until is over; the next instruction locks the mutex.   *)
TimeOut(t) ==
  /\ IsAt(t, {"wait_until"}) /\ t \in asleep
  /\ asleep' = asleep \ {t}
  /\ GoOn(t)
  /\ UNCHANGED <<program, started, scope, locks, spurious, items, ready, flag>>

WakeSpuriously(t) ==
  /\ t \in asleep /\ spurious < MaxSpurious
  /\ asleep' = asleep \ {t}
  /\ spurious' = spurious + 1
  /\ UNCHANGED <<program, pc, started, scope, locks, items, ready, flag>>

DoNotify(t) ==
  /\ IsAt(t, {"notify"})
  /\ \/ asleep = {} /\ UNCHANGED asleep
     \/ \E u \in asleep : asleep' = asleep \ {u}
  /\ GoOn(t)
  /\ UNCHANGED <<program, started, scope, locks, spurious, items, ready, flag>>

DoPush(t) ==
  /\ IsAt(t, {"push"})
  /\ queue' = Append(queue, At(t).at)
  /\ GoOn(t)
  /\ UNCHANGED <<program, started, scope, locks, cond, taken, ready, flag>>

DoPop(t) ==
  /\ IsAt(t, {"pop"})
  /\ queue' = Tail(queue)
  /\ taken' = Append(taken, Head(queue))
  /\ GoOn(t)
  /\ UNCHANGED <<program, started, scope, locks, cond, ready, flag>>

(* What decides where the thread goes on. *)
Leaves(t) ==
  CASE At(t).op = "unless_empty" -> queue # <<>>
    [] At(t).op = "unless_last" -> taken[Len(taken)] # At(t).at

DoBranch(t) ==
  /\ IsAt(t, {"unless_empty", "unless_last"})
  /\ GoTo(t, IF Leaves(t) THEN At(t).place ELSE pc[t] + 1)
  /\ UNCHANGED <<program, started, scope, locks, cond, items, ready, flag>>

DoGoTo(t) ==
  /\ IsAt(t, {"goto"})
  /\ GoTo(t, At(t).at)
  /\ UNCHANGED <<program, started, scope, locks, cond, items, ready, flag>>

(* set_value, set_exception, or the return of a task *)
DoSetValue(t) ==
  /\ IsAt(t, {"set_value"})
  /\ ready' = ready \cup {At(t).at}
  /\ GoOn(t)
  /\ UNCHANGED <<program, started, scope, locks, cond, items, flag>>

(* get waits until the promise is kept; a deferred job is run first. *)
DoGet(t) ==
  /\ IsAt(t, {"get"})
  /\ \/ /\ At(t).at \in ready
        /\ GoOn(t)
        /\ UNCHANGED started
     \/ /\ At(t).at \notin started \cup ready
        /\ started' = started \cup {At(t).at}
        /\ UNCHANGED pc
  /\ UNCHANGED <<program, scope, locks, cond, items, ready, flag>>

(* call_once: the first caller runs the function, and others wait for its  *)
(* end.                                                                    *)
DoOnce(t) ==
  /\ IsAt(t, {"once"})
  /\ once # "running"
  /\ once' = IF once = "new" THEN "running" ELSE once
  /\ GoTo(t, IF once = "new" THEN pc[t] + 1 ELSE At(t).place)
  /\ UNCHANGED <<program, started, scope, locks, cond, items, ready, inits>>

DoInit(t) ==
  /\ IsAt(t, {"init", "once_done"})
  /\ IF At(t).op = "init"
       THEN inits' = inits + 1 /\ UNCHANGED once
       ELSE once' = "done" /\ UNCHANGED inits
  /\ GoOn(t)
  /\ UNCHANGED <<program, started, scope, locks, cond, items, ready>>

Step(t) ==
  /\ t \in started
  /\ \/ DoStart(t) \/ DoDefer(t) \/ DoJoin(t) \/ DoScope(t) \/ DoAccess(t)
     \/ DoLock(t) \/ DoUnlock(t) \/ DoStdLock(t)
     \/ DoNotify(t) \/ DoPush(t) \/ DoPop(t) \/ DoBranch(t) \/ DoGoTo(t)
     \/ DoSetValue(t) \/ DoGet(t) \/ DoOnce(t) \/ DoInit(t)
     \/ DoWait(t) \/ Relock(t) \/ TimeOut(t)

Next == ~Ended("main") /\ \E t \in Thread : Step(t) \/ WakeSpuriously(t)

Spec == Init /\ [][Next]_vars

(* The operating system runs every thread that can run.  WakeSpuriously is *)
(* not among its steps.                                                    *)
FairSpec == Spec /\ \A t \in Thread : WF_vars(~Ended("main") /\ Step(t))

-----------------------------------------------------------------------------

Locals == {"local_val", "local_m", "future", "promise", "x", "str", "y"}

(* Every variable has a value of its type; a sleeping thread holds no      *)
(* mutex, and a mutex is held as often as depth says.                      *)
TypeOK ==
  /\ program \in DOMAIN Code
  /\ pc \in [Thread -> Nat]
  /\ \A t \in Thread : pc[t] \in 1 .. Len(Code[program][t]) + 1
  /\ started \subseteq Thread /\ scope \subseteq Locals
  /\ owner \in [Mutex -> Thread \cup {NoThread}]
  /\ depth \in [Mutex -> 0 .. 2]
  /\ \A m \in Mutex : owner[m] = NoThread <=> depth[m] = 0
  /\ asleep \subseteq Thread /\ spurious \in 0 .. MaxSpurious
  /\ \A m \in Mutex : owner[m] \notin asleep
  /\ queue \in Seq(1 .. 3) /\ taken \in Seq(1 .. 3)
  /\ ready \subseteq Thread
  /\ once \in {"new", "running", "done"} /\ inits \in Nat

Running(t) == t \in started /\ ~Ended(t) /\ t \notin asleep /\ ~Ended("main")

(* No thread uses a local variable of main's functions before or after its *)
(* life, on its own stack or through a reference: whoever ends a scope has *)
(* joined the threads that refer to it.  Two listings break this rule: the *)
(* detached thread of 2.1 reads local_val when oops has returned, and      *)
(* 3.9.1 unlocks a mutex that has gone.                                    *)
NoUseAfterScope ==
  program \notin {"local_var_detach", "moving_mutex"} =>
    \A t \in Thread :
      Running(t) /\ IsAt(t, {"read", "write"}) /\ At(t).at \in Locals
        => At(t).at \in scope

Looks == {"read", "unless_empty"}
Changes == {"write", "init", "push", "pop"}

(* The object that the next step of t reads or writes. *)
Object(t) == IF At(t).op \in {"push", "pop", "unless_empty"} THEN "queue" ELSE At(t).at

(* No two threads are at the same object at once, one of them changing it: *)
(* the mutexes, joins, futures and the once_flag order all accesses.  The  *)
(* unprotected use of 3.2 is not put to the test, as no other thread of    *)
(* its program could be at the data.                                       *)
NoDataRace ==
  \A t, u \in Thread :
    t # u /\ Running(t) /\ Running(u) /\ IsAt(t, Changes) /\ IsAt(u, Changes \cup Looks)
      => Object(t) # Object(u)

(* The function of a once_flag runs once, which is what call_once itself   *)
(* promises and DoOnce takes over from it; and nobody uses its result      *)
(* before it is complete, as every use in 3.11 and 3.11.1 stands behind a  *)
(* call_once of its own.                                                   *)
InitialisedOnce ==
  /\ inits <= 1
  /\ program \in {"open_connection", "init_object"} =>
       \A t \in Thread : Running(t) /\ IsAt(t, {"read"}) => once = "done"

Numbers(listing) ==
  CASE listing = "condition_variable" -> <<1, 2, 3>>
    [] listing \in {"data_processing", "data_processing_empty"} -> <<3, 2, 1>>

(* The consumer of 4.1.1, 4.4 and 4.5 gets every number in the order in    *)
(* which main pushes them, and when main returns none is left.             *)
NumbersProcessed ==
  program \in {"condition_variable", "data_processing", "data_processing_empty"} =>
    /\ taken \o queue = SubSeq(Numbers(program), 1, Len(taken \o queue))
    /\ Ended("main") => taken = Numbers(program)

(* main returns: a program never stops with all threads waiting for each   *)
(* other, two mutexes taken in opposite orders, a lock taken twice and a   *)
(* missed notification included.  In 3.9, where a swap that has returned   *)
(* still owns both mutexes, main may wait for ever; in 4.9 gui_thread      *)
(* locks the mutex again as soon as it has released it, and only a fair    *)
(* mutex lets the task in.                                                 *)
MainReturns ==
  program # "packaged_task_GUI" ~>
    \/ Ended("main")
    \/ /\ program = "std_lock_and_unique_lock"
       /\ \A m \in Mutex : owner[m] # NoThread /\ Ended(owner[m])

=============================================================================
