--------------------------- MODULE ThreadsafeQueue ---------------------------
(***************************************************************************)
(* The class threadsafe_queue: a std::queue under one mutex with a         *)
(* condition variable.  Listings 4.4, 4.5 and 6.2 copy the item inside the *)
(* pop, with the mutex held; listing 6.3 (exceptionrobust) allocates in    *)
(* push before it takes the mutex, so nothing between the wake-up of a     *)
(* consumer and its pop can throw: its runs are those with thrown = 0.     *)
(*                                                                         *)
(* Producers call push, consumers wait_and_pop, pollers try_pop.           *)
(***************************************************************************)
EXTENDS Integers, Sequences, FiniteSets

CONSTANTS
  Producer, Consumer, Poller,  \* the threads, by the operation they call
  MaxCalls,       \* bound on the calls of one thread
  MaxSpurious,    \* bound on the spurious wake-ups of the whole run
  MaxThrown,      \* bound on the exceptions thrown in pops; 0 for 6.3
  NoThread,       \* holder of a free mutex
  Nothing         \* result of a try_pop that found the queue empty

Thread == Producer \cup Consumer \cup Poller
Taker == Consumer \cup Poller

ASSUME ConstantsAssumption ==
  /\ IsFiniteSet(Thread)
  /\ Producer \cap Taker = {} /\ Consumer \cap Poller = {}
  /\ MaxCalls \in Nat /\ MaxSpurious \in Nat /\ MaxThrown \in Nat
  /\ NoThread \notin Thread

Item == Producer \X (1 .. MaxCalls)

VARIABLES
  mut,       \* holder of mut
  queue,     \* data_queue
  pc,        \* where each thread is
  front,     \* the item a pop has read and not yet removed
  calls,     \* calls begun by each thread
  sent,      \* items pushed by each producer
  result,    \* what the last pop of each thread returned
  spurious,  \* spurious wake-ups so far
  thrown     \* pops that ended in an exception so far

vars == <<mut, queue, pc, front, calls, sent, result, spurious, thrown>>

Init ==
  /\ mut = NoThread
  /\ queue = <<>>
  /\ pc = [t \in Thread |-> "idle"]
  /\ front = [t \in Taker |-> Nothing]
  /\ calls = [t \in Thread |-> 0]
  /\ sent = [p \in Producer |-> 0]
  /\ result = [t \in Taker |-> Nothing]
  /\ spurious = 0
  /\ thrown = 0

Goto(t, from, to) ==
  /\ pc[t] = from
  /\ pc' = [pc EXCEPT ![t] = to]

Sleeping == {t \in Consumer : pc[t] = "sleeping"}

-----------------------------------------------------------------------------

(* A client calls an operation.  The make_shared of push in listing 6.3    *)
(* comes before the mutex and has no effect when it throws.                *)
Call(t) ==
  /\ calls[t] < MaxCalls
  /\ Goto(t, "idle", "entering")
  /\ calls' = [calls EXCEPT ![t] = @ + 1]
  /\ UNCHANGED <<mut, queue, front, sent, result, spurious, thrown>>

(* Mutant of Lock: the lock_guard is missing, and nothing waits for mut. *)
LockNot(t) ==
  /\ Goto(t, "entering", "locked") \/ Goto(t, "woken", "locked")
  /\ mut' = t
  /\ UNCHANGED <<queue, front, calls, sent, result, spurious, thrown>>

(* lock_guard or unique_lock, and the lock a woken wait takes again. *)
Lock(t) ==
  /\ mut = NoThread
  /\ Goto(t, "entering", "locked") \/ Goto(t, "woken", "locked")
  /\ mut' = t
  /\ UNCHANGED <<queue, front, calls, sent, result, spurious, thrown>>

(* data_queue.push *)
PushBack(p) ==
  /\ Goto(p, "locked", "pushed")
  /\ sent' = [sent EXCEPT ![p] = @ + 1]
  /\ queue' = Append(queue, <<p, sent[p] + 1>>)
  /\ UNCHANGED <<mut, front, calls, result, spurious, thrown>>

(* data_queue.push throws: the lock_guard unlocks and nobody is notified. *)
PushThrows(p) ==
  /\ Goto(p, "locked", "idle")
  /\ mut' = NoThread
  /\ UNCHANGED <<queue, front, calls, sent, result, spurious, thrown>>

(* Mutant of Notify: only the push into an empty queue notifies. *)
NotifyIfWasEmpty(p) ==
  /\ pc[p] = "pushed"
  /\ IF Sleeping = {} \/ Len(queue) > 1
       THEN pc' = [pc EXCEPT ![p] = "idle"]
       ELSE \E c \in Sleeping : pc' = [pc EXCEPT ![p] = "idle", ![c] = "woken"]
  /\ mut' = NoThread
  /\ UNCHANGED <<queue, front, calls, sent, result, spurious, thrown>>

(* data_cond.notify_one, which wakes some sleeping consumer if there is    *)
(* one, and the end of push, where the lock_guard unlocks.                 *)
Notify(p) ==
  /\ pc[p] = "pushed"
  /\ IF Sleeping = {}
       THEN pc' = [pc EXCEPT ![p] = "idle"]
       ELSE \E c \in Sleeping : pc' = [pc EXCEPT ![p] = "idle", ![c] = "woken"]
  /\ mut' = NoThread
  /\ UNCHANGED <<queue, front, calls, sent, result, spurious, thrown>>

(* data_cond.wait finds its predicate false: it unlocks and sleeps in one  *)
(* step.                                                                   *)
Sleep(c) ==
  /\ queue = <<>>
  /\ Goto(c, "locked", "sleeping")
  /\ mut' = NoThread
  /\ UNCHANGED <<queue, front, calls, sent, result, spurious, thrown>>

SpuriousWakeup(c) ==
  /\ spurious < MaxSpurious
  /\ Goto(c, "sleeping", "woken")
  /\ spurious' = spurious + 1
  /\ UNCHANGED <<mut, queue, front, calls, sent, result, thrown>>

(* data_queue.front() is copied, or its shared_ptr is. *)
Read(t) ==
  /\ queue # <<>>
  /\ Goto(t, "locked", "read")
  /\ front' = [front EXCEPT ![t] = Head(queue)]
  /\ UNCHANGED <<mut, queue, calls, sent, result, spurious, thrown>>

(* Mutant of ReadThrows: the item is removed before it is copied. *)
PopBeforeThrow(t) ==
  /\ thrown < MaxThrown
  /\ queue # <<>>
  /\ Goto(t, "locked", "idle")
  /\ queue' = Tail(queue)
  /\ thrown' = thrown + 1
  /\ mut' = NoThread
  /\ UNCHANGED <<front, calls, sent, result, spurious>>

(* make_shared, or the copy of the item, throws: the item stays and the    *)
(* lock's destructor unlocks.                                              *)
ReadThrows(t) ==
  /\ thrown < MaxThrown
  /\ queue # <<>>
  /\ Goto(t, "locked", "idle")
  /\ thrown' = thrown + 1
  /\ mut' = NoThread
  /\ UNCHANGED <<queue, front, calls, sent, result, spurious>>

(* data_queue.pop() and the return. *)
PopFront(t) ==
  /\ Goto(t, "read", "idle")
  /\ queue' = Tail(queue)
  /\ result' = [result EXCEPT ![t] = front[t]]
  /\ front' = [front EXCEPT ![t] = Nothing]
  /\ mut' = NoThread
  /\ UNCHANGED <<calls, sent, spurious, thrown>>

(* try_pop finds the queue empty. *)
ReturnNothing(t) ==
  /\ queue = <<>>
  /\ Goto(t, "locked", "idle")
  /\ result' = [result EXCEPT ![t] = Nothing]
  /\ mut' = NoThread
  /\ UNCHANGED <<queue, front, calls, sent, spurious, thrown>>

-----------------------------------------------------------------------------

push(p) == Lock(p) \/ PushBack(p) \/ PushThrows(p) \/ Notify(p)

wait_and_pop(c) ==
  Lock(c) \/ Sleep(c) \/ Read(c) \/ ReadThrows(c) \/ PopFront(c)

try_pop(t) ==
  Lock(t) \/ Read(t) \/ ReadThrows(t) \/ PopFront(t) \/ ReturnNothing(t)

Next ==
  \/ \E t \in Thread : Call(t)
  \/ \E p \in Producer : push(p)
  \/ \E c \in Consumer : wait_and_pop(c) \/ SpuriousWakeup(c)
  \/ \E t \in Poller : try_pop(t)

Spec == Init /\ [][Next]_vars

(* A thread inside an operation goes on when it can; nobody has to call an *)
(* operation, and nothing has to throw or to wake spuriously.              *)
Fairness ==
  /\ \A p \in Producer : WF_vars(push(p))
  /\ \A c \in Consumer : WF_vars(wait_and_pop(c))
  /\ \A t \in Poller : WF_vars(try_pop(t))

FairSpec == Spec /\ Fairness

-----------------------------------------------------------------------------

Holding(t) == pc[t] \in {"locked", "read", "pushed"}

MutexHeld == \A t \in Thread : Holding(t) <=> mut = t

(* Every variable has a value of its type, and a thread is inside its      *)
(* critical section exactly while it holds mut.                            *)
TypeOK ==
  /\ mut \in Thread \cup {NoThread}
  /\ queue \in Seq(Item)
  /\ pc \in [Thread -> {"idle", "entering", "locked", "pushed", "sleeping", "woken", "read"}]
  /\ front \in [Taker -> Item \cup {Nothing}]
  /\ calls \in [Thread -> 0 .. MaxCalls]
  /\ sent \in [Producer -> 0 .. MaxCalls]
  /\ result \in [Taker -> Item \cup {Nothing}]
  /\ spurious \in 0 .. MaxSpurious
  /\ thrown \in 0 .. MaxThrown
  /\ MutexHeld

(* The threads that still owe somebody an answer: a consumer that was      *)
(* woken or is past its wait, and a producer about to notify.              *)
OnTheWay ==
  {c \in Consumer : pc[c] \in {"woken", "locked", "read"}}
    \cup {p \in Producer : pc[p] = "pushed"}

(* No lost wake-up: while a consumer sleeps, every item in the queue has a *)
(* thread of its own on the way to it, up to one item for each exception   *)
(* thrown inside a pop, whose wake-up nobody passes on.  In listing 6.3    *)
(* nothing is thrown there, so no consumer sleeps beside a free item.      *)
WakeupPerItem ==
  Sleeping # {} => Len(queue) <= Cardinality(OnTheWay) + thrown

(* A consumer never sleeps forever beside an item: it wakes or the queue   *)
(* becomes empty, unless a pop throws.  (listing 6.3, where none can)      *)
SleeperServed ==
  \A c \in Consumer :
    (pc[c] = "sleeping" /\ queue # <<>>) ~>
      (pc[c] # "sleeping" \/ queue = <<>> \/ thrown > 0)

(* Whatever throws, every item is delivered once and in order, and try_pop *)
(* answers "nothing" only when the queue is empty.                         *)
Abstract == INSTANCE AbstractQueue WITH MaxPush <- MaxCalls

IsAQueue == Abstract!Spec

=============================================================================
