-------------------------- MODULE FineGrainedQueue --------------------------
(***************************************************************************)
(* The class queue of listings 6.7 to 6.10: a singly linked list with a    *)
(* dummy node at its end, one mutex for each end and a condition variable  *)
(* for consumers that wait.  Producers hold only tail_mutex, consumers     *)
(* hold head_mutex and take tail_mutex for a moment in get_tail.           *)
(*                                                                         *)
(* Producers call push, waiters wait_and_pop(), pollers try_pop().         *)
(***************************************************************************)
EXTENDS Integers, Sequences, Functions

CONSTANTS
  Producer, Waiter, Poller,  \* the threads, by the operation they call
  Node,         \* addresses a node can have; freed ones are used again
  Null,         \* the null pointer
  MaxCalls,     \* bound on the calls of one thread
  MaxSpurious,  \* bound on the spurious wake-ups of the whole run
  NoThread,     \* holder of a free mutex
  Nothing       \* data of the dummy node, result of an empty try_pop

Taker == Waiter \cup Poller
Thread == Producer \cup Taker

ASSUME ConstantsAssumption ==
  /\ Producer \cap Taker = {} /\ Waiter \cap Poller = {}
  /\ Null \notin Node
  /\ MaxCalls \in Nat /\ MaxSpurious \in Nat
  /\ NoThread \notin Thread

Item == Producer \X (1 .. MaxCalls)

VARIABLES
  alive,       \* nodes allocated and not yet deleted
  data, next,  \* the members of each node
  head, tail,
  head_mutex, tail_mutex,  \* holder of each mutex
  pc,
  mine,        \* the node a thread owns: p in push, old_head in a pop
  calls, sent, result, spurious,
  order        \* auxiliary: the nodes of the list, from head to tail

heap == <<alive, data, next>>
counters == <<calls, sent, result, spurious>>
vars == <<heap, head, tail, head_mutex, tail_mutex, pc, mine, counters, order>>

Init ==
  /\ head \in Node /\ tail = head /\ alive = {head}
  /\ data = [n \in Node |-> Nothing]
  /\ next = [n \in Node |-> Null]
  /\ head_mutex = NoThread /\ tail_mutex = NoThread
  /\ pc = [t \in Thread |-> "idle"]
  /\ mine = [t \in Thread |-> Null]
  /\ calls = [t \in Thread |-> 0]
  /\ sent = [p \in Producer |-> 0]
  /\ result = [t \in Taker |-> Nothing]
  /\ spurious = 0
  /\ order = <<head>>

Goto(t, from, to) ==
  /\ pc[t] = from
  /\ pc' = [pc EXCEPT ![t] = to]

Call(t) ==
  /\ calls[t] < MaxCalls
  /\ calls' = [calls EXCEPT ![t] = @ + 1]

Sleeping == {c \in Waiter : pc[c] = "sleeping"}

-----------------------------------------------------------------------------
(* push *)

(* The new dummy node, allocated before the lock. *)
Allocate(p) ==
  /\ Call(p)
  /\ Goto(p, "idle", "entering")
  /\ \E n \in Node \ alive :
       /\ alive' = alive \cup {n}
       /\ data' = [data EXCEPT ![n] = Nothing]
       /\ next' = [next EXCEPT ![n] = Null]
       /\ mine' = [mine EXCEPT ![p] = n]
  /\ UNCHANGED <<head, tail, head_mutex, tail_mutex, sent, result, spurious, order>>

LockTail(p) ==
  /\ tail_mutex = NoThread
  /\ Goto(p, "entering", "data")
  /\ tail_mutex' = p
  /\ UNCHANGED <<heap, head, tail, head_mutex, mine, counters, order>>

(* tail->data = new_data *)
SetData(p) ==
  /\ Goto(p, "data", "next")
  /\ data' = [data EXCEPT ![tail] = <<p, sent[p] + 1>>]
  /\ UNCHANGED <<alive, next, head, tail, head_mutex, tail_mutex, mine, counters, order>>

(* tail->next = move(p): the list owns the new node from here on, new_tail *)
(* is a plain pointer to it.                                               *)
SetNext(p) ==
  /\ Goto(p, "next", "tail")
  /\ next' = [next EXCEPT ![tail] = mine[p]]
  /\ UNCHANGED <<alive, data, head, tail, head_mutex, tail_mutex, mine, counters, order>>

(* tail = new_tail, and the end of the block, where tail_lock unlocks. *)
SetTail(p) ==
  /\ Goto(p, "tail", "notify")
  /\ tail' = mine[p]
  /\ sent' = [sent EXCEPT ![p] = @ + 1]
  /\ mine' = [mine EXCEPT ![p] = Null]
  /\ order' = Append(order, mine[p])
  /\ tail_mutex' = NoThread
  /\ UNCHANGED <<heap, head, head_mutex, calls, result, spurious>>

(* data_cond.notify_one(), with no mutex held. *)
Notify(p) ==
  /\ pc[p] = "notify"
  /\ IF Sleeping = {}
       THEN pc' = [pc EXCEPT ![p] = "idle"]
       ELSE \E c \in Sleeping : pc' = [pc EXCEPT ![p] = "idle", ![c] = "woken"]
  /\ UNCHANGED <<heap, head, tail, head_mutex, tail_mutex, mine, counters, order>>

-----------------------------------------------------------------------------
(* pops *)

CallPop(t) ==
  /\ Call(t)
  /\ Goto(t, "idle", "entering")
  /\ UNCHANGED <<heap, head, tail, head_mutex, tail_mutex, mine, sent, result, spurious, order>>

(* head_lock; a woken wait takes it again. *)
LockHead(t) ==
  /\ head_mutex = NoThread
  /\ Goto(t, "entering", "comparing") \/ Goto(t, "woken", "comparing")
  /\ head_mutex' = t
  /\ UNCHANGED <<heap, head, tail, tail_mutex, mine, counters, order>>

(* Mutant of FindData: the comparison is dropped. *)
FindDataAlways(t) ==
  /\ tail_mutex = NoThread
  /\ Goto(t, "comparing", "popping")
  /\ UNCHANGED <<heap, head, tail, head_mutex, tail_mutex, mine, counters, order>>

(* head.get() != get_tail(), where get_tail locks and unlocks tail_mutex.  *)
FindData(t) ==
  /\ tail_mutex = NoThread
  /\ head # tail
  /\ Goto(t, "comparing", "popping")
  /\ UNCHANGED <<heap, head, tail, head_mutex, tail_mutex, mine, counters, order>>

(* The predicate of wait is false.  Its caller is about to sleep, and      *)
(* tail_mutex is free again.                                               *)
FindNoData(c) ==
  /\ tail_mutex = NoThread
  /\ head = tail
  /\ Goto(c, "comparing", "blocking")
  /\ UNCHANGED <<heap, head, tail, head_mutex, tail_mutex, mine, counters, order>>

(* wait unlocks head_mutex and sleeps, in one step. *)
Sleep(c) ==
  /\ Goto(c, "blocking", "sleeping")
  /\ head_mutex' = NoThread
  /\ UNCHANGED <<heap, head, tail, tail_mutex, mine, counters, order>>

SpuriousWakeup(c) ==
  /\ spurious < MaxSpurious
  /\ Goto(c, "sleeping", "woken")
  /\ spurious' = spurious + 1
  /\ UNCHANGED <<heap, head, tail, head_mutex, tail_mutex, mine, calls, sent, result, order>>

(* Mutant of ReturnNothing: the early return forgets to unlock. *)
ReturnNothingLocked(t) ==
  /\ tail_mutex = NoThread
  /\ head = tail
  /\ Goto(t, "comparing", "idle")
  /\ result' = [result EXCEPT ![t] = Nothing]
  /\ UNCHANGED <<heap, head, tail, head_mutex, tail_mutex, mine, calls, sent, spurious, order>>

(* try_pop_head finds the queue empty and returns a null pointer. *)
ReturnNothing(t) ==
  /\ tail_mutex = NoThread
  /\ head = tail
  /\ Goto(t, "comparing", "idle")
  /\ result' = [result EXCEPT ![t] = Nothing]
  /\ head_mutex' = NoThread
  /\ UNCHANGED <<heap, head, tail, tail_mutex, mine, calls, sent, spurious, order>>

(* Mutant of pop_head: head_mutex is released with head not yet moved. *)
pop_head_Late(t) ==
  \/ /\ Goto(t, "popping", "unlinking")
     /\ mine' = [mine EXCEPT ![t] = head]
     /\ head_mutex' = NoThread
     /\ UNCHANGED <<heap, head, tail, tail_mutex, counters, order>>
  \/ /\ Goto(t, "unlinking", "returning")
     /\ head' = next[mine[t]]
     /\ order' = Tail(order)
     /\ UNCHANGED <<heap, tail, head_mutex, tail_mutex, mine, counters>>

(* pop_head: old_head = move(head), head = move(old_head->next), and the   *)
(* return from wait_pop_head or try_pop_head, which unlocks.               *)
pop_head(t) ==
  /\ Goto(t, "popping", "returning")
  /\ mine' = [mine EXCEPT ![t] = head]
  /\ head' = next[head]
  /\ order' = Tail(order)
  /\ head_mutex' = NoThread
  /\ UNCHANGED <<heap, tail, tail_mutex, counters>>

(* Mutant of Return: the node is not deleted. *)
ReturnLeak(t) ==
  /\ Goto(t, "returning", "idle")
  /\ result' = [result EXCEPT ![t] = data[mine[t]]]
  /\ mine' = [mine EXCEPT ![t] = Null]
  /\ UNCHANGED <<heap, head, tail, head_mutex, tail_mutex, calls, sent, spurious, order>>

(* return old_head->data; the unique_ptr old_head deletes the node, with   *)
(* no mutex held.                                                          *)
Return(t) ==
  /\ Goto(t, "returning", "idle")
  /\ result' = [result EXCEPT ![t] = data[mine[t]]]
  /\ alive' = alive \ {mine[t]}
  /\ mine' = [mine EXCEPT ![t] = Null]
  /\ UNCHANGED <<data, next, head, tail, head_mutex, tail_mutex, calls, sent, spurious, order>>

-----------------------------------------------------------------------------

push(p) == LockTail(p) \/ SetData(p) \/ SetNext(p) \/ SetTail(p) \/ Notify(p)

wait_and_pop(c) ==
  LockHead(c) \/ FindData(c) \/ FindNoData(c) \/ Sleep(c) \/ pop_head(c) \/ Return(c)

try_pop(t) ==
  LockHead(t) \/ FindData(t) \/ ReturnNothing(t) \/ pop_head(t) \/ Return(t)

Next ==
  \/ \E p \in Producer : Allocate(p) \/ push(p)
  \/ \E c \in Waiter : CallPop(c) \/ wait_and_pop(c) \/ SpuriousWakeup(c)
  \/ \E t \in Poller : CallPop(t) \/ try_pop(t)

Spec == Init /\ [][Next]_vars

(* A thread inside an operation goes on when it can.  The calls are        *)
(* bounded, so no mutex is fought for for ever.                            *)
Fairness ==
  /\ \A p \in Producer : WF_vars(push(p))
  /\ \A c \in Waiter : WF_vars(wait_and_pop(c))
  /\ \A t \in Poller : WF_vars(try_pop(t))

FairSpec == Spec /\ Fairness

-----------------------------------------------------------------------------

(* Every variable has a value of its type. *)
TypeOK ==
  /\ alive \subseteq Node
  /\ data \in [Node -> Item \cup {Nothing}]
  /\ next \in [Node -> Node \cup {Null}]
  /\ head \in Node /\ tail \in Node
  /\ head_mutex \in Taker \cup {NoThread}
  /\ tail_mutex \in Producer \cup {NoThread}
  /\ pc \in [Thread -> {"idle", "entering", "data", "next", "tail", "notify", "woken",
                        "comparing", "blocking", "sleeping", "popping", "returning"}]
  /\ mine \in [Thread -> Node \cup {Null}]
  /\ calls \in [Thread -> 0 .. MaxCalls]
  /\ sent \in [Producer -> 0 .. MaxCalls]
  /\ result \in [Taker -> Item \cup {Nothing}]
  /\ spurious \in 0 .. MaxSpurious
  /\ order \in Seq(Node)

(* From head the next pointers lead through the nodes in the order in      *)
(* which they were pushed to the dummy at tail, and to no node twice.      *)
ListIntact ==
  /\ order # <<>> /\ order[1] = head /\ order[Len(order)] = tail
  /\ \A i \in 1 .. Len(order) - 1 : next[order[i]] = order[i + 1]
  /\ \A i, j \in 1 .. Len(order) : order[i] = order[j] => i = j

(* The queue as its callers see it: the data of all but the dummy.         *)
Content == [i \in 1 .. Len(order) - 1 |-> data[order[i]]]

(* A thread owns the node of mine, except in push once tail->next owns it. *)
Owner(n) ==
  {t \in Thread : mine[t] = n /\ pc[t] # "tail"}

LinkedIn(n) == \E p \in Producer : pc[p] = "tail" /\ mine[p] = n

(* The list hangs together and every node has one owner: the nodes alive   *)
(* are those of the list, the one being linked behind the tail and those   *)
(* that a push or a pop owns, and none is in two of these places.  So      *)
(* nothing leaks, nothing is deleted twice, and no thread uses a node that *)
(* another one has deleted.                                                *)
OneOwnerEach ==
  /\ ListIntact
  /\ \A n \in Node :
       /\ n \in alive <=> n \in Range(order) \/ LinkedIn(n) \/ Owner(n) # {}
       /\ \A t, u \in Owner(n) : t = u
       /\ ~(n \in Range(order) /\ LinkedIn(n))
       /\ n \in Range(order) \/ LinkedIn(n) => Owner(n) = {}

(* Items are delivered once and in order although push and pop hold        *)
(* different mutexes, and try_pop answers "nothing" only when the queue is *)
(* empty.  A push counts from SetTail, a pop from pop_head on.             *)
Abstract == INSTANCE AbstractQueue WITH
  MaxPush <- MaxCalls,
  queue <- Content,
  result <- [t \in Taker |-> IF pc[t] = "returning" THEN data[mine[t]] ELSE result[t]]

IsAQueue == Abstract!Spec

(* No call hangs, but that a wait_and_pop may sleep: mutexes are always    *)
(* taken head first, and get_tail holds its own only for a moment.         *)
CallsReturn ==
  \A t \in Thread : pc[t] # "idle" ~> pc[t] \in {"idle", "sleeping"}

(* The predicate of data_cond.wait: a waiter does not sleep for ever while *)
(* head and tail differ.                                                   *)
WaiterServed ==
  \A c \in Waiter :
    (pc[c] = "sleeping" /\ head # tail) ~> (pc[c] # "sleeping" \/ head = tail)

=============================================================================
