---------------------------- MODULE LockFreeStack ----------------------------
(***************************************************************************)
(* The lock_free_stack of listing 7.3: a linked list whose atomic head is  *)
(* moved with compare_exchange_weak, by any number of threads.  pop never  *)
(* deletes a node, so an address is never used twice.                      *)
(*                                                                         *)
(* head starts as a null pointer, as it does in an object with static      *)
(* storage; the class has no constructor and leaves the head of a local    *)
(* object uninitialised.                                                   *)
(***************************************************************************)
EXTENDS Integers, Sequences, Functions

CONSTANTS
  Thread,    \* the threads, each of which pushes and pops
  Node,      \* addresses of nodes, one for each push of the whole run
  MaxPush,   \* bound on the pushes of one thread
  MaxPop,    \* bound on the pops of one thread
  Null,      \* the null pointer
  Nothing    \* the null shared_ptr

ASSUME ConstantsAssumption ==
  /\ MaxPush \in Nat /\ MaxPop \in Nat
  /\ Null \notin Node

Item == Thread \X (1 .. MaxPush)
Answer == Item \cup {Nothing}
Pointer == Node \cup {Null}

VARIABLES
  head,        \* the atomic pointer
  data, next,  \* the members of each node
  allocated,   \* nodes that have been allocated
  pc,
  node,        \* new_node of a push, old_head of a pop
  nxt,         \* old_head->next as a pop has read it
  sent,        \* items pushed by each thread
  pops,        \* pops begun by each thread
  result,      \* what the last pop of each thread returned
  order        \* auxiliary: the nodes of the list, the top one first

vars == <<head, data, next, allocated, pc, node, nxt, sent, pops, result, order>>

Init ==
  /\ head = Null
  /\ data = [n \in Node |-> Nothing]
  /\ next = [n \in Node |-> Null]
  /\ allocated = {}
  /\ pc = [t \in Thread |-> "idle"]
  /\ node = [t \in Thread |-> Null]
  /\ nxt = [t \in Thread |-> Null]
  /\ sent = [t \in Thread |-> 0]
  /\ pops = [t \in Thread |-> 0]
  /\ result = [t \in Thread |-> Nothing]
  /\ order = <<>>

Goto(t, from, to) ==
  /\ pc[t] = from
  /\ pc' = [pc EXCEPT ![t] = to]

-----------------------------------------------------------------------------
(* push *)

(* new node(data) *)
Allocate(t) ==
  /\ sent[t] < MaxPush
  /\ Goto(t, "idle", "linking")
  /\ \E n \in Node \ allocated :
       /\ allocated' = allocated \cup {n}
       /\ data' = [data EXCEPT ![n] = <<t, sent[t] + 1>>]
       /\ next' = [next EXCEPT ![n] = Null]
       /\ node' = [node EXCEPT ![t] = n]
  /\ UNCHANGED <<head, nxt, sent, pops, result, order>>

(* new_node->next = head.load() *)
Link(t) ==
  /\ Goto(t, "linking", "publishing")
  /\ next' = [next EXCEPT ![node[t]] = head]
  /\ UNCHANGED <<head, data, allocated, node, nxt, sent, pops, result, order>>

(* Mutant of Publish: the new head is stored without a comparison. *)
PublishByStore(t) ==
  /\ Goto(t, "publishing", "idle")
  /\ head' = node[t]
  /\ sent' = [sent EXCEPT ![t] = @ + 1]
  /\ order' = <<node[t]>> \o order
  /\ UNCHANGED <<data, next, allocated, node, nxt, pops, result>>

(* compare_exchange_weak succeeds. *)
Publish(t) ==
  /\ Goto(t, "publishing", "idle")
  /\ head = next[node[t]]
  /\ head' = node[t]
  /\ sent' = [sent EXCEPT ![t] = @ + 1]
  /\ order' = <<node[t]>> \o order
  /\ UNCHANGED <<data, next, allocated, node, nxt, pops, result>>

(* Mutant of PublishFails: next is not loaded again. *)
PublishFailsStale(t) ==
  /\ pc[t] = "publishing"
  /\ UNCHANGED vars

(* It fails, spuriously perhaps, and loads next again. *)
PublishFails(t) ==
  /\ pc[t] = "publishing"
  /\ next' = [next EXCEPT ![node[t]] = head]
  /\ UNCHANGED <<head, data, allocated, pc, node, nxt, sent, pops, result, order>>

-----------------------------------------------------------------------------
(* pop *)

(* Mutant of Examine: old_head is not compared with null. *)
ExamineAlways(t) ==
  /\ pc' = [pc EXCEPT ![t] = "reading"]
  /\ node' = [node EXCEPT ![t] = head]
  /\ UNCHANGED result

(* With a null old_head the loop ends and pop returns a null pointer. *)
Examine(t) ==
  IF head = Null
    THEN /\ pc' = [pc EXCEPT ![t] = "idle"]
         /\ result' = [result EXCEPT ![t] = Nothing]
         /\ UNCHANGED node
    ELSE /\ pc' = [pc EXCEPT ![t] = "reading"]
         /\ node' = [node EXCEPT ![t] = head]
         /\ UNCHANGED result

(* old_head = head.load() *)
LoadHead(t) ==
  /\ pops[t] < MaxPop
  /\ pc[t] = "idle"
  /\ pops' = [pops EXCEPT ![t] = @ + 1]
  /\ Examine(t)
  /\ UNCHANGED <<head, data, next, allocated, nxt, sent, order>>

(* old_head->next, evaluated before the call of compare_exchange_weak. *)
ReadNext(t) ==
  /\ Goto(t, "reading", "popping")
  /\ nxt' = [nxt EXCEPT ![t] = next[node[t]]]
  /\ UNCHANGED <<head, data, next, allocated, node, sent, pops, result, order>>

(* Mutant of PopTop: the new head is stored without a comparison. *)
PopByStore(t) ==
  /\ Goto(t, "popping", "returning")
  /\ head' = nxt[t]
  /\ order' = IF order = <<>> THEN <<>> ELSE Tail(order)
  /\ UNCHANGED <<data, next, allocated, node, nxt, sent, pops, result>>

(* compare_exchange_weak succeeds. *)
PopTop(t) ==
  /\ Goto(t, "popping", "returning")
  /\ head = node[t]
  /\ head' = nxt[t]
  /\ order' = Tail(order)
  /\ UNCHANGED <<data, next, allocated, node, nxt, sent, pops, result>>

(* It fails, spuriously perhaps, and loads old_head again. *)
PopFails(t) ==
  /\ pc[t] = "popping"
  /\ Examine(t)
  /\ UNCHANGED <<head, data, next, allocated, nxt, sent, pops, order>>

(* return old_head->data *)
Return(t) ==
  /\ Goto(t, "returning", "idle")
  /\ result' = [result EXCEPT ![t] = data[node[t]]]
  /\ UNCHANGED <<head, data, next, allocated, node, nxt, sent, pops, order>>

-----------------------------------------------------------------------------

push(t) == Link(t) \/ Publish(t) \/ PublishFails(t)

pop(t) == ReadNext(t) \/ PopTop(t) \/ PopFails(t) \/ Return(t)

Next == \E t \in Thread : Allocate(t) \/ push(t) \/ LoadHead(t) \/ pop(t)

Spec == Init /\ [][Next]_vars

(* A thread inside a call goes on, and a compare_exchange_weak that could  *)
(* succeed again and again does not fail spuriously for ever.              *)
Fairness ==
  \A t \in Thread :
    /\ WF_vars(push(t)) /\ SF_vars(Publish(t))
    /\ WF_vars(pop(t)) /\ SF_vars(PopTop(t))

FairSpec == Spec /\ Fairness

-----------------------------------------------------------------------------

(* Every variable has a value of its type, and no call in progress uses a  *)
(* null pointer.                                                           *)
TypeOK ==
  /\ head \in Pointer
  /\ data \in [Node -> Answer]
  /\ next \in [Node -> Pointer]
  /\ allocated \subseteq Node
  /\ pc \in [Thread -> {"idle", "linking", "publishing", "reading", "popping", "returning"}]
  /\ node \in [Thread -> Pointer]
  /\ \A t \in Thread : pc[t] # "idle" => node[t] \in Node
  /\ nxt \in [Thread -> Pointer]
  /\ sent \in [Thread -> 0 .. MaxPush]
  /\ pops \in [Thread -> 0 .. MaxPop]
  /\ result \in [Thread -> Answer]
  /\ order \in Seq(Node)

(* The list hangs together: from head the next pointers lead through the   *)
(* nodes in the order in which their pushes succeeded, down to null, and   *)
(* no node is in it twice.                                                 *)
ListIntact ==
  /\ head = IF order = <<>> THEN Null ELSE order[1]
  /\ \A i \in 1 .. Len(order) :
       next[order[i]] = IF i = Len(order) THEN Null ELSE order[i + 1]
  /\ \A i, j \in 1 .. Len(order) : order[i] = order[j] => i = j

(* The items in the list, and what the last pop of each thread has         *)
(* returned or is about to return.                                         *)
Content == [i \in 1 .. Len(order) |-> data[order[i]]]

Returned == [t \in Thread |-> IF pc[t] = "returning" THEN data[node[t]] ELSE result[t]]

(* Whatever pushes and pops interleave, each takes effect when its         *)
(* compare_exchange_weak succeeds: pops return the items in LIFO order,    *)
(* each once, and nothing only when the stack is empty.                    *)
Abstract == INSTANCE AbstractStack WITH stack <- Content, result <- Returned

IsAStack == Abstract!Spec

(* Every call returns, however often its compare_exchange_weak is          *)
(* overtaken by others.                                                             *)
CallsReturn == \A t \in Thread : pc[t] # "idle" ~> pc[t] = "idle"

=============================================================================
