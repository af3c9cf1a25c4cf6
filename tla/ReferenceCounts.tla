--------------------------- MODULE ReferenceCounts ---------------------------
(***************************************************************************)
(* The lock_free_stack of listing 7.10.  head points to a counted_node_ptr *)
(* with an external count, which points to a node with an internal count;  *)
(* each pop raises the external count of the head it looks at, and the two *)
(* counts are to tell who deletes the pair.  push is that of listing 7.3.  *)
(*                                                                         *)
(* The two objects of a push have one address here, and allocated and      *)
(* nodes say which of them is alive.  external_count is a plain int: it is *)
(* read and written in two steps.  new_counter is the same pointer as      *)
(* old_counter, so that the compare_exchange_strong of increase_head_count *)
(* changes nothing, and the assignment after its loop does not either.     *)
(***************************************************************************)
EXTENDS Integers, Sequences, Functions

CONSTANTS
  Thread,      \* the threads, each of which pushes and pops
  Node,        \* addresses
  MaxPush,     \* bound on the pushes of one thread
  MaxPop,      \* bound on the pops of one thread
  Overlapping, \* whether several threads may be in pop at a time
  Null,        \* the null pointer
  Nothing      \* the null shared_ptr

ConstantsAssumption ==
  /\ MaxPush \in Nat /\ MaxPop \in Nat
  /\ Null \notin Node
  /\ Overlapping \in BOOLEAN

VARIABLES
  head, data, next, allocated, pc, node, nxt, sent, pops, result, order,
             \* as in LockFreeStack; allocated are the counted_node_ptrs alive
  nodes,     \* the nodes alive
  external, internal,  \* the two counts of each pair
  counter,   \* old_counter of a pop in increase_head_count
  ptr,       \* ptr of a pop
  count      \* an external count, or count_increase, that a pop has computed

stack == <<head, data, next, allocated, pc, node, nxt, sent, pops, result, order>>
counts == <<nodes, external, internal, counter, ptr, count>>
vars == <<stack, counts>>

Listing == INSTANCE LockFreeStack

Init ==
  /\ Listing!Init
  /\ nodes = {}
  /\ external = [n \in Node |-> 0] /\ internal = [n \in Node |-> 0]
  /\ counter = [t \in Thread |-> Null] /\ ptr = [t \in Thread |-> Null]
  /\ count = [t \in Thread |-> 0]

Goto(t, from, to) ==
  /\ pc[t] = from
  /\ pc' = [pc EXCEPT ![t] = to]

-----------------------------------------------------------------------------

(* new counted_node_ptr, new node(data), external_count = 1 *)
Allocate(t) ==
  /\ Listing!Allocate(t)
  /\ node'[t] \notin nodes
  /\ nodes' = nodes \cup {node'[t]}
  /\ external' = [external EXCEPT ![node'[t]] = 1]
  /\ internal' = [internal EXCEPT ![node'[t]] = 0]
  /\ UNCHANGED <<counter, ptr, count>>

push(t) == Allocate(t) \/ (Listing!push(t) /\ UNCHANGED counts)

Popping(t) == pc[t] \notin {"idle", "linking", "publishing"}

(* old_head = head.load() *)
LoadHead(t) ==
  /\ pops[t] < MaxPop
  /\ Overlapping \/ \A u \in Thread : ~Popping(u)
  /\ Goto(t, "idle", "counting")
  /\ pops' = [pops EXCEPT ![t] = @ + 1]
  /\ node' = [node EXCEPT ![t] = head]
  /\ counter' = [counter EXCEPT ![t] = head]
  /\ UNCHANGED <<head, data, next, allocated, nxt, sent, result, order>>
  /\ UNCHANGED <<nodes, external, internal, ptr, count>>

(* ++new_counter->external_count *)
ReadCount(t) ==
  /\ Goto(t, "counting", "raising")
  /\ count' = [count EXCEPT ![t] = external[counter[t]]]
  /\ UNCHANGED <<head, data, next, allocated, node, nxt, sent, pops, result, order>>
  /\ UNCHANGED <<nodes, external, internal, counter, ptr>>

WriteCount(t) ==
  /\ Goto(t, "raising", "confirming")
  /\ external' = [external EXCEPT ![counter[t]] = count[t] + 1]
  /\ UNCHANGED <<head, data, next, allocated, node, nxt, sent, pops, result, order>>
  /\ UNCHANGED <<nodes, internal, counter, ptr, count>>

(* compare_exchange_strong(old_counter, new_counter), which on failure     *)
(* loads old_counter, but not the old_head of pop                          *)
Confirm(t) ==
  /\ Goto(t, "confirming", IF head = counter[t] THEN "resolving" ELSE "counting")
  /\ counter' = [counter EXCEPT ![t] = head]
  /\ UNCHANGED <<head, data, next, allocated, node, nxt, sent, pops, result, order>>
  /\ UNCHANGED <<nodes, external, internal, ptr, count>>

(* ptr = old_head->ptr, which is never null *)
Resolve(t) ==
  /\ Goto(t, "resolving", "reading")
  /\ ptr' = [ptr EXCEPT ![t] = node[t]]
  /\ UNCHANGED <<head, data, next, allocated, node, nxt, sent, pops, result, order>>
  /\ UNCHANGED <<nodes, external, internal, counter, count>>

(* ptr->next, and compare_exchange_strong succeeds *)
Take(t) == (Listing!ReadNext(t) \/ Listing!PopTop(t)) /\ UNCHANGED counts

(* It fails and loads old_head, while ptr stays. *)
TakeFails(t) ==
  /\ Goto(t, "popping", "dropping")
  /\ head # node[t]
  /\ node' = [node EXCEPT ![t] = head]
  /\ UNCHANGED <<head, data, next, allocated, nxt, sent, pops, result, order, counts>>

(* ptr->interanl_count.fetch_sub(1) == 1 deletes ptr and old_head, and the *)
(* loop begins again.                                                      *)
Drop(t) ==
  /\ Goto(t, "dropping", "counting")
  /\ internal' = [internal EXCEPT ![ptr[t]] = @ - 1]
  /\ IF internal[ptr[t]] = 1
       THEN nodes' = nodes \ {ptr[t]} /\ allocated' = allocated \ {node[t]}
       ELSE UNCHANGED <<nodes, allocated>>
  /\ counter' = [counter EXCEPT ![t] = node[t]]
  /\ UNCHANGED <<head, data, next, node, nxt, sent, pops, result, order, external, ptr, count>>

(* res.swap(ptr->data); count_increase = old_head->external_count - 2 *)
SwapData(t) ==
  /\ Goto(t, "returning", "settling")
  /\ result' = [result EXCEPT ![t] = data[node[t]]]
  /\ data' = [data EXCEPT ![node[t]] = Nothing]
  /\ count' = [count EXCEPT ![t] = external[node[t]] - 2]
  /\ UNCHANGED <<head, next, allocated, node, nxt, sent, pops, order>>
  /\ UNCHANGED <<nodes, external, internal, counter, ptr>>

(* fetch_add(count_increase) == -count_increase deletes both, and pop      *)
(* returns.                                                                *)
Settle(t) ==
  /\ Goto(t, "settling", "idle")
  /\ internal' = [internal EXCEPT ![ptr[t]] = @ + count[t]]
  /\ IF internal[ptr[t]] = -count[t]
       THEN nodes' = nodes \ {ptr[t]} /\ allocated' = allocated \ {node[t]}
       ELSE UNCHANGED <<nodes, allocated>>
  /\ UNCHANGED <<head, data, next, node, nxt, sent, pops, result, order>>
  /\ UNCHANGED <<external, counter, ptr, count>>

pop(t) ==
  \/ LoadHead(t) \/ ReadCount(t) \/ WriteCount(t) \/ Confirm(t) \/ Resolve(t)
  \/ Take(t) \/ TakeFails(t) \/ Drop(t) \/ SwapData(t) \/ Settle(t)

(* The objects that the next step of a thread reads, writes or deletes. *)
UsedCounters(t) ==
  CASE pc[t] \in {"linking", "publishing", "resolving", "returning"} -> {node[t]}
    [] pc[t] \in {"counting", "raising"} -> {counter[t]}
    [] pc[t] = "dropping" /\ internal[ptr[t]] = 1 -> {node[t]} \ {Null}
    [] pc[t] = "settling" /\ internal[ptr[t]] = -count[t] -> {node[t]}
    [] OTHER -> {}

UsedNodes(t) ==
  CASE pc[t] \in {"linking", "publishing"} -> {node[t]}
    [] pc[t] \in {"reading", "dropping", "returning", "settling"} -> {ptr[t]}
    [] OTHER -> {}

Misuses(t) == ~ (UsedCounters(t) \subseteq allocated /\ UsedNodes(t) \subseteq nodes)

(* A thread stops before it uses what is not there. *)
Next == \E t \in Thread : ~Misuses(t) /\ (push(t) \/ pop(t))

Spec == Init /\ [][Next]_vars

-----------------------------------------------------------------------------

Places ==
  {"idle", "linking", "publishing", "counting", "raising", "confirming", "resolving",
   "reading", "popping", "dropping", "returning", "settling"}

(* head, the nodes and the counts, and what a thread knows of them *)
PairsTypeOK ==
  /\ head \in Node \cup {Null}
  /\ data \in [Node -> Listing!Answer]
  /\ next \in [Node -> Node \cup {Null}]
  /\ allocated \subseteq Node /\ nodes \subseteq Node
  /\ pc \in [Thread -> Places]
  /\ node \in [Thread -> Node \cup {Null}] /\ counter \in [Thread -> Node \cup {Null}]
  /\ ptr \in [Thread -> Node \cup {Null}]
  /\ external \in [Node -> Nat] /\ internal \in [Node -> Int]
  /\ count \in [Thread -> Int]

(* the calls and what they return; order, which is auxiliary, stands for   *)
(* the list only where one thread pops at a time                           *)
CallsTypeOK ==
  /\ nxt \in [Thread -> Node \cup {Null}]
  /\ sent \in [Thread -> 0 .. MaxPush] /\ pops \in [Thread -> 0 .. MaxPop]
  /\ result \in [Thread -> Listing!Answer]
  /\ ~Overlapping => order \in Seq(Node)

(* Every variable has a value of its type, but for order where pops may    *)
(* overlap.                                                                *)
TypeOK == PairsTypeOK /\ CallsTypeOK

(* With one thread in pop at a time, the one misuse is that of the null    *)
(* head of an empty stack, whose count is raised: no push, however it      *)
(* interferes, makes a pop use or delete a pair that is gone.              *)
OnlyNullMisused == \A t \in Thread : Misuses(t) => pc[t] = "counting" /\ counter[t] = Null

(* head points to a pair that is alive: what a pop deletes when its        *)
(* internal_count falls to zero is its own, unlinked pair.                 *)
HeadAlive == head # Null => head \in allocated /\ head \in nodes

Returned == [t \in Thread |-> IF pc[t] = "returning" THEN data[node[t]] ELSE result[t]]

=============================================================================
