------------------------ MODULE LockFreeStackReclaim ------------------------
(***************************************************************************)
(* The lock_free_stack of listing 7.4, whose pops delete nodes.  A pop     *)
(* that finds itself alone in pop deletes its node and those that earlier  *)
(* pops have left in to_be_deleted; any other pop leaves its node there.   *)
(*                                                                         *)
(* push and the compare_exchange_weak loop of pop are those of listing 7.3 *)
(* and are taken from LockFreeStack; here deleted nodes are allocated      *)
(* again, so an address may return.                                        *)
(*                                                                         *)
(* The constructor sets only head: Starts holds the values that            *)
(* threads_in_pop and to_be_deleted may have before the first call.        *)
(***************************************************************************)
EXTENDS Integers, Sequences, Functions

CONSTANTS
  Thread,    \* the threads, each of which pushes and pops
  Node,      \* addresses of nodes
  MaxPush,   \* bound on the pushes of one thread
  MaxPop,    \* bound on the pops of one thread
  Null,      \* the null pointer
  Wild,      \* an uninitialised pointer
  Nothing,   \* the null shared_ptr
  Wrap,      \* unsigned counters are modulo Wrap
  Starts     \* initial values of <<threads_in_pop, to_be_deleted>>

ConstantsAssumption ==
  /\ MaxPush \in Nat /\ MaxPop \in Nat /\ Wrap \in Nat \ {0}
  /\ Null \notin Node /\ Wild \notin Node \cup {Null}
  /\ Starts \subseteq (0 .. Wrap - 1) \X {Null, Wild}

VARIABLES
  head, data, next, allocated, pc, node, nxt, sent, pops, result, order,
                   \* as in LockFreeStack
  to_be_deleted,   \* popped nodes that some pop may still look at
  threads_in_pop,
  first, last,     \* the chain of nodes a pop deletes or hands over
  broken,          \* a pointer to no node has been dereferenced
  pending,         \* auxiliary: the nodes to_be_deleted leads to
  chain            \* auxiliary: the nodes first leads to

stack == <<head, data, next, allocated, pc, node, nxt, sent, pops, result, order>>
reclaim == <<to_be_deleted, threads_in_pop, first, last, broken, pending, chain>>
vars == <<stack, reclaim>>

(* What the actions of a pop that has its node leave alone. *)
rest == <<head, data, node, nxt, sent, pops, result, order, broken>>

Listing == INSTANCE LockFreeStack

Init ==
  /\ Listing!Init
  /\ \E s \in Starts : threads_in_pop = s[1] /\ to_be_deleted = s[2]
  /\ first = [t \in Thread |-> Null]
  /\ last = [t \in Thread |-> Null]
  /\ broken = FALSE
  /\ pending = <<>>
  /\ chain = [t \in Thread |-> <<>>]

Goto(t, from, to) ==
  /\ pc[t] = from
  /\ pc' = [pc EXCEPT ![t] = to]

-----------------------------------------------------------------------------
(* push and pop *)

push(t) == (Listing!Allocate(t) \/ Listing!push(t)) /\ UNCHANGED reclaim

(* ++threads_in_pop *)
Enter(t) ==
  /\ pops[t] < MaxPop
  /\ Goto(t, "idle", "loading")
  /\ pops' = [pops EXCEPT ![t] = @ + 1]
  /\ threads_in_pop' = (threads_in_pop + 1) % Wrap
  /\ UNCHANGED <<head, data, next, allocated, node, nxt, sent, result, order>>
  /\ UNCHANGED <<to_be_deleted, first, last, broken, pending, chain>>

(* Mutant of Examine: old_head is not compared with null. *)
ExamineAlways(t) ==
  /\ node' = [node EXCEPT ![t] = head]
  /\ pc' = [pc EXCEPT ![t] = "reading"]
  /\ UNCHANGED result

(* The loop ends at once with a null old_head, and res stays null. *)
Examine(t) ==
  /\ node' = [node EXCEPT ![t] = head]
  /\ IF head = Null
       THEN /\ pc' = [pc EXCEPT ![t] = "checking"]
            /\ result' = [result EXCEPT ![t] = Nothing]
       ELSE /\ pc' = [pc EXCEPT ![t] = "reading"]
            /\ UNCHANGED result

(* old_head is loaded before the loop, and by a compare_exchange_weak that *)
(* fails.                                                                  *)
LoadHead(t) ==
  /\ pc[t] \in {"loading", "popping"}
  /\ Examine(t)
  /\ UNCHANGED <<head, data, next, allocated, nxt, sent, pops, order>>
  /\ UNCHANGED reclaim

(* old_head->next, and compare_exchange_weak succeeds *)
Take(t) == (Listing!ReadNext(t) \/ Listing!PopTop(t)) /\ UNCHANGED reclaim

(* res.swap(old_head->data) *)
SwapData(t) ==
  /\ Goto(t, "returning", "checking")
  /\ result' = [result EXCEPT ![t] = data[node[t]]]
  /\ data' = [data EXCEPT ![node[t]] = Nothing]
  /\ UNCHANGED <<head, next, allocated, node, nxt, sent, pops, order>>
  /\ UNCHANGED reclaim

-----------------------------------------------------------------------------
(* try_reclaim *)

(* Mutant of CheckCount: every pop believes that it is alone. *)
CheckCountNot(t) ==
  /\ Goto(t, "checking", "claiming")
  /\ first' = [first EXCEPT ![t] = node[t]]
  /\ last' = [last EXCEPT ![t] = node[t]]
  /\ chain' = [chain EXCEPT ![t] = IF node[t] = Null THEN <<>> ELSE <<node[t]>>]
  /\ UNCHANGED <<rest, next, allocated, to_be_deleted, threads_in_pop, pending>>

(* threads_in_pop == 1; otherwise old_head is a chain of its own. *)
CheckCount(t) ==
  /\ Goto(t, "checking", IF threads_in_pop = 1 THEN "claiming" ELSE "chaining")
  /\ first' = [first EXCEPT ![t] = node[t]]
  /\ last' = [last EXCEPT ![t] = node[t]]
  /\ chain' = [chain EXCEPT ![t] = IF node[t] = Null THEN <<>> ELSE <<node[t]>>]
  /\ UNCHANGED <<rest, next, allocated, to_be_deleted, threads_in_pop, pending>>

(* nodes_to_delete = to_be_deleted.exchange(nullptr) *)
Claim(t) ==
  /\ Goto(t, "claiming", "deciding")
  /\ first' = [first EXCEPT ![t] = to_be_deleted]
  /\ last' = [last EXCEPT ![t] = to_be_deleted]
  /\ chain' = [chain EXCEPT ![t] = pending]
  /\ to_be_deleted' = Null /\ pending' = <<>>
  /\ UNCHANGED <<rest, next, allocated, threads_in_pop>>

(* if (!--threads_in_pop) ... else if (nodes_to_delete) ... *)
Decide(t) ==
  LET left == (threads_in_pop + Wrap - 1) % Wrap
  IN /\ Goto(t, "deciding", IF left = 0 THEN "deleting"
                            ELSE IF first[t] # Null THEN "walking" ELSE "disposing")
     /\ threads_in_pop' = left
     /\ UNCHANGED <<rest, next, allocated, to_be_deleted, first, last, pending, chain>>

(* delete_nodes deletes one node after the other. *)
DeleteNode(t) ==
  /\ pc[t] = "deleting"
  /\ IF first[t] = Null
       THEN /\ pc' = [pc EXCEPT ![t] = "disposing"]
            /\ UNCHANGED <<allocated, first, chain>>
       ELSE /\ allocated' = allocated \ {first[t]}
            /\ first' = [first EXCEPT ![t] = next[first[t]]]
            /\ chain' = [chain EXCEPT ![t] = Tail(@)]
            /\ UNCHANGED pc
  /\ UNCHANGED <<rest, next, to_be_deleted, threads_in_pop, last, pending>>

(* chain_pending_nodes(nodes) looks for the last of its nodes. *)
Walk(t) ==
  /\ pc[t] = "walking"
  /\ IF next[last[t]] = Null
       THEN /\ pc' = [pc EXCEPT ![t] = "chaining"]
            /\ UNCHANGED last
       ELSE /\ last' = [last EXCEPT ![t] = next[@]]
            /\ UNCHANGED pc
  /\ UNCHANGED <<rest, next, allocated, to_be_deleted, threads_in_pop, first, pending, chain>>

(* last->next = to_be_deleted, before the loop and by a                    *)
(* compare_exchange_weak that fails.                                       *)
Chain(t) ==
  /\ pc[t] \in {"chaining", "attaching"}
  /\ pc' = [pc EXCEPT ![t] = "attaching"]
  /\ next' = [next EXCEPT ![last[t]] = to_be_deleted]
  /\ UNCHANGED <<rest, allocated, to_be_deleted, threads_in_pop, first, last, pending, chain>>

(* Mutant of Attach: to_be_deleted is stored without a comparison. *)
AttachByStore(t) ==
  /\ Goto(t, "attaching", IF first[t] = node[t] THEN "leaving" ELSE "disposing")
  /\ to_be_deleted' = first[t]
  /\ pending' = chain[t] \o pending /\ chain' = [chain EXCEPT ![t] = <<>>]
  /\ UNCHANGED <<rest, next, allocated, threads_in_pop, first, last>>

(* compare_exchange_weak succeeds; a pop whose chain is old_head itself is *)
(* in the else branch of try_reclaim.                                      *)
Attach(t) ==
  /\ Goto(t, "attaching", IF first[t] = node[t] THEN "leaving" ELSE "disposing")
  /\ to_be_deleted = next[last[t]]
  /\ to_be_deleted' = first[t]
  /\ pending' = chain[t] \o pending /\ chain' = [chain EXCEPT ![t] = <<>>]
  /\ UNCHANGED <<rest, next, allocated, threads_in_pop, first, last>>

(* --threads_in_pop, and pop returns *)
Leave(t) ==
  /\ Goto(t, "leaving", "idle")
  /\ threads_in_pop' = (threads_in_pop + Wrap - 1) % Wrap
  /\ UNCHANGED <<rest, next, allocated, to_be_deleted, first, last, pending, chain>>

(* delete old_head, which may be null, and pop returns *)
Dispose(t) ==
  /\ Goto(t, "disposing", "idle")
  /\ allocated' = allocated \ {node[t]}
  /\ UNCHANGED <<rest, next, to_be_deleted, threads_in_pop, first, last, pending, chain>>

-----------------------------------------------------------------------------

pop(t) ==
  \/ Enter(t) \/ LoadHead(t) \/ Take(t) \/ SwapData(t)
  \/ CheckCount(t) \/ Claim(t) \/ Decide(t) \/ DeleteNode(t)
  \/ Walk(t) \/ Chain(t) \/ Attach(t) \/ Leave(t) \/ Dispose(t)

(* The pointers that the next step of a thread dereferences or deletes. *)
Used(t) ==
  CASE pc[t] \in {"linking", "publishing", "reading", "returning"} -> {node[t]}
    [] pc[t] = "deleting" -> {first[t]} \ {Null}
    [] pc[t] \in {"walking", "chaining", "attaching"} -> {last[t]}
    [] pc[t] = "disposing" -> {node[t]} \ {Null}
    [] OTHER -> {}

Misuses(t) == ~ Used(t) \subseteq allocated

(* What happens after such a use is undefined; the model stops there. *)
Break(t) ==
  /\ broken' = TRUE
  /\ UNCHANGED <<stack, to_be_deleted, threads_in_pop, first, last, pending, chain>>

Step(t) == IF Misuses(t) THEN Break(t) ELSE push(t) \/ pop(t)

Next == ~broken /\ \E t \in Thread : Step(t)

Spec == Init /\ [][Next]_vars

-----------------------------------------------------------------------------

Pointer == Node \cup {Null, Wild}

(* Every variable has a value of its type, and pop takes no null pointer   *)
(* for a node.                                                             *)
TypeOK ==
  /\ head \in Node \cup {Null}
  /\ data \in [Node -> Listing!Answer]
  /\ next \in [Node -> Pointer]
  /\ allocated \subseteq Node
  /\ pc \in [Thread -> {"idle", "linking", "publishing", "loading", "reading", "popping",
                        "returning", "checking", "claiming", "deciding", "deleting",
                        "walking", "chaining", "attaching", "leaving", "disposing"}]
  /\ node \in [Thread -> Node \cup {Null}]
  /\ \A t \in Thread : pc[t] \in {"reading", "popping", "returning"} => node[t] \in Node
  /\ nxt \in [Thread -> Pointer]
  /\ sent \in [Thread -> 0 .. MaxPush]
  /\ pops \in [Thread -> 0 .. MaxPop]
  /\ result \in [Thread -> Listing!Answer]
  /\ order \in Seq(Node)
  /\ to_be_deleted \in Pointer
  /\ threads_in_pop \in 0 .. Wrap - 1
  /\ first \in [Thread -> Pointer] /\ last \in [Thread -> Pointer]
  /\ broken \in BOOLEAN
  /\ pending \in Seq(Node) /\ chain \in [Thread -> Seq(Node)]

(* The one use of a pointer to no node is that of a null old_head by       *)
(* chain_pending_nodes, in a pop that has found the stack empty while      *)
(* others were in pop: nothing is used after its delete or deleted twice.  *)
OnlyNullMisused ==
  \A t \in Thread : Misuses(t) => pc[t] = "chaining" /\ last[t] = Null

(* What main.cpp:94 expects of a pop from an empty stack: that it comes    *)
(* through try_reclaim and returns a null pointer.                         *)
EmptyPopReturns == ~broken

(* The nodes that a thread alone may delete, insert or hand over. *)
Owned(t) ==
  IF pc[t] \in {"linking", "publishing", "returning", "checking", "claiming", "deciding",
                "deleting", "walking", "chaining", "attaching", "disposing"}
    THEN ({node[t]} \ {Null}) \cup Range(chain[t])
    ELSE {}

(* p leads through the nodes of o, each once, and then to q. *)
Leads(p, o, q) ==
  /\ p = IF o = <<>> THEN q ELSE o[1]
  /\ \A i \in 1 .. Len(o) : next[o[i]] = IF i = Len(o) THEN q ELSE o[i + 1]
  /\ \A i, j \in 1 .. Len(o) : o[i] = o[j] => i = j

(* No node is lost and none has two fates: each one alive is in the list,  *)
(* in the chain of to_be_deleted, or owned by one thread, and the pointers *)
(* lead to each node of the list and of those chains.                      *)
EveryNodeHasOnePlace ==
  LET listed == Range(order)
      waiting == Range(pending)
  IN /\ allocated = listed \cup waiting \cup UNION {Owned(t) : t \in Thread}
     /\ listed \cap waiting = {}
     /\ \A t \in Thread : Owned(t) \cap (listed \cup waiting) = {}
     /\ \A t, u \in Thread : t # u => Owned(t) \cap Owned(u) = {}
     /\ Leads(head, order, Null)
     /\ \E q \in {Null, Wild} : Leads(to_be_deleted, pending, q)
     /\ \A t \in Thread : pc[t] \in {"deciding", "deleting", "walking"} =>
          Leads(first[t], chain[t], Null)

(* Although addresses return and a node is chained while other pops read   *)
(* its next, every pop takes the top item, each item is returned once, and *)
(* nothing is returned only when the stack was empty.                      *)
IsAStack == Listing!IsAStack

=============================================================================
