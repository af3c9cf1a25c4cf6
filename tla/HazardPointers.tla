---------------------------- MODULE HazardPointers ----------------------------
(***************************************************************************)
(* The lock_free_stack of listing 7.6, whose pops announce the node they   *)
(* look at in a slot of hazard_pointers.  push is that of listing 7.3.     *)
(*                                                                         *)
(* A thread gets its slot with its first pop and keeps it until it ends.   *)
(* The constructor of hp_owner throws inside its loop, so only the first   *)
(* slot is ever tried: one thread at a time can pop, and the pops of all   *)
(* others throw.  No popped node is then in any slot, and reclaim_later is *)
(* never called: a pop that would call it stops here, at "reclaiming",     *)
(* and PopsNeverOverlap says that none does.  nodes_to_reclaim therefore   *)
(* is empty whenever delete_nodes_with_no_hazards looks at it.             *)
(***************************************************************************)
EXTENDS Integers, Sequences, Functions

CONSTANTS
  Thread,    \* the threads, each of which pushes and pops
  Node,      \* addresses of nodes
  MaxPush,   \* bound on the pushes of one thread
  MaxPop,    \* bound on the pops of one thread
  Null,      \* the null pointer
  Nothing,   \* the null shared_ptr
  max_hazard_pointers,
  NoThread   \* id of a slot that is free

ConstantsAssumption ==
  /\ MaxPush \in Nat /\ MaxPop \in Nat
  /\ Null \notin Node
  /\ max_hazard_pointers \in Nat \ {0}
  /\ NoThread \notin Thread

Slot == 1 .. max_hazard_pointers
NoSlot == 0

VARIABLES
  head, data, next, allocated, pc, node, nxt, sent, pops, result, order,
            \* as in LockFreeStack; allocated are the nodes not yet deleted
  id,       \* the thread that owns each slot
  pointer,  \* the node that each slot announces
  hp,       \* the slot of each thread
  temp      \* old_head as it was announced

stack == <<head, data, next, allocated, pc, node, nxt, sent, pops, result, order>>
hazards == <<id, pointer, hp, temp>>
vars == <<stack, hazards>>

Listing == INSTANCE LockFreeStack

Init ==
  /\ Listing!Init
  /\ id = [i \in Slot |-> NoThread]
  /\ pointer = [i \in Slot |-> Null]
  /\ hp = [t \in Thread |-> NoSlot]
  /\ temp = [t \in Thread |-> Null]

Goto(t, from, to) ==
  /\ pc[t] = from
  /\ pc' = [pc EXCEPT ![t] = to]

push(t) == (Listing!Allocate(t) \/ Listing!push(t)) /\ UNCHANGED hazards

-----------------------------------------------------------------------------
(* hp_owner *)

(* get_hazard_pointer_for_current_thread: the first call of a thread       *)
(* constructs its hp_owner.                                                *)
BeginPop(t) ==
  /\ pops[t] < MaxPop
  /\ Goto(t, "idle", IF hp[t] = NoSlot THEN "owning" ELSE "loading")
  /\ pops' = [pops EXCEPT ![t] = @ + 1]
  /\ UNCHANGED <<head, data, next, allocated, node, nxt, sent, result, order, hazards>>

TakeSlot(t, i) ==
  /\ Goto(t, "owning", "loading")
  /\ id[i] = NoThread
  /\ id' = [id EXCEPT ![i] = t]
  /\ hp' = [hp EXCEPT ![t] = i]
  /\ UNCHANGED <<head, data, next, allocated, node, nxt, sent, pops, result, order>>
  /\ UNCHANGED <<pointer, temp>>

(* Mutant of Own: the throw stands behind the loop over the slots. *)
OwnAny(t) == \E i \in Slot : TakeSlot(t, i)

(* The compare_exchange_weak of the first slot succeeds. *)
Own(t) == TakeSlot(t, 1)

(* It fails, spuriously perhaps, and the constructor and pop throw. *)
Throw(t) ==
  /\ Goto(t, "owning", "idle")
  /\ UNCHANGED <<head, data, next, allocated, node, nxt, sent, pops, result, order, hazards>>

(* ~hp_owner, at the end of a thread *)
ClearOwned(t) ==
  /\ hp[t] # NoSlot
  /\ Goto(t, "idle", "releasing")
  /\ pointer' = [pointer EXCEPT ![hp[t]] = Null]
  /\ UNCHANGED <<head, data, next, allocated, node, nxt, sent, pops, result, order>>
  /\ UNCHANGED <<id, hp, temp>>

Release(t) ==
  /\ Goto(t, "releasing", "ended")
  /\ id' = [id EXCEPT ![hp[t]] = NoThread]
  /\ hp' = [hp EXCEPT ![t] = NoSlot]
  /\ UNCHANGED <<head, data, next, allocated, node, nxt, sent, pops, result, order>>
  /\ UNCHANGED <<pointer, temp>>

-----------------------------------------------------------------------------
(* pop *)

(* old_head = head.load(), before the loops *)
LoadHead(t) ==
  /\ Goto(t, "loading", "announcing")
  /\ node' = [node EXCEPT ![t] = head]
  /\ UNCHANGED <<head, data, next, allocated, nxt, sent, pops, result, order, hazards>>

(* temp = old_head; hp.store(old_head) *)
Announce(t) ==
  /\ Goto(t, "announcing", "rereading")
  /\ temp' = [temp EXCEPT ![t] = node[t]]
  /\ pointer' = [pointer EXCEPT ![hp[t]] = node[t]]
  /\ UNCHANGED <<head, data, next, allocated, node, nxt, sent, pops, result, order>>
  /\ UNCHANGED <<id, hp>>

(* old_head = head.load(): another head is announced in turn, and with a   *)
(* null old_head the outer loop ends.                                      *)
Reread(t) ==
  /\ Goto(t, "rereading", IF head # temp[t] THEN "announcing"
                          ELSE IF head = Null THEN "clearing" ELSE "reading")
  /\ node' = [node EXCEPT ![t] = head]
  /\ result' = IF head = temp[t] /\ head = Null THEN [result EXCEPT ![t] = Nothing] ELSE result
  /\ UNCHANGED <<head, data, next, allocated, nxt, sent, pops, order, hazards>>

(* old_head->next, and compare_exchange_strong succeeds *)
Take(t) == (Listing!ReadNext(t) \/ Listing!PopTop(t)) /\ UNCHANGED hazards

(* It fails and loads old_head again. *)
TakeFails(t) ==
  /\ Goto(t, "popping", "announcing")
  /\ head # node[t]
  /\ node' = [node EXCEPT ![t] = head]
  /\ UNCHANGED <<head, data, next, allocated, nxt, sent, pops, result, order, hazards>>

(* hp.store(nullptr); an empty pop returns. *)
ClearHazard(t) ==
  /\ pc[t] \in {"returning", "clearing"}
  /\ pc' = [pc EXCEPT ![t] = IF @ = "returning" THEN "swapping" ELSE "idle"]
  /\ pointer' = [pointer EXCEPT ![hp[t]] = Null]
  /\ UNCHANGED <<head, data, next, allocated, node, nxt, sent, pops, result, order>>
  /\ UNCHANGED <<id, hp, temp>>

(* res.swap(old_head->data) *)
SwapData(t) ==
  /\ Goto(t, "swapping", "deciding")
  /\ result' = [result EXCEPT ![t] = data[node[t]]]
  /\ data' = [data EXCEPT ![node[t]] = Nothing]
  /\ UNCHANGED <<head, next, allocated, node, nxt, sent, pops, order, hazards>>

outstanding_hazard_pointers_for(n) == \E i \in Slot : pointer[i] = n

(* A node that no slot announces is deleted, and pop returns. *)
Delete(t) ==
  /\ Goto(t, "deciding",
          IF outstanding_hazard_pointers_for(node[t]) THEN "reclaiming" ELSE "idle")
  /\ allocated' = IF outstanding_hazard_pointers_for(node[t]) THEN allocated
                                                              ELSE allocated \ {node[t]}
  /\ UNCHANGED <<head, data, next, node, nxt, sent, pops, result, order, hazards>>

pop(t) ==
  \/ BeginPop(t) \/ Own(t) \/ Throw(t) \/ LoadHead(t) \/ Announce(t) \/ Reread(t)
  \/ Take(t) \/ TakeFails(t) \/ ClearHazard(t) \/ SwapData(t) \/ Delete(t)

Next == \E t \in Thread : push(t) \/ pop(t) \/ ClearOwned(t) \/ Release(t)

Spec == Init /\ [][Next]_vars

-----------------------------------------------------------------------------

Places ==
  {"idle", "linking", "publishing", "owning", "loading", "announcing", "rereading",
   "reading", "popping", "returning", "clearing", "swapping", "deciding", "reclaiming",
   "releasing", "ended"}

(* Every variable has a value of its type, and hp and id agree. *)
TypeOK ==
  /\ head \in Node \cup {Null}
  /\ data \in [Node -> Listing!Answer]
  /\ next \in [Node -> Node \cup {Null}]
  /\ allocated \subseteq Node
  /\ pc \in [Thread -> Places]
  /\ node \in [Thread -> Node \cup {Null}] /\ nxt \in [Thread -> Node \cup {Null}]
  /\ temp \in [Thread -> Node \cup {Null}]
  /\ sent \in [Thread -> 0 .. MaxPush] /\ pops \in [Thread -> 0 .. MaxPop]
  /\ result \in [Thread -> Listing!Answer]
  /\ order \in Seq(Node)
  /\ id \in [Slot -> Thread \cup {NoThread}]
  /\ pointer \in [Slot -> Node \cup {Null}]
  /\ hp \in [Thread -> Slot \cup {NoSlot}]
  /\ \A t \in Thread, i \in Slot : hp[t] = i <=> id[i] = t

(* One thread at a time owns a slot and is inside the loops of pop, and    *)
(* none ever finds its node announced by another: the other threads' pops  *)
(* throw, for as long as the owner of the first slot lives.                *)
PopsNeverOverlap ==
  /\ \A t, u \in Thread : hp[t] # NoSlot /\ hp[u] # NoSlot => t = u
  /\ \A t \in Thread : pc[t] # "reclaiming"

(* The nodes that the next step of a thread reads, writes or deletes. *)
Used(t) ==
  IF pc[t] \in {"linking", "publishing", "reading", "swapping", "deciding"} THEN {node[t]}
                                                                           ELSE {}

(* No node is used after its delete, whatever is pushed meanwhile at the   *)
(* same address.                                                           *)
NoDanglingUse == \A t \in Thread : Used(t) \subseteq allocated

(* The nodes that a thread alone may insert or delete. *)
Owned(t) ==
  IF pc[t] \in {"linking", "publishing", "returning", "swapping", "deciding", "reclaiming"}
    THEN {node[t]} ELSE {}

(* No node is lost, and none has two fates. *)
EveryNodeHasOnePlace ==
  /\ allocated = Range(order) \cup UNION {Owned(t) : t \in Thread}
  /\ \A t \in Thread : Owned(t) \cap Range(order) = {}
  /\ \A t, u \in Thread : t # u => Owned(t) \cap Owned(u) = {}

Returned ==
  [t \in Thread |-> IF pc[t] \in {"returning", "swapping"} THEN data[node[t]] ELSE result[t]]

Abstract == INSTANCE AbstractStack WITH stack <- Listing!Content, result <- Returned

(* Pops that do not throw take the top item, each item is returned once,   *)
(* and nothing is returned only when the stack was empty.                  *)
IsAStack == Abstract!Spec

=============================================================================
