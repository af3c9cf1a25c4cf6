--------------------------- MODULE ThreadsafeList ---------------------------
(***************************************************************************)
(* The threadsafe_list of listing 6.13: a singly linked list with a mutex  *)
(* in every node.  push_front inserts under the mutex of head; for_each,   *)
(* find_first_if and remove_if walk hand over hand, and lock the next node *)
(* before they let go of the current one.                                  *)
(***************************************************************************)
EXTENDS Integers, Sequences, FiniteSets

CONSTANTS
  Pusher, Visitor, Finder, Remover,  \* the threads, by the operation they call
  Node,       \* addresses of the nodes behind head
  HeadNode,   \* the member head
  MaxCalls,   \* bound on the calls of one thread
  Matching,   \* the items for which the predicates are true
  Null, NoThread

Walker == Visitor \cup Finder \cup Remover
Thread == Pusher \cup Walker
Item == Pusher \X (1 .. MaxCalls)

ConstantsAssumption ==
  /\ Pusher \cap Walker = {} /\ Visitor \cap (Finder \cup Remover) = {}
  /\ Finder \cap Remover = {}
  /\ HeadNode \notin Node /\ Null \notin Node \cup {HeadNode}
  /\ NoThread \notin Thread
  /\ Matching \subseteq Item
  /\ MaxCalls \in Nat

VARIABLES
  next, data,   \* the members of each node
  owner,        \* holder of the mutex of each node
  alive,        \* nodes that are allocated
  pc, calls,
  current,      \* current of a walk, new_node of push_front
  nxt,          \* next of a walk
  height,       \* auxiliary: where a node is in the list, 0 when it is not in it
  present,      \* auxiliary: the items in the list throughout a walk so far
  passed,       \* auxiliary: the items a walk has called f or p on, in order
  found         \* what the last find_first_if has returned

vars == <<next, data, owner, alive, pc, calls, current, nxt, height, present, passed, found>>

Init ==
  /\ next = [n \in Node \cup {HeadNode} |-> Null]
  /\ data = [n \in Node |-> Null]
  /\ owner = [n \in Node \cup {HeadNode} |-> NoThread]
  /\ alive = {}
  /\ pc = [t \in Thread |-> "idle"]
  /\ calls = [t \in Thread |-> 0]
  /\ current = [t \in Thread |-> Null]
  /\ nxt = [t \in Walker |-> Null]
  /\ height = [n \in Node |-> 0]
  /\ present = [t \in Walker |-> {}]
  /\ passed = [t \in Walker |-> <<>>]
  /\ found = [t \in Finder |-> Null]

Goto(t, from, to) ==
  /\ pc[t] = from
  /\ pc' = [pc EXCEPT ![t] = to]

Listed == {n \in Node : height[n] > 0}

list == <<next, data, alive, height>>
walk == <<nxt, present, passed, found>>

-----------------------------------------------------------------------------
(* push_front *)

(* new node(value) *)
Allocate(p) ==
  /\ Goto(p, "idle", "inserting")
  /\ calls[p] < MaxCalls
  /\ calls' = [calls EXCEPT ![p] = @ + 1]
  /\ \E n \in Node \ alive :
       /\ alive' = alive \cup {n}
       /\ current' = [current EXCEPT ![p] = n]
       /\ data' = [data EXCEPT ![n] = <<p, calls[p] + 1>>]
       /\ next' = [next EXCEPT ![n] = Null]
  /\ UNCHANGED <<owner, height, walk>>

LockForPush(p) ==
  /\ Goto(p, "inserting", "moving")
  /\ owner[HeadNode] = NoThread
  /\ owner' = [owner EXCEPT ![HeadNode] = p]
  /\ UNCHANGED <<list, calls, current, walk>>

(* new_node->next = move(head.next) *)
MoveNext(p) ==
  /\ Goto(p, "moving", "linking")
  /\ next' = [next EXCEPT ![current[p]] = next[HeadNode], ![HeadNode] = Null]
  /\ UNCHANGED <<data, owner, alive, calls, current, height, walk>>

(* How high a node is when it comes before n. *)
Above(n) == IF n = Null THEN 1 ELSE height[n] + 1

(* head.next = move(new_node), and the lock_guard unlocks *)
MoveNewNode(p) ==
  /\ Goto(p, "linking", "idle")
  /\ next' = [next EXCEPT ![HeadNode] = current[p]]
  /\ height' = [height EXCEPT ![current[p]] = Above(next[current[p]])]
  /\ owner' = [owner EXCEPT ![HeadNode] = IF @ = p THEN NoThread ELSE @]
  /\ UNCHANGED <<data, alive, calls, current, walk>>

push_front(p) == LockForPush(p) \/ MoveNext(p) \/ MoveNewNode(p)

-----------------------------------------------------------------------------
(* for_each, find_first_if and remove_if *)

Call(t) ==
  /\ Goto(t, "idle", "calling")
  /\ calls[t] < MaxCalls
  /\ calls' = [calls EXCEPT ![t] = @ + 1]
  /\ UNCHANGED <<list, owner, current, walk>>

(* current = &head, and its mutex is locked. *)
LockHead(t) ==
  /\ Goto(t, "calling", "at")
  /\ owner[HeadNode] = NoThread
  /\ owner' = [owner EXCEPT ![HeadNode] = t]
  /\ current' = [current EXCEPT ![t] = HeadNode]
  /\ present' = [present EXCEPT ![t] = {data[n] : n \in Listed}]
  /\ passed' = [passed EXCEPT ![t] = <<>>]
  /\ UNCHANGED <<list, calls, nxt, found>>

(* Mutant of ReadNext: the current mutex is unlocked before the next one   *)
(* is locked.                                                              *)
ReadNextAndUnlock(t) ==
  /\ Goto(t, "at", "locking")
  /\ next[current[t]] # Null
  /\ nxt' = [nxt EXCEPT ![t] = next[current[t]]]
  /\ owner' = [owner EXCEPT ![current[t]] = NoThread]
  /\ UNCHANGED <<list, calls, current, present, passed, found>>

(* next = current->next.get() is a node. *)
ReadNext(t) ==
  /\ Goto(t, "at", "locking")
  /\ next[current[t]] # Null
  /\ nxt' = [nxt EXCEPT ![t] = next[current[t]]]
  /\ UNCHANGED <<list, owner, calls, current, present, passed, found>>

(* Mutant of ReachEnd: the last mutex stays locked. *)
ReachEndLocked(t) ==
  /\ Goto(t, "at", "idle")
  /\ next[current[t]] = Null
  /\ found' = IF t \in Finder THEN [found EXCEPT ![t] = Null] ELSE found
  /\ UNCHANGED <<list, owner, calls, current, nxt, present, passed>>

(* The walk is over.  find_first_if, which ends without a return, gives an *)
(* undefined result, of which the model makes a null pointer.              *)
ReachEnd(t) ==
  /\ Goto(t, "at", "idle")
  /\ next[current[t]] = Null
  /\ owner' = [owner EXCEPT ![current[t]] = NoThread]
  /\ found' = IF t \in Finder THEN [found EXCEPT ![t] = Null] ELSE found
  /\ UNCHANGED <<list, calls, current, nxt, present, passed>>

(* next_lk(next->m) *)
LockNext(t) ==
  /\ Goto(t, "locking", "both")
  /\ owner[nxt[t]] = NoThread
  /\ owner' = [owner EXCEPT ![nxt[t]] = t]
  /\ UNCHANGED <<list, calls, current, walk>>

(* lk.unlock(), before for_each calls f and find_first_if calls p. *)
UnlockCurrent(t) ==
  /\ Goto(t, "both", "calling_back")
  /\ t \in Visitor \cup Finder
  /\ owner' = [owner EXCEPT ![current[t]] = NoThread]
  /\ UNCHANGED <<list, calls, current, walk>>

(* lk = move(next_lk) *)
Step(t) == current' = [current EXCEPT ![t] = nxt[t]]

(* f is called on the data of next, or p is and answers false. *)
PassBy(t) ==
  /\ Goto(t, "calling_back", "at")
  /\ t \in Finder => data[nxt[t]] \notin Matching
  /\ passed' = [passed EXCEPT ![t] = Append(@, data[nxt[t]])]
  /\ Step(t)
  /\ UNCHANGED <<list, owner, calls, nxt, present, found>>

(* return next->data *)
Find(t) ==
  /\ Goto(t, "calling_back", "idle")
  /\ t \in Finder /\ data[nxt[t]] \in Matching
  /\ found' = [found EXCEPT ![t] = data[nxt[t]]]
  /\ owner' = [owner EXCEPT ![nxt[t]] = NoThread]
  /\ UNCHANGED <<list, calls, current, nxt, present, passed>>

(* p is false in remove_if: lk.unlock(), and the walk goes on. *)
Keep(t) ==
  /\ Goto(t, "both", "at")
  /\ t \in Remover /\ data[nxt[t]] \notin Matching
  /\ passed' = [passed EXCEPT ![t] = Append(@, data[nxt[t]])]
  /\ owner' = [owner EXCEPT ![current[t]] = NoThread]
  /\ Step(t)
  /\ UNCHANGED <<list, calls, nxt, present, found>>

(* Mutant of Unlink: the two moves change places, and the rest of the list *)
(* is deleted with old_next.                                               *)
UnlinkRest(t) ==
  /\ Goto(t, "both", "deleting")
  /\ t \in Remover /\ data[nxt[t]] \in Matching
  /\ next' = [next EXCEPT ![current[t]] = Null]
  /\ height' = [height EXCEPT ![nxt[t]] = 0]
  /\ owner' = [owner EXCEPT ![nxt[t]] = NoThread]
  /\ present' = [u \in Walker |-> present[u] \ {data[nxt[t]]}]
  /\ UNCHANGED <<data, alive, calls, current, nxt, passed, found>>

(* p is true: old_next = move(current->next), current->next =              *)
(* move(next->next), next_lk.unlock().  No walk counts on the item now.    *)
Unlink(t) ==
  /\ Goto(t, "both", "deleting")
  /\ t \in Remover /\ data[nxt[t]] \in Matching
  /\ next' = [next EXCEPT ![current[t]] = next[nxt[t]], ![nxt[t]] = Null]
  /\ height' = [height EXCEPT ![nxt[t]] = 0]
  /\ owner' = [owner EXCEPT ![nxt[t]] = NoThread]
  /\ present' = [u \in Walker |-> present[u] \ {data[nxt[t]]}]
  /\ UNCHANGED <<data, alive, calls, current, nxt, passed, found>>

(* The destructor of old_next. *)
Delete(t) ==
  /\ Goto(t, "deleting", "at")
  /\ alive' = alive \ {nxt[t]}
  /\ UNCHANGED <<next, data, owner, calls, current, height, walk>>

for_each(t) == LockHead(t) \/ ReadNext(t) \/ ReachEnd(t) \/ LockNext(t)
               \/ UnlockCurrent(t) \/ PassBy(t)

find_first_if(t) == for_each(t) \/ Find(t)

remove_if(t) == LockHead(t) \/ ReadNext(t) \/ ReachEnd(t) \/ LockNext(t)
                \/ Keep(t) \/ Unlink(t) \/ Delete(t)

Next ==
  \/ \E p \in Pusher : Allocate(p) \/ push_front(p)
  \/ \E t \in Walker : Call(t)
  \/ \E t \in Visitor : for_each(t)
  \/ \E t \in Finder : find_first_if(t)
  \/ \E t \in Remover : remove_if(t)

Spec == Init /\ [][Next]_vars

-----------------------------------------------------------------------------

(* Every variable has a value of its type, and a walk goes to no null      *)
(* node.                                                                   *)
TypeOK ==
  /\ next \in [Node \cup {HeadNode} -> Node \cup {Null}]
  /\ data \in [Node -> Item \cup {Null}]
  /\ owner \in [Node \cup {HeadNode} -> Thread \cup {NoThread}]
  /\ alive \subseteq Node
  /\ pc \in [Thread -> {"idle", "inserting", "moving", "linking", "calling", "at",
                        "locking", "both", "calling_back", "deleting"}]
  /\ calls \in [Thread -> 0 .. MaxCalls]
  /\ current \in [Thread -> Node \cup {HeadNode, Null}]
  /\ nxt \in [Walker -> Node \cup {Null}]
  /\ height \in [Node -> Nat]
  /\ \A t \in Walker : pc[t] \in {"locking", "both", "calling_back"} => nxt[t] \in Node
  /\ present \in [Walker -> SUBSET Item]
  /\ passed \in [Walker -> Seq(Item)]
  /\ found \in [Finder -> Item \cup {Null}]

(* The nodes whose members or mutex a thread is about to use. *)
Used(t) ==
  CASE pc[t] \in {"moving", "linking", "at"} -> {current[t]}
    [] pc[t] \in {"locking", "both"} -> {current[t], nxt[t]}
    [] pc[t] \in {"calling_back", "deleting"} -> {nxt[t]}
    [] OTHER -> {}

(* The nodes that push_front or remove_if owns and not the list. *)
Detached ==
  {current[p] : p \in {q \in Pusher : pc[q] \in {"inserting", "moving", "linking"}}}
    \cup {nxt[t] : t \in {r \in Remover : pc[r] = "deleting"}}

(* n is the first node of the list behind m, or null when m is the last.   *)
Follows(m, n) ==
  LET behind == {k \in Listed : m = HeadNode \/ height[k] < height[m]}
  IN IF behind = {} THEN n = Null
                    ELSE n \in behind /\ \A k \in behind \ {n} : height[k] < height[n]

(* The list goes through its nodes one after the other.  While push_front  *)
(* is between its moves, the rest of it hangs on the new node.             *)
Linked ==
  /\ \A n \in Listed : Follows(n, next[n])
  /\ IF \E p \in Pusher : pc[p] = "linking"
       THEN \E p \in Pusher : pc[p] = "linking" /\ Follows(HeadNode, next[current[p]])
       ELSE Follows(HeadNode, next[HeadNode])

(* No thread uses a deleted node, not even to wait for its mutex, and no   *)
(* node is deleted while its mutex is locked.  The nodes alive are those   *)
(* in the list and those of an operation under way: none leaks, and the    *)
(* links lead through all that are in it.                                  *)
NoDanglingUse ==
  /\ \A t \in Thread : Used(t) \subseteq alive \cup {HeadNode}
  /\ \A n \in Node : owner[n] # NoThread => n \in alive
  /\ alive = Listed \cup Detached
  /\ Linked

(* A walk that ends has passed every item that was in the list all the     *)
(* time, whatever was inserted and removed around it, and every such item  *)
(* exactly once; one that remove_if has ended holds no match.              *)
WalkMissesNothing ==
  /\ \A t \in Walker : \A i, j \in DOMAIN passed[t] : passed[t][i] = passed[t][j] => i = j
  /\ \A t \in Walker :
       (pc[t] = "at" /\ next[current[t]] = Null) =>
         \A x \in present[t] : \E i \in DOMAIN passed[t] : passed[t][i] = x

(* The mutex that a thread is waiting for. *)
Awaits(t) ==
  CASE pc[t] \in {"inserting", "calling"} -> {HeadNode}
    [] pc[t] = "locking" -> {nxt[t]}
    [] OTHER -> {}

(* Walks hold their mutexes in the order of the list while they wait for   *)
(* the next, and wait for none when they delete or call back: as long as   *)
(* an operation is under way, some thread in one can go on.                *)
NoDeadlock ==
  LET busy == {t \in Thread : pc[t] # "idle"}
  IN busy # {} => \E t \in busy : \A n \in Awaits(t) : owner[n] = NoThread

=============================================================================
