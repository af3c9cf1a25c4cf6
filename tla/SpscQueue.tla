----------------------------- MODULE SpscQueue -----------------------------
(***************************************************************************)
(* The lock_free_queue of listing 7.13, for one thread that pushes and one *)
(* that pops: a linked list with a dummy node at its end, whose two ends   *)
(* are atomic pointers.  Only the producer stores tail, only the consumer  *)
(* stores head, and the members of the nodes are plain memory.             *)
(*                                                                         *)
(* A node is named by the order of its allocation, the first dummy is 0.   *)
(* Addresses may repeat after a delete; as long as no deleted node is ever *)
(* used, which NoDanglingUse states, the program cannot tell.              *)
(***************************************************************************)
EXTENDS Integers, Sequences

CONSTANTS
  MaxPush,  \* bound on the pushes
  MaxPop    \* bound on the pops

ASSUME ConstantsAssumption == MaxPush \in Nat /\ MaxPop \in Nat

Node == 0 .. MaxPush
Null == -1

(* The k-th push carries the value k; Nothing is the null shared_ptr. *)
Value == 1 .. MaxPush
Nothing == 0

VARIABLES
  head, tail,    \* the atomic pointers
  data, next,    \* the members of each node
  alive,         \* nodes allocated and not deleted
  ppc, p, old_tail,           \* the producer and its locals in push
  cpc, old_head, new_head, res,  \* the consumer and its locals in pop
  sent,          \* values pushed
  pops,          \* pops finished
  result         \* what the last pop returned

memory == <<head, tail, data, next, alive>>
producer == <<ppc, p, old_tail, sent>>
consumer == <<cpc, old_head, new_head, res, pops, result>>
vars == <<memory, producer, consumer>>

Init ==
  /\ head = 0 /\ tail = 0
  /\ data = [n \in Node |-> Nothing]
  /\ next = [n \in Node |-> Null]
  /\ alive = {0}
  /\ ppc = "idle" /\ p = Null /\ old_tail = Null /\ sent = 0
  /\ cpc = "idle" /\ old_head = Null /\ new_head = Null /\ res = Nothing
  /\ pops = 0 /\ result = Nothing

-----------------------------------------------------------------------------
(* push *)

(* make_shared and new node *)
Allocate ==
  /\ ppc = "idle" /\ sent < MaxPush
  /\ ppc' = "load_tail"
  /\ p' = sent + 1
  /\ alive' = alive \cup {sent + 1}
  /\ UNCHANGED <<head, tail, data, next, old_tail, sent, consumer>>

LoadTail ==
  /\ ppc = "load_tail"
  /\ ppc' = "swap_data"
  /\ old_tail' = tail
  /\ UNCHANGED <<memory, p, sent, consumer>>

(* Mutant of SwapData: the value goes into the new dummy. *)
SwapDataIntoNew ==
  /\ ppc = "swap_data"
  /\ ppc' = "set_next"
  /\ data' = [data EXCEPT ![p] = sent + 1]
  /\ UNCHANGED <<head, tail, next, alive, p, old_tail, sent, consumer>>

SwapData ==
  /\ ppc = "swap_data"
  /\ ppc' = "set_next"
  /\ data' = [data EXCEPT ![old_tail] = sent + 1]
  /\ UNCHANGED <<head, tail, next, alive, p, old_tail, sent, consumer>>

SetNext ==
  /\ ppc = "set_next"
  /\ ppc' = "store_tail"
  /\ next' = [next EXCEPT ![old_tail] = p]
  /\ UNCHANGED <<head, tail, data, alive, p, old_tail, sent, consumer>>

(* tail.store(p) hands the old dummy to the consumer. *)
StoreTail ==
  /\ ppc = "store_tail"
  /\ ppc' = "idle"
  /\ tail' = p
  /\ sent' = sent + 1
  /\ UNCHANGED <<head, data, next, alive, p, old_tail, consumer>>

-----------------------------------------------------------------------------
(* pop *)

LoadHead ==
  /\ cpc = "idle" /\ pops < MaxPop
  /\ cpc' = "compare"
  /\ old_head' = head
  /\ UNCHANGED <<memory, producer, new_head, res, pops, result>>

(* old_head == tail.load(): pop returns a null shared_ptr. *)
FindEmpty ==
  /\ cpc = "compare" /\ old_head = tail
  /\ cpc' = "idle"
  /\ pops' = pops + 1
  /\ result' = Nothing
  /\ UNCHANGED <<memory, producer, old_head, new_head, res>>

(* Mutant of FindNode: the comparison with tail is dropped. *)
FindNodeAlways ==
  /\ cpc = "compare"
  /\ cpc' = "read_next"
  /\ UNCHANGED <<memory, producer, old_head, new_head, res, pops, result>>

FindNode ==
  /\ cpc = "compare" /\ old_head # tail
  /\ cpc' = "read_next"
  /\ UNCHANGED <<memory, producer, old_head, new_head, res, pops, result>>

ReadNext ==
  /\ cpc = "read_next"
  /\ cpc' = "store_head"
  /\ new_head' = next[old_head]
  /\ UNCHANGED <<memory, producer, old_head, res, pops, result>>

(* Mutant of StoreHead: the node is deleted before its data is copied. *)
StoreHeadAndDelete ==
  /\ cpc = "store_head"
  /\ cpc' = "read_data"
  /\ head' = new_head
  /\ alive' = alive \ {old_head}
  /\ UNCHANGED <<tail, data, next, producer, old_head, new_head, res, pops, result>>

StoreHead ==
  /\ cpc = "store_head"
  /\ cpc' = "read_data"
  /\ head' = new_head
  /\ UNCHANGED <<tail, data, next, alive, producer, old_head, new_head, res, pops, result>>

ReadData ==
  /\ cpc = "read_data"
  /\ cpc' = "delete"
  /\ res' = data[old_head]
  /\ UNCHANGED <<memory, producer, old_head, new_head, pops, result>>

(* delete old_head; return res *)
DeleteHead ==
  /\ cpc = "delete"
  /\ cpc' = "idle"
  /\ alive' = alive \ {old_head}
  /\ pops' = pops + 1
  /\ result' = res
  /\ UNCHANGED <<head, tail, data, next, producer, old_head, new_head, res>>

-----------------------------------------------------------------------------

push == LoadTail \/ SwapData \/ SetNext \/ StoreTail

pop == FindEmpty \/ FindNode \/ ReadNext \/ StoreHead \/ ReadData \/ DeleteHead

Next == Allocate \/ push \/ LoadHead \/ pop

Spec == Init /\ [][Next]_vars

-----------------------------------------------------------------------------

(* Every variable has a value of its type; a node's next is a node or null.*)
TypeOK ==
  /\ head \in Node /\ tail \in Node
  /\ data \in [Node -> Value \cup {Nothing}]
  /\ next \in [Node -> Node \cup {Null}]
  /\ alive \subseteq Node
  /\ ppc \in {"idle", "load_tail", "swap_data", "set_next", "store_tail"}
  /\ p \in Node \cup {Null} /\ old_tail \in Node \cup {Null}
  /\ sent \in 0 .. MaxPush
  /\ cpc \in {"idle", "compare", "read_next", "store_head", "read_data", "delete"}
  /\ old_head \in Node \cup {Null} /\ new_head \in Node \cup {Null}
  /\ res \in Value \cup {Nothing} /\ result \in Value \cup {Nothing}
  /\ pops \in 0 .. MaxPop

(* No statement uses a node that has been deleted: the two ends, the dummy *)
(* that push fills in and the node that pop takes out are alive for as     *)
(* long as they are used.                                                  *)
NoDanglingUse ==
  /\ head \in alive /\ tail \in alive
  /\ ppc \in {"swap_data", "set_next"} => old_tail \in alive
  /\ cpc \in {"read_next", "read_data", "delete"} => old_head \in alive

(* The plain members of a node are never written by push while pop reads   *)
(* them: the two threads work on different nodes.                          *)
NoDataRace ==
  /\ ppc = "swap_data" /\ cpc = "read_data" => old_tail # old_head
  /\ ppc = "set_next" /\ cpc = "read_next" => old_tail # old_head

(* Every node allocated is in the list, still owned by push or pop, or     *)
(* deleted: between the ends nothing is lost.                              *)
NoLeak ==
  alive = (head .. tail)
            \cup (IF ppc = "idle" THEN {} ELSE {p})
            \cup (IF cpc \in {"read_data", "delete"} THEN {old_head} ELSE {})

(* The nodes that are used, and only they, are alive. *)
MemorySafety == NoDanglingUse /\ NoLeak

(* The values inside: one in every node of the list but the dummy. *)
Content == [i \in 1 .. tail - head |-> <<"producer", data[head + i - 1]>>]

Returned(v) == IF v = Nothing THEN <<>> ELSE <<"producer", v>>

(* Without a lock the two ends still make a queue: every value is popped   *)
(* once and in order, and pop answers "nothing" only when the queue is     *)
(* empty.  A push counts from StoreTail, a pop from StoreHead on.          *)
Abstract == INSTANCE AbstractQueue WITH
  Producer <- {"producer"},
  Taker <- {"consumer"},
  Nothing <- <<>>,
  queue <- Content,
  sent <- [q \in {"producer"} |-> sent],
  result <- [c \in {"consumer"} |->
               CASE cpc = "read_data" -> Returned(data[old_head])
                 [] cpc = "delete" -> Returned(res)
                 [] OTHER -> Returned(result)]

IsAQueue == Abstract!Spec

=============================================================================
