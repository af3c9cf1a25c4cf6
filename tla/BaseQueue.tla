------------------------------ MODULE BaseQueue ------------------------------
(***************************************************************************)
(* The queues of listings 6.4, 6.5 and 6.6, which one thread uses: a list  *)
(* of nodes with a unique_ptr to its head and a plain pointer to its tail. *)
(* 6.4 leaves tail as it is when the last node is popped, and does not     *)
(* initialise it; 6.5 has a dummy node behind the items instead, and so    *)
(* has 6.6, whose mutexes are free whenever its one thread wants them.     *)
(***************************************************************************)
EXTENDS Naturals, Sequences

CONSTANTS
  User,     \* the thread
  Node,     \* addresses of nodes
  MaxPush,  \* bound on the pushes
  Null,
  Wild,     \* an uninitialised pointer
  Nothing   \* the null shared_ptr

ConstantsAssumption == Null \notin Node /\ Wild \notin Node \cup {Null} /\ MaxPush \in Nat

VARIABLES
  listing,  \* "6.4", "6.5" or "6.6"
  head, tail, next, data,
  alive,    \* nodes that are allocated
  order,    \* auxiliary: the nodes from head on, in the order of the list
  sent, result,
  shown,    \* the items that the last show or do_job went through
  broken    \* a pointer to no node has been dereferenced

vars == <<listing, head, tail, next, data, alive, order, sent, result, shown, broken>>

(* Whether there is a dummy node. *)
dummy == listing # "6.4"

Init ==
  /\ \/ /\ listing = "6.4"
        /\ head = Null /\ alive = {} /\ order = <<>>
        /\ tail \in {Null, Wild}
     \/ /\ listing \in {"6.5", "6.6"}
        /\ \E n \in Node : head = n /\ tail = n /\ alive = {n} /\ order = <<n>>
  /\ next = [n \in Node |-> Null] /\ data = [n \in Node |-> Nothing]
  /\ sent = [u \in {User} |-> 0] /\ result = [u \in {User} |-> Nothing]
  /\ shown = <<>>
  /\ broken = FALSE

(* The items, which are in all nodes but the dummy one. *)
Content ==
  [i \in 1 .. (IF dummy THEN Len(order) - 1 ELSE Len(order)) |-> data[order[i]]]

Break ==
  broken' = TRUE /\ UNCHANGED <<listing, head, tail, next, data, alive, order, sent, result, shown>>

Item == {User} \X (1 .. MaxPush)

NewItem == <<User, sent[User] + 1>>

CountPush ==
  /\ sent[User] < MaxPush
  /\ sent' = [sent EXCEPT ![User] = @ + 1]

(* Mutant of PushDummy: tail is not moved to the new dummy node. *)
PushDummyStay ==
  /\ CountPush
  /\ \E n \in Node \ alive :
       /\ alive' = alive \cup {n} /\ order' = Append(order, n)
       /\ data' = [data EXCEPT ![tail] = NewItem, ![n] = Nothing]
       /\ next' = [next EXCEPT ![tail] = n, ![n] = Null]
  /\ UNCHANGED <<head, tail>>

(* 6.5: the data go into the old dummy node. *)
PushDummy ==
  /\ CountPush
  /\ \E n \in Node \ alive :
       /\ alive' = alive \cup {n} /\ order' = Append(order, n)
       /\ data' = [data EXCEPT ![tail] = NewItem, ![n] = Nothing]
       /\ next' = [next EXCEPT ![tail] = n, ![n] = Null]
       /\ tail' = n
  /\ UNCHANGED head

(* 6.4: the new node goes behind tail, unless that is null. *)
PushPlain ==
  /\ CountPush
  /\ tail \in alive \cup {Null}
  /\ \E n \in Node \ alive :
       /\ alive' = alive \cup {n} /\ order' = Append(order, n)
       /\ data' = [data EXCEPT ![n] = NewItem]
       /\ next' = [m \in Node |-> IF m = tail THEN n ELSE IF m = n THEN Null ELSE next[m]]
       /\ head' = IF tail = Null THEN n ELSE head
       /\ tail' = n

push ==
  \/ /\ IF dummy THEN PushDummy ELSE PushPlain
     /\ UNCHANGED <<listing, result, shown, broken>>
  \/ ~dummy /\ sent[User] < MaxPush /\ tail \notin alive \cup {Null} /\ Break

(* head.get() == tail, or !head *)
Empty == IF dummy THEN head = tail ELSE head = Null

PopNothing ==
  /\ Empty
  /\ result' = [result EXCEPT ![User] = Nothing]
  /\ UNCHANGED <<listing, head, tail, next, data, alive, order, sent, shown, broken>>

(* old_head = move(head), head = move(old_head->next), and old_head is     *)
(* deleted.                                                                *)
Pop ==
  /\ ~Empty
  /\ result' = [result EXCEPT ![User] = data[head]]
  /\ head' = next[head]
  /\ next' = [next EXCEPT ![head] = Null]
  /\ alive' = alive \ {head} /\ order' = Tail(order)
  /\ UNCHANGED <<listing, tail, data, sent, shown, broken>>

(* pop_head of 6.6 returns a unique_ptr<node> as a shared_ptr<T>: a program *)
(* that called its try_pop would not compile.                              *)
Callable == listing # "6.6"

try_pop == Callable /\ (Pop \/ PopNothing)

(* The walk of show and do_job, from node n along next, ends at stop or at *)
(* null.  It passes no more nodes than have been pushed.                   *)
IsWalk(w, n, stop) ==
  LET at(i) == IF i = 1 THEN n ELSE next[w[i - 1]]
  IN  /\ \A i \in 1 .. Len(w) : w[i] = at(i) /\ w[i] # stop
      /\ at(Len(w) + 1) \in {stop, Null}

Show(n, stop) ==
  /\ \E w \in UNION {[1 .. k -> Node] : k \in 0 .. sent[User]} :
       IsWalk(w, n, stop) /\ shown' = [i \in 1 .. Len(w) |-> data[w[i]]]
  /\ UNCHANGED <<listing, head, tail, next, data, alive, order, sent, result, broken>>

show == ~dummy /\ Show(head, Null)

(* The walk of do_job begins at head->next, which is null when there are   *)
(* no items, and then is dereferenced.                                     *)
do_job == dummy /\ IF next[head] # Null THEN Show(next[head], tail) ELSE Break

Next == ~broken /\ (push \/ try_pop \/ show \/ do_job)

Spec == Init /\ [][Next]_vars

-----------------------------------------------------------------------------

(* Every variable has a value of its type. *)
TypeOK ==
  /\ listing \in {"6.4", "6.5", "6.6"}
  /\ head \in Node \cup {Null} /\ tail \in Node \cup {Null, Wild}
  /\ next \in [Node -> Node \cup {Null}]
  /\ data \in [Node -> Item \cup {Nothing}]
  /\ alive \subseteq Node /\ order \in Seq(Node)
  /\ sent \in [{User} -> 0 .. MaxPush]
  /\ result \in [{User} -> Item \cup {Nothing}]
  /\ shown \in Seq(Item \cup {Nothing})
  /\ broken \in BOOLEAN

(* The links go from head through the nodes in their order. *)
Linked ==
  /\ head = IF order = <<>> THEN Null ELSE order[1]
  /\ \A i \in DOMAIN order :
       next[order[i]] = IF i = Len(order) THEN Null ELSE order[i + 1]

(* No node leaks or is lost, and what is dereferenced without being a node *)
(* is no more than the tail of 6.4 in a push to an empty queue, and the    *)
(* null pointer of do_job in an empty queue of 6.5.                        *)
OnlyEmptyMisused ==
  alive = {order[i] : i \in DOMAIN order} /\ Linked /\ (broken => Empty)

(* What show and do_job go through: the items, but the first in do_job. *)
ShowsItems ==
  shown' # shown => shown' = IF dummy THEN Tail(Content) ELSE Content

Abstract ==
  INSTANCE AbstractQueue WITH queue <- Content, Producer <- {User}, Taker <- {User}

(* Items leave in the order in which they came, and those inside are shown *)
(* in it.                                                                  *)
IsAQueue == Abstract!Spec /\ [][ShowsItems]_vars

=============================================================================
