--------------------------- MODULE ReclaimingStacks ---------------------------
(***************************************************************************)
(* The three stacks that free nodes in pop: Pending of listing 7.4,        *)
(* Hazards of 7.6 and Counts of 7.10.  A behaviour is one of the program   *)
(* that is chosen first; what the stacks have in common has the same       *)
(* variables, and those of the other programs keep their initial values.   *)
(***************************************************************************)
EXTENDS Integers, Sequences, FiniteSets

CONSTANTS
  Programs,  \* the stacks that this instance chooses from
  Thread, Node, MaxPush, MaxPop, Null, Wild, Nothing, Wrap, Starts,
  max_hazard_pointers, NoThread, Overlapping

VARIABLES
  program,
  head, data, next, allocated, pc, node, nxt, sent, pops, result, order,
  to_be_deleted, threads_in_pop, first, last, broken, pending, chain,
  id, pointer, hp, temp,
  nodes, external, internal, counter, ptr, count

Pending == INSTANCE LockFreeStackReclaim
Hazards == INSTANCE HazardPointers
Counts == INSTANCE ReferenceCounts

ASSUME ConstantsAssumption ==
  /\ Programs \subseteq {"pending", "hazards", "counts"}
  /\ Pending!ConstantsAssumption /\ Hazards!ConstantsAssumption /\ Counts!ConstantsAssumption

(* The constructor of 7.4 leaves two members out.  In an object of static  *)
(* storage they are zero.  Elsewhere they may be anything; a counter that  *)
(* starts above zero is never one when a pop looks at it, as long as so    *)
(* many pops do not make it wrap around.  Left out is the start with a     *)
(* counter of zero and a wild to_be_deleted, from which the first pop      *)
(* deletes through a pointer to no node.                                   *)
ASSUME StartsAssumption ==
  /\ IsFiniteSet(Thread) /\ Cardinality(Thread) <= Wrap
  /\ Starts \subseteq
       {<<0, Null>>} \cup (1 .. Wrap - Cardinality(Thread)) \X {Null, Wild}

stack == <<head, data, next, allocated, pc, node, nxt, sent, pops, result, order>>
reclaim == <<to_be_deleted, threads_in_pop, first, last, broken, pending, chain>>
hazards == <<id, pointer, hp, temp>>
counts == <<nodes, external, internal, counter, ptr, count>>
vars == <<program, stack, reclaim, hazards, counts>>

Init ==
  /\ program \in Programs
  /\ Pending!Init /\ Hazards!Init /\ Counts!Init
  /\ program # "pending" => <<threads_in_pop, to_be_deleted>> = <<0, Null>>

Next ==
  \/ /\ program = "pending" /\ Pending!Next
     /\ UNCHANGED <<program, hazards, counts>>
  \/ /\ program = "hazards" /\ Hazards!Next
     /\ UNCHANGED <<program, reclaim, counts>>
  \/ /\ program = "counts" /\ Counts!Next
     /\ UNCHANGED <<program, reclaim, hazards>>

Spec == Init /\ [][Next]_vars

-----------------------------------------------------------------------------

(* Every variable of the chosen program has a value of its type; order of  *)
(* 7.10, which is auxiliary, only where one pop runs at a time.            *)
TypeOK ==
  /\ program \in {"pending", "hazards", "counts"}
  /\ program = "pending" => Pending!TypeOK
  /\ program = "hazards" => Hazards!TypeOK
  /\ program = "counts" => Counts!TypeOK

(* No pop uses or deletes a node that has been deleted, or an address that *)
(* never was one, but for null: 7.4 chains a null node and 7.10 counts at  *)
(* a null head when a pop finds the stack empty.  7.6 has no such misuse,  *)
(* and 7.10 has one thread in pop at a time here.                          *)
OnlyNullMisused ==
  /\ program = "pending" => Pending!OnlyNullMisused
  /\ program = "hazards" => Hazards!NoDanglingUse
  /\ program = "counts" => Counts!OnlyNullMisused

(* In 7.4 and 7.6 each node alive is in one place and none is lost.  7.10  *)
(* does lose nodes when a push comes between the steps of a pop.           *)
EveryNodeHasOnePlace ==
  /\ program = "pending" => Pending!EveryNodeHasOnePlace
  /\ program = "hazards" => Hazards!EveryNodeHasOnePlace

(* The slots of 7.6 let one thread pop at a time. *)
PopsNeverOverlap == program = "hazards" => Hazards!PopsNeverOverlap

Returned ==
  CASE program = "pending" -> Pending!Listing!Returned
    [] program = "hazards" -> Hazards!Returned
    [] program = "counts" -> Counts!Returned

(* The items in the list, the top one first. *)
Content == [i \in 1 .. Len(order) |-> data[order[i]]]

Abstract == INSTANCE AbstractStack WITH stack <- Content, result <- Returned

(* Although addresses return and nodes are taken out while other pops read *)
(* their next, every pop takes the top item, each item is returned once,   *)
(* and nothing is returned only when the stack was empty.                  *)
IsAStack == Abstract!Spec

(* 7.4: what main.cpp:94 expects of a pop from an empty stack, that it     *)
(* comes through try_reclaim and returns a null pointer.                   *)
EmptyPopReturns == Pending!EmptyPopReturns

(* 7.10: the pair that head points to is alive, since the counts of        *)
(* lines 104 and 111 delete a pair after its last use.                     *)
HeadAlive == Counts!HeadAlive

=============================================================================
