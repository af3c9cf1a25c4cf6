------------------------------ MODULE QuickSort ------------------------------
(***************************************************************************)
(* The quicksorts of listings 4.12 and 4.13.  Every call splices a lower   *)
(* part, its pivot and a higher part together; list is what the calls will *)
(* have spliced together, from left to right, as far as they have got.  In *)
(* 4.12 the lower part is sorted before the higher one, while in 4.13 any  *)
(* call may be the next to go on, each lower part being an async job.      *)
(***************************************************************************)
EXTENDS Integers, Sequences, Functions

CONSTANTS Inputs  \* the lists that main may sort

ConstantsAssumption == Inputs \subseteq Seq(Int)

VARIABLES
  listing,  \* "4.12" or "4.13"
  input,    \* the list that main sorts
  list,
  open      \* the calls that have not divided their part of the list

vars == <<listing, input, list, open>>

Call(first, last) == [first |-> first, last |-> last]

Init ==
  /\ listing \in {"4.12", "4.13"}
  /\ input \in Inputs
  /\ list = input
  /\ open = {Call(1, Len(input))}

(* The orders in which std::partition may leave the part of c, with the    *)
(* pivot, its first element, at divide_point: order[i] is where the        *)
(* element at i came from.                                                 *)
Partitions(c, divide_point) ==
  {order \in Bijection(c.first .. c.last, c.first .. c.last) :
     /\ order[divide_point] = c.first
     /\ \A i \in c.first .. divide_point - 1 : list[order[i]] < list[c.first]
     /\ \A i \in divide_point + 1 .. c.last : list[order[i]] >= list[c.first]}

(* A call returns at once when it has no elements; else it puts its pivot  *)
(* between its lower and its higher part, and calls itself for both.       *)
quick_sort(c) ==
  /\ \/ /\ c.first > c.last
        /\ open' = open \ {c}
        /\ UNCHANGED list
     \/ \E divide_point \in c.first .. c.last : \E order \in Partitions(c, divide_point) :
          /\ list' = [i \in DOMAIN list |->
                        IF i \in DOMAIN order THEN list[order[i]] ELSE list[i]]
          /\ open' = (open \ {c}) \cup {Call(c.first, divide_point - 1),
                                        Call(divide_point + 1, c.last)}
  /\ UNCHANGED <<listing, input>>

Next ==
  \E c \in open :
    /\ listing = "4.12" => \A d \in open : c.first <= d.first
    /\ quick_sort(c)

Spec == Init /\ [][Next]_vars

-----------------------------------------------------------------------------

(* Every variable has a value of its type: a call is about a part of the   *)
(* list, or about the empty part before or behind one of its elements.     *)
TypeOK ==
  /\ listing \in {"4.12", "4.13"} /\ input \in Inputs
  /\ list \in [DOMAIN input -> Int]
  /\ open \subseteq [first : 1 .. Len(input) + 1, last : 0 .. Len(input)]

(* Whatever calls go on in whatever order, no element is lost or doubled,  *)
(* and only elements of one open call may be in the wrong order, so that   *)
(* in the end the list of the input is sorted.                             *)
ResultIsSorted ==
  /\ \E order \in Bijection(DOMAIN input, DOMAIN input) :
       list = [i \in DOMAIN input |-> input[order[i]]]
  /\ \A i, j \in DOMAIN list : i < j /\ list[i] > list[j] =>
       \E c \in open : c.first <= i /\ j <= c.last
  /\ open = {} => \A i, j \in DOMAIN list : i < j => list[i] <= list[j]

=============================================================================
