---------------------------- MODULE AbstractQueue ----------------------------
(***************************************************************************)
(* What every queue class of the repository promises its callers: pushes   *)
(* and pops take effect one at a time, items leave in the order in which   *)
(* they entered, each exactly once, and a pop may answer "nothing" only at *)
(* a moment when the queue is empty.                                       *)
(***************************************************************************)
EXTENDS Naturals, Sequences

CONSTANTS
  Producer,  \* threads that push
  Taker,     \* threads that pop
  MaxPush,   \* bound on the pushes of one producer
  Nothing    \* the null shared_ptr, or false, of a pop that found no item

(* The k-th value a producer pushes. *)
Item == Producer \X (1 .. MaxPush)

VARIABLES
  queue,   \* the items inside, oldest first
  sent,    \* how many items each producer has pushed
  result   \* what the last pop of each thread returned

Init ==
  /\ queue = <<>>
  /\ sent = [p \in Producer |-> 0]
  /\ result = [c \in Taker |-> Nothing]

Push(p) ==
  /\ sent[p] < MaxPush
  /\ sent' = [sent EXCEPT ![p] = @ + 1]
  /\ queue' = Append(queue, <<p, sent[p] + 1>>)
  /\ UNCHANGED result

Pop(c) ==
  /\ queue # <<>>
  /\ queue' = Tail(queue)
  /\ result' = [result EXCEPT ![c] = Head(queue)]
  /\ UNCHANGED sent

PopNothing(c) ==
  /\ queue = <<>>
  /\ result' = [result EXCEPT ![c] = Nothing]
  /\ UNCHANGED <<queue, sent>>

Next ==
  \/ \E p \in Producer : Push(p)
  \/ \E c \in Taker : Pop(c) \/ PopNothing(c)

Spec == Init /\ [][Next]_<<queue, sent, result>>

=============================================================================
