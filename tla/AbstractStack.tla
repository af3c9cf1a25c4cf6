---------------------------- MODULE AbstractStack ----------------------------
(***************************************************************************)
(* What the stack classes of chapter 7 promise their callers: pushes and   *)
(* pops take effect one at a time, a pop takes the item pushed last among  *)
(* those still inside, and answers "nothing" only when there is none.      *)
(***************************************************************************)
EXTENDS Naturals, Sequences

CONSTANTS
  Thread,   \* the threads that push and pop
  MaxPush,  \* bound on the pushes of one thread
  Nothing   \* the null shared_ptr

(* The k-th value a thread pushes. *)
Item == Thread \X (1 .. MaxPush)

VARIABLES
  stack,   \* the items inside, the top one first
  sent,    \* how many items each thread has pushed
  result   \* what the last pop of each thread returned

Init ==
  /\ stack = <<>>
  /\ sent = [t \in Thread |-> 0]
  /\ result = [t \in Thread |-> Nothing]

Push(t) ==
  /\ sent[t] < MaxPush
  /\ sent' = [sent EXCEPT ![t] = @ + 1]
  /\ stack' = <<<<t, sent[t] + 1>>>> \o stack
  /\ UNCHANGED result

Pop(t) ==
  /\ stack # <<>>
  /\ stack' = Tail(stack)
  /\ result' = [result EXCEPT ![t] = Head(stack)]
  /\ UNCHANGED sent

PopNothing(t) ==
  /\ stack = <<>>
  /\ result' = [result EXCEPT ![t] = Nothing]
  /\ UNCHANGED <<stack, sent>>

Next == \E t \in Thread : Push(t) \/ Pop(t) \/ PopNothing(t)

Spec == Init /\ [][Next]_<<stack, sent, result>>

=============================================================================
