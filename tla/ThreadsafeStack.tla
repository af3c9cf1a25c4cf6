--------------------------- MODULE ThreadsafeStack ---------------------------
(***************************************************************************)
(* The threadsafe_stack of listings 3.5 and 6.1: a std::stack under one    *)
(* mutex.  Threads push, pop, ask whether it is empty, and copy it.        *)
(*                                                                         *)
(* The listings differ in two operations.  The constructor that copies     *)
(* locks other.m in 6.1, but in 3.5 the mutex m of the new object, which   *)
(* nobody else can hold: a change of the stack meanwhile is a data race,   *)
(* after which the copy may be anything.  And both pops of 6.1 name the    *)
(* member function top without a call, move(data.top), so that a program   *)
(* that used one would not compile: only 3.5 has pops here.                *)
(***************************************************************************)
EXTENDS Naturals, Sequences

CONSTANTS
  Thread,
  MaxCalls,  \* bound on the calls of one thread
  Nothing,   \* stands for the exception empty_stack
  Wild,      \* a copy made in a data race
  NoThread   \* owner of the mutex when it is free

Item == Thread \X (1 .. MaxCalls)

ConstantsAssumption ==
  MaxCalls \in Nat /\ NoThread \notin Thread /\ Wild \notin Seq(Item)

VARIABLES
  listing,   \* "3.5" or "6.1"
  data,      \* the std::stack, its top first
  owner,     \* the holder of m
  pc, calls,
  sent,      \* the pushes of each thread so far
  result,    \* what the last pop of each thread returned
  copied     \* what a copy constructor has copied

vars == <<listing, data, owner, pc, calls, sent, result, copied>>

Init ==
  /\ listing \in {"3.5", "6.1"}
  /\ data = <<>>
  /\ owner = NoThread
  /\ pc = [t \in Thread |-> "idle"]
  /\ calls = [t \in Thread |-> 0] /\ sent = [t \in Thread |-> 0]
  /\ result = [t \in Thread |-> Nothing]
  /\ copied = [t \in Thread |-> <<>>]

Goto(t, from, to) ==
  /\ pc[t] = from
  /\ pc' = [pc EXCEPT ![t] = to]

Unlock(t) == owner' = IF owner = t THEN NoThread ELSE owner

Operation == {"push", "pop", "empty", "copy"}

(* The operations that compile when they are used. *)
Callable == IF listing = "3.5" THEN Operation ELSE Operation \ {"pop"}

Call(t) ==
  /\ calls[t] < MaxCalls
  /\ \E op \in Callable : Goto(t, "idle", op)
  /\ calls' = [calls EXCEPT ![t] = @ + 1]
  /\ copied' = [copied EXCEPT ![t] = <<>>]
  /\ UNCHANGED <<listing, data, owner, sent, result>>

Inside(op) ==
  CASE op = "push" -> "pushing" [] op = "pop" -> "looking" [] op = "empty" -> "asking"
    [] op = "copy" -> "copying"

(* lock_guard<mutex> lock(m) of the stack that is pushed to or copied *)
Lock(t) ==
  /\ pc[t] \in Operation
  /\ owner = NoThread
  /\ owner' = t
  /\ pc' = [pc EXCEPT ![t] = Inside(@)]
  /\ UNCHANGED <<listing, data, calls, sent, result, copied>>

(* The constructor of 3.5 locks the mutex of the object it constructs. *)
LockOwn(t) ==
  /\ Goto(t, "copy", "copying")
  /\ UNCHANGED <<listing, data, owner, calls, sent, result, copied>>

(* Mutant of LockOther: the constructor of 6.1 does as that of 3.5. *)
LockOtherNot(t) == LockOwn(t)

LockOther(t) == pc[t] = "copy" /\ Lock(t)

LockForCopy(t) ==
  \/ listing = "3.5" /\ LockOwn(t)
  \/ listing = "6.1" /\ LockOther(t)

(* Whoever reads data while they change has a data race. *)
SpoilCopies ==
  copied' = [t \in Thread |-> IF pc[t] = "copying" THEN Wild ELSE copied[t]]

PushData(t) ==
  /\ Goto(t, "pushing", "idle")
  /\ sent' = [sent EXCEPT ![t] = @ + 1]
  /\ data' = <<<<t, sent[t] + 1>>>> \o data
  /\ SpoilCopies
  /\ Unlock(t)
  /\ UNCHANGED <<listing, calls, result>>

(* throw empty_stack() *)
ThrowEmpty(t) ==
  /\ Goto(t, "looking", "idle")
  /\ data = <<>>
  /\ result' = [result EXCEPT ![t] = Nothing]
  /\ Unlock(t)
  /\ UNCHANGED <<listing, data, calls, sent, copied>>

(* data.empty() is false. *)
ReadTop(t) ==
  /\ Goto(t, "looking", "popping")
  /\ data # <<>>
  /\ UNCHANGED <<listing, data, owner, calls, sent, result, copied>>

(* make_shared, or the assignment to value, throws: the item stays. *)
ReadThrows(t) ==
  /\ Goto(t, "popping", "idle")
  /\ Unlock(t)
  /\ UNCHANGED <<listing, data, calls, sent, result, copied>>

(* data.top() is copied, and data.pop() *)
PopData(t) ==
  /\ Goto(t, "popping", "idle")
  /\ data # <<>>
  /\ result' = [result EXCEPT ![t] = Head(data)]
  /\ data' = Tail(data)
  /\ SpoilCopies
  /\ Unlock(t)
  /\ UNCHANGED <<listing, calls, sent>>

(* empty(), whose answer may be out of date when it arrives *)
empty(t) ==
  /\ Goto(t, "asking", "idle")
  /\ Unlock(t)
  /\ UNCHANGED <<listing, data, calls, sent, result, copied>>

(* data = other.data, one item after the other from the bottom *)
CopyItem(t) ==
  /\ pc[t] = "copying" /\ copied[t] # Wild
  /\ Len(copied[t]) < Len(data)
  /\ copied' = [copied EXCEPT ![t] = <<data[Len(data) - Len(@)]>> \o @]
  /\ UNCHANGED <<listing, data, owner, pc, calls, sent, result>>

EndCopy(t) ==
  /\ Goto(t, "copying", "idle")
  /\ copied[t] # Wild => Len(copied[t]) = Len(data)
  /\ Unlock(t)
  /\ UNCHANGED <<listing, data, calls, sent, result, copied>>

push(t) == (pc[t] = "push" /\ Lock(t)) \/ PushData(t)
pop(t) == (pc[t] = "pop" /\ Lock(t)) \/ ThrowEmpty(t) \/ ReadTop(t) \/ ReadThrows(t) \/ PopData(t)
copy(t) == LockForCopy(t) \/ CopyItem(t) \/ EndCopy(t)

Next ==
  \E t \in Thread :
    Call(t) \/ push(t) \/ pop(t) \/ (pc[t] = "empty" /\ Lock(t)) \/ empty(t) \/ copy(t)

Spec == Init /\ [][Next]_vars

-----------------------------------------------------------------------------

(* Every variable has a value of its type, and one thread at most is where *)
(* the mutex of the stack is held.                                         *)
TypeOK ==
  /\ listing \in {"3.5", "6.1"}
  /\ data \in Seq(Item)
  /\ owner \in Thread \cup {NoThread}
  /\ pc \in [Thread -> Operation \cup
             {"idle", "pushing", "looking", "popping", "asking", "copying"}]
  /\ calls \in [Thread -> 0 .. MaxCalls]
  /\ sent \in [Thread -> 0 .. MaxCalls]
  /\ result \in [Thread -> Item \cup {Nothing}]
  /\ copied \in [Thread -> Seq(Item) \cup {Wild}]
  /\ \A t \in Thread : pc[t] \in {"pushing", "looking", "popping", "asking"} => owner = t

(* A copy that 6.1 makes while others push has the items that were in the  *)
(* stack at one moment, the one at which it ends.  Nothing is said of the  *)
(* copies of 3.5, which the wrong mutex protects.                          *)
CopyIsWhole ==
  \A t \in Thread :
    listing = "6.1" /\ pc[t] = "copying" /\ pc'[t] # "copying" => copied[t] = data

Abstract == INSTANCE AbstractStack WITH stack <- data, MaxPush <- MaxCalls

(* The pushes of 3.5 and 6.1 and the pops of 3.5 are atomic, and an item   *)
(* is returned once, even when a pop throws; and a copy that 6.1 makes is  *)
(* that of one moment.                                                     *)
IsAStack == Abstract!Spec /\ [][CopyIsWhole]_vars

=============================================================================
