------------------------------ MODULE Containers ------------------------------
(***************************************************************************)
(* The containers of chapters 3 and 6 that are no queues under locks:      *)
(* ThreadsafeList, LookupTable, ThreadsafeStack and BaseQueue.  No program *)
(* uses two of them together: a behaviour is one of the container that is  *)
(* chosen first, and the others stay in their initial states.              *)
(***************************************************************************)
EXTENDS Naturals, Sequences, FiniteSets

CONSTANTS
  Pusher, Visitor, Finder, Remover, Node, HeadNode, Null, NoThread, ListCalls, Matching,
  Caller, Key, Value, Bucket, hasher, MaxCalls, NoValue, StackCalls,
  User, QueueNode, Wild, Nothing, QueuePushes

VARIABLES
  container,
  next, data, owner, alive, pc, calls, current, nxt, height, present, passed, found,
  tableData, readers, writer, tablePc, tableCalls, key, value, found_entry, answer,
  listing, stackData, m, stackPc, stackCalls, sent, result, copied,
  version, head, tail, queueNext, queueData, queueAlive, order, queueSent, queueResult,
  shown, broken

List == INSTANCE ThreadsafeList WITH MaxCalls <- ListCalls

Table ==
  INSTANCE LookupTable WITH Thread <- Caller, data <- tableData, pc <- tablePc,
                            calls <- tableCalls

Stack ==
  INSTANCE ThreadsafeStack WITH Thread <- Caller, data <- stackData, owner <- m, pc <- stackPc,
                                calls <- stackCalls, MaxCalls <- StackCalls

Queue ==
  INSTANCE BaseQueue WITH listing <- version, next <- queueNext, data <- queueData,
                          alive <- queueAlive, sent <- queueSent, result <- queueResult,
                          MaxPush <- QueuePushes, Node <- QueueNode

ASSUME ConstantsAssumption ==
  /\ List!ConstantsAssumption /\ Table!ConstantsAssumption
  /\ Stack!ConstantsAssumption /\ Queue!ConstantsAssumption

list == <<next, data, owner, alive, pc, calls, current, nxt, height, present, passed, found>>
table == <<tableData, readers, writer, tablePc, tableCalls, key, value, found_entry, answer>>
stack == <<listing, stackData, m, stackPc, stackCalls, sent, result, copied>>
queue ==
  <<version, head, tail, queueNext, queueData, queueAlive, order, queueSent, queueResult, shown,
    broken>>
vars == <<container, list, table, stack, queue>>

Init ==
  /\ container \in {"list", "table", "stack", "queue"}
  /\ List!Init /\ Table!Init /\ Stack!Init /\ Queue!Init
  /\ container # "stack" => listing = "6.1"
  /\ container # "queue" => version = "6.4" /\ tail = Null

Next ==
  \/ container = "list" /\ List!Next /\ UNCHANGED <<container, table, stack, queue>>
  \/ container = "table" /\ Table!Next /\ UNCHANGED <<container, list, stack, queue>>
  \/ container = "stack" /\ Stack!Next /\ UNCHANGED <<container, list, table, queue>>
  \/ container = "queue" /\ Queue!Next /\ UNCHANGED <<container, list, table, stack>>

Spec == Init /\ [][Next]_vars

-----------------------------------------------------------------------------

(* Every variable of every container has a value of its type: the          *)
(* conjuncts of the four modules name each of their variables.             *)
TypeOK ==
  /\ container \in {"list", "table", "stack", "queue"}
  /\ List!TypeOK /\ Table!TypeOK /\ Stack!TypeOK /\ Queue!TypeOK

(* Walks over the list use no deleted node and none leaks; the queues of   *)
(* 6.4 and 6.5 use what is no node only when they are empty.               *)
NoDanglingUse == List!NoDanglingUse /\ Queue!OnlyEmptyMisused

(* A walk over the list passes what stays in it once and leaves none out.  *)
WalkMissesNothing == List!WalkMissesNothing

(* Walks never wait for one another in a circle. *)
NoDeadlock == List!NoDeadlock

(* Every operation of the lookup table acts on one map at one moment. *)
IsAMap == Table!IsAMap

(* The pushes of both listings of the stack and the pops of 3.5 are        *)
(* atomic, and a copy that 6.1 makes is that of one moment.  The pops of   *)
(* 6.1 do not compile, and the copies of 3.5, made under the wrong mutex,  *)
(* are excepted.                                                           *)
IsAStack == Stack!IsAStack

(* The queues without locks are queues for the one thread that uses them.  *)
IsAQueue == Queue!IsAQueue

=============================================================================
