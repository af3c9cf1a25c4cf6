--------------------------- MODULE AtomicListings ---------------------------
(***************************************************************************)
(* The programs of chapter 5 whose threads communicate through atomic      *)
(* variables: listings 5.2, 5.4, 5.5 and 5.8 to 5.13.                      *)
(*                                                                         *)
(* A program gives each thread its code, a sequence of instructions; main  *)
(* starts the threads and joins them.  Values are ints: 0 stands for       *)
(* false, zero and the null pointer, 1 for true and for what is stored     *)
(* over them.                                                              *)
(***************************************************************************)
EXTENDS Integers, Sequences, Functions

CONSTANTS
  Items,      \* number_of_items of listing 5.11; 20 in the program
  Floor       \* bound on how far count of listing 5.11 goes down

ConstantsAssumption == Items \in Nat \ {0} /\ Floor \in Int /\ Floor < 0

Thread == {"a", "b", "c", "d"}

(* x and y are data[0] and data_ready in 5.2, *p and p in 5.10, and        *)
(* queue_data, told by its size, and count in 5.11.  z counts readers.     *)
(* data0 to data4 are the array of 5.9, and data1 is a in 5.10.            *)
Elements == {"data1", "data2", "data3", "data4"}
Location == {"x", "y", "z", "sync1", "sync2", "data0"} \cup Elements

VARIABLES
  memory, cur, acq, rel,   \* as in MemoryOrder
  program,
  pc,                      \* where each thread is in its code
  read,                    \* the value that each thread last read, by location
  taken                    \* the indices each thread of 5.11 has used, in order

vars == <<memory, cur, acq, rel, program, pc, read, taken>>

Memory == INSTANCE MemoryOrder

-----------------------------------------------------------------------------
(* The instructions.  "plain" is the order of an access to an object that  *)
(* is not atomic.                                                          *)

StoreOf(l, v, order) == [op |-> "store", at |-> l, value |-> v, order |-> order]

Store(l, order) == StoreOf(l, 1, order)

Fence(order) == [op |-> "fence", order |-> order]

(* ++l *)
Increment(l) == [op |-> "increment", at |-> l]

(* l is loaded; the thread goes on at zero if it is 0, and else at set.    *)
Branch(l, order, set, zero) ==
  [op |-> "load", at |-> l, order |-> order, set |-> set, zero |-> zero]

(* At place i: a load that decides nothing, and a wait until l is set.     *)
Show(i, l, order) == Branch(l, order, i + 1, i + 1)
Await(i, l, order) == Branch(l, order, i + 1, i)

(* At places i and i + 1: if (l.load(order)) ++z                           *)
CountIf(i, l, order) == <<Branch(l, order, i + 1, i + 2), Increment("z")>>

FetchSub(l, order) == [op |-> "fetch_sub", at |-> l, order |-> order]

(* The element of l before the index in counter is printed.                *)
Element(l, counter) == [op |-> "element", at |-> l, counter |-> counter]

-----------------------------------------------------------------------------
(* The programs. *)

None == <<>>

(* 5.2 *)
reader_thread == <<Await(1, "y", "seq_cst"), Show(2, "x", "plain")>>

writer_thread == <<Store("x", "plain"), Store("y", "seq_cst")>>

SyncWithAtomics == [a |-> reader_thread, b |-> writer_thread, c |-> None, d |-> None]

(* 5.4: read_y_then_x looks at z, not at x. *)
SequentialConsistency ==
  [a |-> <<Store("x", "seq_cst")>>,
   b |-> <<Store("y", "seq_cst")>>,
   c |-> <<Await(1, "x", "seq_cst")>> \o CountIf(2, "y", "seq_cst"),
   d |-> <<Await(1, "y", "seq_cst")>> \o CountIf(2, "z", "seq_cst")]

(* 5.5 *)
RelaxedMode ==
  [a |-> <<Store("x", "relaxed"), Store("y", "relaxed")>>,
   b |-> <<Await(1, "y", "relaxed")>> \o CountIf(2, "x", "relaxed"),
   c |-> None, d |-> None]

(* 5.8 *)
AcquireRelease ==
  [a |-> <<Store("x", "relaxed"), Store("y", "release")>>,
   b |-> <<Await(1, "y", "acquire")>> \o CountIf(2, "x", "relaxed"),
   c |-> None, d |-> None]

(* 5.9 *)
thread_1 ==
  <<Store("data0", "relaxed"), Store("data1", "relaxed"), Store("data2", "relaxed"),
    Store("data3", "relaxed"), Store("data4", "relaxed"), Store("sync1", "release")>>

(* Mutant of thread_2: the two flags change places. *)
thread_2_swapped == <<Store("sync2", "release"), Await(2, "sync1", "acquire")>>

thread_2 == <<Await(1, "sync1", "acquire"), Store("sync2", "release")>>

(* The while has no semicolon: the print of data[0] is its body. *)
thread_3 ==
  <<Branch("sync2", "acquire", 3, 2), Branch("data0", "relaxed", 1, 1),
    Show(3, "data1", "relaxed"), Show(4, "data2", "relaxed"),
    Show(5, "data3", "relaxed"), Show(6, "data4", "relaxed")>>

TransitiveSync == [a |-> thread_1, b |-> thread_2, c |-> thread_3, d |-> None]

(* 5.10: the pointer is stored with relaxed order. *)
MemoryConsume ==
  [a |-> <<Store("x", "plain"), Store("data1", "relaxed"), Store("y", "relaxed")>>,
   b |-> <<Await(1, "y", "consume"), Show(2, "x", "plain"), Show(3, "data1", "relaxed")>>,
   c |-> None, d |-> None]

(* 5.11, with the two consumers of bad().  The consumer that prints        *)
(* element 0 ends.                                                         *)
populate_queue == <<StoreOf("x", Items, "plain"), StoreOf("y", Items, "release")>>

consume_queue_items == <<FetchSub("y", "acquire"), Element("x", "y")>>

ReadQueue ==
  [a |-> populate_queue, b |-> consume_queue_items, c |-> consume_queue_items, d |-> None]

(* 5.12: the fence of the writer is relaxed. *)
Barriers ==
  [a |-> <<Store("x", "relaxed"), Fence("relaxed"), Store("y", "relaxed")>>,
   b |-> <<Await(1, "y", "relaxed"), Fence("acquire")>> \o CountIf(3, "x", "relaxed"),
   c |-> None, d |-> None]

(* Mutant of SyncNonatomics: the fence of the reader stands before its     *)
(* loop.                                                                   *)
SyncNonatomicsEarlyFence ==
  [a |-> <<Store("x", "plain"), Fence("release"), Store("y", "relaxed")>>,
   b |-> <<Fence("acquire"), Await(2, "y", "relaxed")>> \o CountIf(3, "x", "plain"),
   c |-> None, d |-> None]

(* 5.13 *)
SyncNonatomics ==
  [a |-> <<Store("x", "plain"), Fence("release"), Store("y", "relaxed")>>,
   b |-> <<Await(1, "y", "relaxed"), Fence("acquire")>> \o CountIf(3, "x", "plain"),
   c |-> None, d |-> None]

Code ==
  [sync_with_atomics |-> SyncWithAtomics, sequential_consistency |-> SequentialConsistency,
   relaxed_mode |-> RelaxedMode, acquire_release |-> AcquireRelease,
   transitive_sync |-> TransitiveSync, memory_consume |-> MemoryConsume,
   read_queue |-> ReadQueue, barriers |-> Barriers, sync_nonatomics |-> SyncNonatomics]

-----------------------------------------------------------------------------
(* Their execution. *)

Ended(t) == pc[t] > Len(Code[program][t])

Init ==
  /\ Memory!MemoryInit([l \in Location |-> 0])
  /\ program \in DOMAIN Code
  /\ pc = [t \in Thread |-> 1]
  /\ read = [t \in Thread |-> [l \in Location |-> 0]]
  /\ taken = [t \in Thread |-> <<>>]

(* The next instruction of t. *)
At(t) == Code[program][t][pc[t]]

IsAt(t, op) == ~Ended(t) /\ At(t).op = op

GoTo(t, place) == pc' = [pc EXCEPT ![t] = place]

DoStore(t) ==
  /\ IsAt(t, "store")
  /\ Memory!Store(t, At(t).at, At(t).value, At(t).order)
  /\ GoTo(t, pc[t] + 1)
  /\ UNCHANGED <<program, read, taken>>

DoFence(t) ==
  /\ IsAt(t, "fence")
  /\ Memory!Fence(t, At(t).order)
  /\ GoTo(t, pc[t] + 1)
  /\ UNCHANGED <<program, read, taken>>

DoLoad(t) ==
  /\ IsAt(t, "load")
  /\ \E m \in Memory!Readable(t, At(t).at, At(t).order) :
       LET v == Memory!Value(At(t).at, m)
       IN /\ Memory!Load(t, At(t).at, m, At(t).order)
          /\ read' = [read EXCEPT ![t][At(t).at] = v]
          /\ GoTo(t, IF v = 0 THEN At(t).zero ELSE At(t).set)
  /\ UNCHANGED <<program, taken>>

DoIncrement(t) ==
  /\ IsAt(t, "increment")
  /\ Memory!ReadModifyWrite(t, At(t).at,
       Memory!Value(At(t).at, Memory!Newest(At(t).at)) + 1, "seq_cst")
  /\ GoTo(t, pc[t] + 1)
  /\ UNCHANGED <<program, read, taken>>

(* Mutant of DoFetchSub: a load and a store, which others come between. *)
DoFetchSubTorn(t) ==
  /\ IsAt(t, "fetch_sub")
  /\ \E m \in Memory!Readable(t, At(t).at, "relaxed") :
       LET v == Memory!Value(At(t).at, m)
       IN /\ v > Floor
          /\ Memory!ReadModifyWrite(t, At(t).at, v - 1, At(t).order)
          /\ read' = [read EXCEPT ![t][At(t).at] = v]
          /\ GoTo(t, IF v <= 0 THEN pc[t] ELSE pc[t] + 1)
  /\ UNCHANGED <<program, taken>>

(* Mutant of DoFetchSub: a counter that has come to zero still gives an    *)
(* index.                                                                  *)
DoFetchSubAtZero(t) ==
  LET v == Memory!Value(At(t).at, Memory!Newest(At(t).at))
  IN /\ IsAt(t, "fetch_sub")
     /\ v > Floor
     /\ Memory!ReadModifyWrite(t, At(t).at, v - 1, At(t).order)
     /\ read' = [read EXCEPT ![t][At(t).at] = v]
     /\ GoTo(t, IF v < 0 THEN pc[t] ELSE pc[t] + 1)
     /\ UNCHANGED <<program, taken>>

(* The index is what the counter held; the thread goes on when it is       *)
(* positive.                                                               *)
DoFetchSub(t) ==
  LET v == Memory!Value(At(t).at, Memory!Newest(At(t).at))
  IN /\ IsAt(t, "fetch_sub")
     /\ v > Floor
     /\ Memory!ReadModifyWrite(t, At(t).at, v - 1, At(t).order)
     /\ read' = [read EXCEPT ![t][At(t).at] = v]
     /\ GoTo(t, IF v <= 0 THEN pc[t] ELSE pc[t] + 1)
     /\ UNCHANGED <<program, taken>>

(* Element n of the vector is n; the thread ends at element 0 and starts   *)
(* again at any other.                                                     *)
DoElement(t) ==
  LET index == read[t][At(t).counter] - 1
  IN /\ IsAt(t, "element")
     /\ \E m \in Memory!Readable(t, At(t).at, "plain") :
          /\ Memory!Load(t, At(t).at, m, "plain")
          /\ read' = [read EXCEPT ![t][At(t).at] = Memory!Value(At(t).at, m)]
     /\ taken' = [taken EXCEPT ![t] = Append(@, index)]
     /\ GoTo(t, IF index = 0 THEN pc[t] + 1 ELSE 1)
     /\ UNCHANGED program

Next ==
  \E t \in Thread :
    DoStore(t) \/ DoFence(t) \/ DoLoad(t) \/ DoIncrement(t) \/ DoFetchSub(t) \/ DoElement(t)

Spec == Init /\ [][Next]_vars

-----------------------------------------------------------------------------

(* z of 5.4 counts up to two. *)
Values == (Floor .. Items) \cup 0 .. 2

(* Every variable has a value of its type, and no view is ahead of the     *)
(* memory.                                                                 *)
TypeOK ==
  /\ Memory!MemoryTypeOK(Values)
  /\ program \in DOMAIN Code
  /\ pc \in [Thread -> Nat]
  /\ \A t \in Thread : pc[t] \in 1 .. Len(Code[program][t]) + 1
  /\ read \in [Thread -> [Location -> Values]]
  /\ taken \in [Thread -> Seq(0 .. Items - 1)]

(* The programs whose orders and fences carry the data over.  In 5.5, 5.10 *)
(* and 5.12 nothing does, and 5.4 has no data.                             *)
Synchronized ==
  {"sync_with_atomics", "acquire_release", "transitive_sync", "read_queue", "sync_nonatomics"}

(* The locations that t reads for their data. *)
DataOf(t) ==
  LET code == Code[program][t]
  IN {code[i].at : i \in {j \in DOMAIN code : code[j].op \in {"load", "element"}}}
       \cap ({"x"} \cup Elements)

(* Whoever has come through its wait finds what was written before the     *)
(* flag was set, in 5.9 by a thread that it never waited for; data[0] of   *)
(* 5.9 is read in the wait itself.                                         *)
ReadersSeeData ==
  program \in Synchronized =>
    \A t \in Thread : Ended(t) => \A l \in DataOf(t) : read[t][l] # 0

(* An access to an object that is not atomic comes after all writes to it: *)
(* its thread can see nothing older.  In 5.11 the fetch_subs of others     *)
(* pass the release of populate_queue on.                                  *)
NoDataRace ==
  program \in Synchronized =>
    \A t \in Thread :
      (~Ended(t) /\ At(t).op \in {"store", "load"} /\ At(t).order = "plain")
      \/ IsAt(t, "element")
        => cur[t][At(t).at] = Memory!Newest(At(t).at)

(* The indices that t has used or is about to use. *)
Held(t) ==
  Range(taken[t]) \cup (IF IsAt(t, "element") THEN {read[t][At(t).counter] - 1} ELSE {})

(* The indices taken so far in 5.11 are the highest ones, each by one      *)
(* consumer, once; a consumer that ends leaves nothing in the queue.       *)
ItemsTakenOnce ==
  LET all == UNION {Held(t) : t \in Thread}
  IN /\ \A i \in all : i \in 0 .. Items - 1 /\ i .. Items - 1 \subseteq all
     /\ \A t, u \in Thread : t # u => Held(t) \cap Held(u) = {}
     /\ \A t \in Thread : IsInjective(taken[t])
     /\ program = "read_queue" /\ (Ended("b") \/ Ended("c")) => all = 0 .. Items - 1

=============================================================================
