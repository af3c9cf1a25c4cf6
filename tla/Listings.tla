-------------------------------- MODULE Listings --------------------------------
(***************************************************************************)
(* The programs without a container: all programs of BlockingListings and  *)
(* AtomicListings, the mutex of SpinlockMutex, the quicksorts and          *)
(* parallel_accumulate.  A behaviour is one of the module that is chosen   *)
(* first, and the variables of the others stay as they are.                *)
(***************************************************************************)
EXTENDS BlockingOutline

CONSTANTS
  Items, Floor, Locker, MaxCalls, Inputs, Lengths, Hardware, min_per_thread, Unset

VARIABLES
  chosen,
  memory, cur, acq, rel, atomicProgram, atomicPc, read, indices,
  spinFlag, carried, version, seen, calls, spinPc,
  listing, input, list, open,
  length, hardware, threads, results, total

Atomic ==
  INSTANCE AtomicOutline WITH program <- atomicProgram, pc <- atomicPc, taken <- indices

Spinlock == INSTANCE SpinlockMutex WITH flag <- spinFlag, pc <- spinPc

Sort == INSTANCE QuickSort

Sum == INSTANCE ParallelAccumulate WITH started <- threads

ASSUME ListingsAssumption ==
  /\ ConstantsAssumption /\ Atomic!ConstantsAssumption
  /\ Spinlock!ConstantsAssumption /\ Sort!ConstantsAssumption /\ Sum!ConstantsAssumption

atomic == <<memory, cur, acq, rel, atomicProgram, atomicPc, read, indices>>
spinlock == <<spinFlag, carried, version, seen, calls, spinPc>>
sort == <<listing, input, list, open>>
sum == <<length, hardware, threads, results, total>>
listings == <<chosen, vars, atomic, spinlock, sort, sum>>

ListingsInit ==
  /\ chosen \in {"blocking", "atomic", "spinlock", "sort", "sum"}
  /\ Init /\ (chosen # "blocking" => program = "future")
  /\ Atomic!Init /\ (chosen # "atomic" => atomicProgram = "read_queue")
  /\ Spinlock!Init
  /\ Sort!Init /\ (chosen # "sort" => listing = "4.12" /\ input = <<>>)
  /\ Sum!Init /\ (chosen # "sum" => length = 0 /\ hardware = 0)

BlockingStep ==
  chosen = "blocking" /\ Next /\ UNCHANGED <<chosen, atomic, spinlock, sort, sum>>

AtomicStep ==
  chosen = "atomic" /\ Atomic!Next /\ UNCHANGED <<chosen, vars, spinlock, sort, sum>>

SpinlockStep ==
  chosen = "spinlock" /\ Spinlock!Next /\ UNCHANGED <<chosen, vars, atomic, sort, sum>>

SortStep ==
  chosen = "sort" /\ Sort!Next /\ UNCHANGED <<chosen, vars, atomic, spinlock, sum>>

SumStep ==
  chosen = "sum" /\ Sum!Next /\ UNCHANGED <<chosen, vars, atomic, spinlock, sort>>

ListingsNext == BlockingStep \/ AtomicStep \/ SpinlockStep \/ SortStep \/ SumStep

(* The fairness of BlockingListings. *)
ThreadStep(t) ==
  /\ chosen = "blocking" /\ ~Ended("main") /\ Step(t)
  /\ UNCHANGED <<chosen, atomic, spinlock, sort, sum>>

ListingsSpec ==
  /\ ListingsInit /\ [][ListingsNext]_listings
  /\ \A t \in Thread : WF_listings(ThreadStep(t))

-----------------------------------------------------------------------------
(* NoUseAfterScope is the one of BlockingListings. *)

(* Every variable of every part has a value of its type.  An index taken   *)
(* in 5.11 is one of an element, no view is ahead of the memory, and a     *)
(* mutex has an owner exactly while it is held, never one that sleeps.     *)
ListingsTypeOK ==
  /\ chosen \in {"blocking", "atomic", "spinlock", "sort", "sum"}
  /\ TypeOK /\ Atomic!TypeOK /\ Spinlock!TypeOK /\ Sort!TypeOK /\ Sum!TypeOK

(* A critical section of the spinlock sees what every earlier one wrote.   *)
SectionsOrdered == Spinlock!SectionsOrdered

(* Readers of 5.2, 5.8, 5.9, 5.11 and 5.13 see what was written before the *)
(* flag was set.  In 5.5, 5.10 and 5.12 the orders promise no such thing,  *)
(* and 5.4 hands no data over: ReadersSeeData of AtomicListings says       *)
(* nothing of these four.                                                  *)
ReadersSeeData == Atomic!ReadersSeeData

(* Plain data are never accessed by two threads that nothing orders, in    *)
(* the listings of chapters 1 to 4 and in those of chapter 5 whose orders  *)
(* carry the data over.  5.10 is not among these: its x->i and x->s do     *)
(* race, as the pointer is published with memory_order_relaxed.  3.2 has   *)
(* no thread but main, and what its user leaks can race with nobody.       *)
NothingRaces == NoDataRace /\ Atomic!NoDataRace

(* What is there once is done once: an element of the vector of 5.11 is    *)
(* taken by one consumer, a number of 4.1.1, 4.4 and 4.5 in its turn, and  *)
(* what call_once initialises is used by nobody who has not come past the  *)
(* call.                                                                   *)
DoneOnce == InitialisedOnce /\ NumbersProcessed /\ Atomic!ItemsTakenOnce

(* The main of every listing of chapters 1 to 4 returns. *)
ListingsReturn == chosen = "blocking" => MainReturns

(* Dividing the work among threads gives what one thread would have.       *)
ResultsAreSequential == Sort!ResultIsSorted /\ Sum!TotalIsSum

=============================================================================
