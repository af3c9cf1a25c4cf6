-------------------------- MODULE ParallelAccumulate --------------------------
(***************************************************************************)
(* The parallel_accumulate of listing 2.8, which divides a range into      *)
(* blocks of equal size, adds up each in a thread, and the rest in the     *)
(* thread that has called it.  A sum is known by what has been added: the  *)
(* result of a block is the set of its elements, by their places in the    *)
(* range, and the total says how often it has each.                        *)
(***************************************************************************)
EXTENDS Integers, FiniteSets, FiniteSetsExt

CONSTANTS
  Lengths,         \* the lengths of the range
  Hardware,        \* what hardware_concurrency() may return
  min_per_thread,
  Unset            \* no result yet

ConstantsAssumption ==
  Lengths \subseteq Nat /\ Hardware \subseteq Nat /\ min_per_thread \in Nat \ {0}

VARIABLES
  length, hardware,
  started,   \* the threads that have been started
  results,   \* what each has added up
  total      \* what parallel_accumulate returns

vars == <<length, hardware, started, results, total>>

max_threads == (length + min_per_thread - 1) \div min_per_thread

num_threads == Min({max_threads, IF hardware # 0 THEN hardware ELSE 2})

block_size == length \div num_threads

Worker == 1 .. num_threads

(* Mutant of Block: the caller adds up one block_size, and not the rest.   *)
BlockEqual(i) == (i - 1) * block_size + 1 .. i * block_size

(* The elements of block i; the last block is that of the caller.          *)
Block(i) ==
  (i - 1) * block_size + 1 .. IF i = num_threads THEN length ELSE i * block_size

Init ==
  /\ length \in Lengths /\ hardware \in Hardware
  /\ started = 0
  /\ results = [i \in Worker |-> Unset]
  /\ total = Unset

(* The loop starts one thread after the other, and comes to the caller's   *)
(* own block.                                                              *)
StartThread ==
  /\ length # 0 /\ started < num_threads
  /\ started' = started + 1
  /\ UNCHANGED <<length, hardware, results, total>>

(* accumulate_block begins with a result of 0. *)
accumulate_block(i) ==
  /\ results[i] = Unset
  /\ results' = [results EXCEPT ![i] = Block(i)]
  /\ UNCHANGED <<length, hardware, started, total>>

(* How often each element is in the results. *)
accumulate ==
  [k \in UNION {results[i] : i \in DOMAIN results} |->
     Cardinality({i \in DOMAIN results : k \in results[i]})]

(* The joins, and std::accumulate of the results from init, which is 0 and *)
(* which is returned for an empty range.                                   *)
Return ==
  /\ total = Unset
  /\ \A i \in DOMAIN results : results[i] # Unset
  /\ total' = accumulate
  /\ UNCHANGED <<length, hardware, started, results>>

Next == StartThread \/ (\E i \in 1 .. started : accumulate_block(i)) \/ Return

Spec == Init /\ [][Next]_vars

-----------------------------------------------------------------------------

(* Every variable has a value of its type. *)
TypeOK ==
  /\ length \in Lengths /\ hardware \in Hardware
  /\ started \in 0 .. num_threads
  /\ results \in [Worker -> {Unset} \cup SUBSET (1 .. length)]
  /\ total \in {Unset} \cup [1 .. length -> Nat]

(* The blocks leave no element out and add none twice, whatever the length *)
(* and the number of processors, and every thread has been waited for: the *)
(* sum that parallel_accumulate returns is that of std::accumulate.        *)
TotalIsSum == total # Unset => total = [k \in 1 .. length |-> 1]

=============================================================================
