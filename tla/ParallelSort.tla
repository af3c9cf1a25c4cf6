----------------------------- MODULE ParallelSort -----------------------------
(***************************************************************************)
(* The parallel quicksort of listing 8.1.  A list is known here by its     *)
(* length: partition may divide it anywhere.  Each thread has a stack of   *)
(* calls of do_sort; a call pushes its lower part as a chunk, sorts its    *)
(* higher part by a call of its own, and then sorts chunks of anybody      *)
(* until the future of its lower part is ready.                            *)
(***************************************************************************)
EXTENDS Integers, Sequences, SequencesExt, FiniteSets

CONSTANTS
  Main,              \* the thread that calls parallel_quick_sort
  Helper,            \* threads that std::thread may create
  Length,            \* the length of the input, not 0
  max_thread_count

Thread == Helper \cup {Main}

(* The promise of new_lower_chunk in the call of thread t at depth d, and  *)
(* a promise that nobody has a future of.                                  *)
Promise(t, d) == <<t, d>>
NoFuture == <<>>

VARIABLES
  calls,        \* the calls of do_sort of each thread, the innermost last
  chunks,       \* the stack of chunks, its top first
  ready,        \* promises of new_lower_chunk that have their value
  threads,      \* helpers in the vector
  running,      \* threads that have not returned
  end_of_data

vars == <<calls, chunks, ready, threads, running, end_of_data>>

(* A call do_sort(chunk_data) whose result goes to a promise. *)
do_sort(length, promise) == [at |-> "beginning", data |-> length, for |-> promise]

Init ==
  /\ calls = [t \in Thread |-> IF t = Main THEN <<do_sort(Length, NoFuture)>> ELSE <<>>]
  /\ chunks = <<>>
  /\ ready = {}
  /\ threads = {}
  /\ running = {Main}
  /\ end_of_data = FALSE

Depth(t) == Len(calls[t])
Own(t) == Promise(t, Depth(t))

At(t, place) == calls[t] # <<>> /\ Last(calls[t]).at = place

Goto(t, place) == calls' = [calls EXCEPT ![t][Depth(t)].at = place]

(* The copy constructor of chunk_to_sort, which leaves promises to its     *)
(* default constructor.                                                    *)
CopyChunk(chunk) == [data |-> chunk.data, promises |-> NoFuture]

-----------------------------------------------------------------------------

(* partition, get_future, and chunks.push(move(new_lower_chunk)): a class  *)
(* with a copy constructor of its own has no move constructor, and push    *)
(* takes its argument by value and copies it once more.                    *)
Split(t) ==
  /\ At(t, "beginning")
  /\ \E lower \in 0 .. Last(calls[t]).data - 1 :
       /\ chunks' = <<CopyChunk([data |-> lower, promises |-> Own(t)])>> \o chunks
       /\ calls' = [calls EXCEPT ![t][Depth(t)] =
                      [@ EXCEPT !.at = "counting", !.data = @ - 1 - lower]]
  /\ ready' = ready \ {Own(t)}
  /\ UNCHANGED <<threads, running, end_of_data>>

(* threads.size() < max_thread_count *)
CheckThreads(t) ==
  /\ At(t, "counting")
  /\ Goto(t, IF Cardinality(threads) < max_thread_count THEN "creating" ELSE "recursing")
  /\ UNCHANGED <<chunks, ready, threads, running, end_of_data>>

(* threads.push_back(thread(&sort_thread)); the vector has no lock, and    *)
(* another thread may have passed the same check.                          *)
PushThread(t) ==
  /\ At(t, "creating")
  /\ \E h \in Helper \ threads : threads' = threads \cup {h} /\ running' = running \cup {h}
  /\ Goto(t, "recursing")
  /\ UNCHANGED <<chunks, ready, end_of_data>>

(* do_sort(chunk_data) for the higher part *)
SortHigher(t) ==
  /\ At(t, "recursing")
  /\ calls' = [calls EXCEPT ![t] =
                 Append([@ EXCEPT ![Depth(t)].at = "waiting"],
                        do_sort(Last(@).data, NoFuture))]
  /\ UNCHANGED <<chunks, ready, threads, running, end_of_data>>

(* new_lower.wait_for(0) *)
Poll(t) ==
  /\ At(t, "waiting")
  /\ Goto(t, IF Own(t) \in ready THEN "returning" ELSE "helping")
  /\ UNCHANGED <<chunks, ready, threads, running, end_of_data>>

(* do_sort returns, at once from an empty list; sort_chunk then sets the   *)
(* value of the chunk's promise.                                           *)
Return(t) ==
  /\ At(t, "returning") \/ (At(t, "beginning") /\ Last(calls[t]).data = 0)
  /\ calls' = [calls EXCEPT ![t] = Front(@)]
  /\ ready' = ready \cup ({Last(calls[t]).for} \ {NoFuture})
  /\ UNCHANGED <<chunks, threads, running, end_of_data>>

(* sort_thread asks for a chunk whenever it is in no call. *)
Helping(t) ==
  \/ At(t, "helping")
  \/ t # Main /\ t \in running /\ calls[t] = <<>> /\ ~end_of_data

Waiting(t) ==
  IF calls[t] = <<>> THEN <<>> ELSE [calls[t] EXCEPT ![Depth(t)].at = "waiting"]

(* try_sort_chunk; make_shared copies the top chunk. *)
try_sort_chunk(t) ==
  /\ Helping(t)
  /\ IF chunks = <<>>
       THEN calls' = [calls EXCEPT ![t] = Waiting(t)] /\ UNCHANGED chunks
       ELSE LET chunk == CopyChunk(Head(chunks)) IN
            /\ calls' = [calls EXCEPT ![t] =
                           Append(Waiting(t), do_sort(chunk.data, chunk.promises))]
            /\ chunks' = Tail(chunks)
  /\ UNCHANGED <<ready, threads, running, end_of_data>>

(* ~sorter, and the end of the helpers that it joins *)
EndData(t) ==
  /\ t = Main /\ calls[t] = <<>> /\ ~end_of_data
  /\ end_of_data' = TRUE
  /\ UNCHANGED <<calls, chunks, ready, threads, running>>

EndThread(t) ==
  /\ t \in running /\ calls[t] = <<>> /\ end_of_data
  /\ t = Main => running \cap threads = {}
  /\ running' = running \ {t}
  /\ UNCHANGED <<calls, chunks, ready, threads, end_of_data>>

Step(t) ==
  \/ Split(t) \/ CheckThreads(t) \/ PushThread(t) \/ SortHigher(t) \/ Poll(t) \/ Return(t)
  \/ try_sort_chunk(t) \/ EndData(t) \/ EndThread(t)

Next == \E t \in Thread : Step(t)

(* Every thread that can go on does so. *)
Spec == Init /\ [][Next]_vars /\ \A t \in Thread : WF_vars(Step(t))

-----------------------------------------------------------------------------

(* parallel_quick_sort returns. *)
SortReturns == <>(Main \notin running)

=============================================================================
