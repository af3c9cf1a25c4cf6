# Verification of cpluplus_multithreading

The repository is a set of small C++ programs, one per directory of `src/`,
that follow the listings of a book on concurrency: locks, threads, condition
variables, futures, memory orders, and data structures with locks and without.
Each program is a `main.cpp` of its own with the class or the listing and a
`main()` that exercises it; nothing is shared between programs but the ideas.
The interesting part is what several threads do to one object at once, and a
`main()` reaches only a few of those interleavings. The modules here model the
objects statement by statement wherever another thread can come in between,
TLC checks them on small instances, and TLAPS proves the central theorems for
every number of threads, items and calls.

Contents: 1 inventory, 2 modules and the code they model, 3 runs, 4 fairness,
5 proofs, 6 disagreements between code and intention, 7 what is not modelled,
8 plan.

## 1. Inventory

"Calls" below are the operations that threads call on one shared object; there
are no messages between programs.

| component | state | operations | what is hard | what makes it correct |
|---|---|---|---|---|
| `3.8.hierarchical_mutex` | `internal_mutex`, saved level per mutex, thread-local level | `lock`, `try_lock`, `unlock` | the saved level is written by whoever holds the mutex; deadlock | the thread-local level is the lowest held; locks descend; no deadlock |
| `4.4`, `4.5`, `6.2`, `6.3` threadsafe_queue | `std::queue`, mutex, condition variable | `push`, `wait_and_pop`, `try_pop`; in 4.4 and 4.5 a `main` that feeds a consumer | wake-up against lock, spurious wake-ups, exceptions in a pop | a FIFO queue; no item left beside a sleeper |
| `6.7-10` queue with two mutexes | list with a dummy node, `head_mutex`, `tail_mutex`, condition variable | `push`, `try_pop`, `wait_and_pop` | both ends may be at one node; notification without the mutex | each node has one owner; a FIFO queue; a waiter is served |
| `7.13` lock_free_queue | list with a dummy node, atomic `head` and `tail` | `push` (one thread), `pop` (one thread) | plain members read by the other thread; deletes | no race, no dangling use, no leak; a FIFO queue |
| `7.3` lock_free_stack | list with atomic `head` | `push`, `pop` | stale `head` and stale `next` in a compare_exchange_weak | linked list intact; a LIFO stack |
| `7.4` lock_free_stack freeing nodes | as 7.3, `threads_in_pop`, `to_be_deleted` | `push`, `pop`, `try_reclaim`, `chain_pending_nodes`, `delete_nodes` | node deleted while another pop looks at it; address used again | only null is ever misused; each node is in one place; a LIFO stack |
| `5.1`, `7.1` spinlock_mutex | `atomic_flag` | `lock`, `unlock` | memory order, starvation | mutual exclusion; sections see each other's writes |
| `5.2`, `5.4`, `5.5`, `5.8`-`5.13` | atomics and plain data of each listing | the threads of each listing | memory orders | readers see the data; plain data are not raced on |
| `6.13` threadsafe_list | list with a mutex in each node | `push_front`, `for_each`, `find_first_if`, `remove_if` | hand-over-hand walks meeting deletion and insertion | no dangling use; a walk visits all that stays; no deadlock |
| `6.11-12` lookup table | buckets under shared mutexes | `value_for`, `add_or_update_mapping`, `remove_mapping` | an iterator is found in one step and used in another | an atomic map |
| `6.4`, `6.5`, `6.6` base queues | list without lock, or with two | `push`, `try_pop` | `tail` left behind when the list empties | a FIFO queue |
| `7.6` hazard pointers | list, hazard slots, list of nodes to reclaim | `push`, `pop`, a thread's first pop and its end | slot set after the pointer was read; who gets a slot | no node is used after its delete; a LIFO stack |
| `7.10` reference counts | list, external and internal counts | `push`, `pop` | two counts changed apart | a node is deleted once, after its last use |
| `8.1` parallel quicksort | stack of chunks, promises, threads | `do_sort`, `try_sort_chunk`, `sort_thread` | a promise that no one keeps | the call returns |
| `3.5`, `6.1` threadsafe_stack | `std::stack`, mutex | `push`, `pop`, `empty`, copy | a copy under the wrong mutex; exceptions in a pop | a LIFO stack; a copy is that of one moment |
| `3.6`, `3.9`, `3.9.1`, `3.10`, `3.10.1` | objects with a mutex each | swap, comparison, a lock that is returned | locks in opposite orders; a mutex that goes before its lock | no deadlock; no race |
| `3.1`, `3.2`, `3.11`, `3.11.1`, `3.13` | data under one mutex, a once flag | access, `call_once` | data handed out past the lock | mutual exclusion, one initialisation |
| `1.1`, `2.1`-`2.3`, `2.5`-`2.7` | thread objects, locals they refer to | start, join, detach | a detached thread outlives a local | no use after the scope |
| `2.8` parallel_accumulate | blocks and partial sums | `parallel_accumulate` | block boundaries | the sum |
| `4.1.1`, `4.11` | a flag or queue and a condition variable | wait, notify, timeout | wake-ups that come early, late or for nothing | all data are processed, in order, and the thread ends |
| `4.6`-`4.10` | futures, promises, queue of tasks | `async`, `packaged_task`, `post_task_for_gui_thread` | task queue between two threads | who waits gets the value; tasks finish |
| `4.12`, `4.13` quicksort | lists | `sequential_quick_sort`, `parallel_quick_sort` | splices | sorted permutation |
| `2.4`, `3.14`, `5.1.1`, `5.3`, `A.5`, `7.9` | none that is shared (7.9 is under `#if 0`) | | | |

The hazards of this code, each with its line and the properties that would
catch it, are listed in `PROJECT.json` under `hazards`. A hazard in a case which
the properties except has no property there, and a note says why.

## 2. Modules and the code they model

| module | models | role |
|---|---|---|
| `HierarchicalMutex` | 3.8 | `Call`/`lock`/`try_lock`/`unlock`, the client of `main()` |
| `AbstractQueue` | - | what a queue promises: each push appends, each pop takes the front or answers that there is none |
| `ThreadsafeQueue` | 4.4, 4.5, 6.2, 6.3 | refines `AbstractQueue` |
| `FineGrainedQueue` | 6.7-10 | refines `AbstractQueue` |
| `SpscQueue` | 7.13 | refines `AbstractQueue` |
| `AbstractStack` | - | what a stack promises |
| `LockFreeStack` | 7.3 | refines `AbstractStack` |
| `LockFreeStackReclaim` | 7.4 | uses the push and the loop of `LockFreeStack`; refines `AbstractStack` |
| `HazardPointers` | 7.6 | as `LockFreeStackReclaim` |
| `ReferenceCounts` | 7.10 | as `LockFreeStackReclaim` |
| `ThreadsafeStack` | 3.5, 6.1 | refines `AbstractStack` |
| `SpinlockMutex` | 5.1, 7.1 | |
| `MemoryOrder` | the C++ memory orders (external) | used by `AtomicListings` |
| `AtomicListings` | 5.2, 5.4, 5.5, 5.8-5.13 | each program as data: the instructions of its threads |
| `ThreadsafeList` | 6.13 | |
| `AbstractMap` | - | what a lookup table promises: look-ups, updates and removals take effect one at a time |
| `LookupTable` | 6.11-12 | refines `AbstractMap` |
| `BaseQueue` | 6.4, 6.5, 6.6 | refines `AbstractQueue` |
| `ParallelSort` | 8.1 | |
| `ParallelAccumulate` | 2.8 | |
| `QuickSort` | 4.12, 4.13 | |
| `BlockingListings` | 1.1, 2.1-2.3, 2.5-2.7, 3.1, 3.2, 3.6, 3.9-3.11.1, 3.13, 4.1.1, 4.4, 4.5, 4.6-4.11 | each program as data: the instructions of its threads |
| `ReclaimingStacks` | - | `LockFreeStackReclaim`, `HazardPointers` and `ReferenceCounts` side by side |
| `Containers` | - | `ThreadsafeList`, `LookupTable`, `ThreadsafeStack` and `BaseQueue` side by side |
| `BlockingOutline`, `AtomicOutline` | - | what holds at each place of the programs of `BlockingListings` and `AtomicListings`, for the proofs |
| `Listings` | - | `BlockingListings`, `AtomicListings`, `SpinlockMutex`, `QuickSort` and `ParallelAccumulate` side by side |
| the `MC...` | - | values of the constants of one module for TLC |
| `...Proofs` | - | theorems about the module of that name |

The modules that stand side by side in one instance share no state: a behaviour
is one of the module that `program`, `container` or `chosen` names from the
start, and the variables of the others keep their initial values. So each
property of such an instance is one of each of its modules, and names which.

**HierarchicalMutex.** `owner`, `previous` and `threadLevel` are
`internal_mutex`, `previous_hierarchical_value` and the thread-local
`this_thread_hierarchical_value`. `lock()` is three steps, because a thread may
be stopped between its check, the lock of `internal_mutex` and the update of
the level; `unlock()` is two, in the order of the code: restore the level,
then release. The client is that of `main()`, which unlocks the lowest mutex
first (scopes of `lock_guard`), and catches `logic_error`.

**ThreadsafeQueue.** One mutex `mut`, `queue`, and the condition variable as
the set of threads whose `pc` is `"sleeping"`. `notify_one` wakes any one of
them, or none if there is none. A pop reads the front (`front`) and then
removes it, with the mutex held; in between the copy of the item may throw
(listings 4.4 to 6.2, where `make_shared` runs under the lock), which is
counted in `thrown`. With `thrown = 0` it is listing 6.3. `ReadIsFront` in the
proofs says that nobody gets between the two.

**FineGrainedQueue.** Nodes are addresses that are used again after a delete.
A push allocates before it takes `tail_mutex`, fills the dummy, stores `tail`,
unlocks, and notifies without a mutex. `wait_and_pop` takes `head_mutex` and
evaluates its predicate, for which `get_tail` takes `tail_mutex` for a moment;
the end of the predicate and the wait are separate steps. `mine` is the node a
thread has in a local `unique_ptr`. The auxiliary `order` is the list from
`head` to the dummy at `tail`: it grows where `tail` moves and shrinks where
`head` does, and `ListIntact`, a part of `OneOwnerEach`, ties it to the `next`
pointers. `pop_head` moves `next` out of the old head, and the model leaves it
there: the node is in one `unique_ptr` by then, and nobody reads its `next` again.

**SpscQueue.** Each statement of `push` and `pop` that touches shared memory is
a step. `ProducerAt` and `ConsumerAt` say which member of which node the next
step reads or writes; `NoDataRace` and `MemorySafety` are about these. Loads
and stores of `head` and `tail` are sequentially consistent in the code, so
interleaving is exact for them.

**LockFreeStack.** A `compare_exchange_weak` may fail although head is as
expected. A pop reads `old_head->next` before its `compare_exchange_weak`
(the argument is evaluated first); those are two steps. The auxiliary `order`
is the list from the top: it is changed where a `compare_exchange_weak`
succeeds, and `ListIntact` ties it to `head` and `next`. `head` is null at first,
which the code sees to in an object of static storage only (section 6).

**LockFreeStackReclaim.** `LockFreeStack` is instantiated as `Listing` for push
and the loop of pop. `try_reclaim` is the sequence of loads, exchanges and the
decrement of `threads_in_pop` that the code makes, the loops of
`chain_pending_nodes` included. Deleted addresses return to the allocator and
may be pushed again before a stale pop makes its `compare_exchange_weak`. The
constructor leaves `threads_in_pop` and `to_be_deleted` uninitialised: `Starts`
is the set of their possible values. Counters are unsigned, modulo `Wrap`.
`broken` records that a pointer to no node has been dereferenced; nothing
happens after that. Auxiliary: `pending`, the nodes that `to_be_deleted` leads
to, and `chain`, those that a thread has got from there or is about to hand
over. `Leads`, a part of `EveryNodeHasOnePlace`, ties them to the `next`
pointers.

**HazardPointers.** As in the code, a thread gets a slot with its first pop
(`Own`, or `Throw` when the constructor of `hp_owner` throws) and gives it back
when it ends (`ClearOwned`, `Release`). The constructor throws inside its loop,
so only the first slot is ever tried, and a `compare_exchange_weak` that fails
there, spuriously or not, makes the pop throw. `reclaim_later` is therefore
never called: a pop that would call it stops at `"reclaiming"`, and
`PopsNeverOverlap` says that none comes there. The loops of `pop` are the load
of `head`, the store to the slot, the second load and the exchange, one step
each. `Delete` looks at all slots in one step, while the code loads them one
after the other. `PopsNeverOverlap` is what makes that exact: while a pop looks,
no other pop is there to change a slot. `delete_nodes_with_no_hazards`, the
last call of a pop, goes over the list that only `reclaim_later` fills, finds it
empty and is left out.

**ReferenceCounts.** A push makes two objects, a `counted_node_ptr` and its
`node`; they have one address in the model and two sets say which is alive.
`external_count` is a plain `int`, so raising it is a read and a write.
`new_counter` is the pointer `old_counter` itself, hence the
`compare_exchange_strong` of `increase_head_count` compares and changes nothing.
When the exchange of `pop` fails, `old_head` is loaded anew and `ptr` is not
(`TakeFails`). A thread stops before it uses an object that is not alive
(`Misuses`), and the properties speak of what it stopped at. `Overlapping`
says whether several threads may be inside `pop` at a time. `increase_head_count`
goes on to use `old_counter` behind its exchange, in two calls of `printf` and in
an assignment of `external_count` to itself. Those uses are no steps of
`Resolve`: with one thread in `pop` nobody deletes or changes the pair meanwhile,
and the run with two stops at a misuse that needs none of them.

**ThreadsafeStack.** The two listings differ in two operations.

- The copy constructor of 6.1 locks `other.m`, that of 3.5 the mutex of the new
  object (`LockOwn`), so that it reads the items one by one while others push and
  pop. Such a change is a data race with the copy, which may then be anything
  (`SpoilCopies`, `Wild`).
- Both pops of 6.1 write `move(data.top)` (lines 36 and 46), which names the member
  function and does not call it. No compiler accepts that in a pop that is used,
  and so only 3.5 has pops here (`Callable`). There the copy of an item
  may throw, before the item is removed (`ReadThrows`).

**LookupTable.** A call finds the entry of its key in one step and uses the
iterator in another, under the same lock; a lock is shared or alone. The
abstract map has the values that the lists give the keys, and the abstract
requests are those of the calls under way.

**BaseQueue.** `broken` is set when a pointer to no node is dereferenced. 6.4
leaves `tail` at the deleted node when the last item goes, and its constructor
does not set it at all (`Null` or `Wild`). In 6.6, whose mutexes nobody else
holds, only `push` and `do_job` can be called: `pop_head` converts a
`unique_ptr<node>` to a `shared_ptr<T>`, which no compiler accepts once it is
used. Auxiliary: `order`, the nodes in the order of the list. The walks of
`show` and `do_job` follow `next` and nothing else (`IsWalk`), and the proof says
that there is one such walk, along `order`.

**ParallelSort.** A list is known by its length. `calls` has the stack of
`do_sort` calls of each thread, each with the place it is at and the promise
that its result goes to. A chunk is copied by `CopyChunk`, as the copy
constructor does it: with its data and a promise of its own.

**ParallelAccumulate.** `num_threads`, `block_size` and `Block` are the
arithmetic of the code; one step starts a thread, one adds up a block, one
joins and adds the results. A sum is known by what has been added: that of a
block is the set of the places of its elements, and `accumulate`, the sum of the
results, says of every place how often it has its element. Sums that agree in
this are equal, since `+` of `int` and `init` = 0 care for no order.

**QuickSort.** `list` is the list that the calls will splice together, from
left to right, as far as they have got, and `open` are the calls that have not
divided their part of it. `quick_sort(c)` is one call up to its two recursive
ones: it returns if its part is empty, and else `std::partition` puts the pivot
in its place, with the other elements on either side in any order
(`Partitions`). 4.12 goes on with the leftmost call, 4.13 with any.

**SpinlockMutex.** `version` counts writes to the protected data, `seen` is
what a thread sees of them, and `carried` is what an acquire of the flag's
present value passes on. With a relaxed order, `carried` would not move.

**MemoryOrder** and **AtomicListings.** A location has the messages written to
it in modification order; a thread's views say which it may still read; stores
release views, loads acquire them, fences move them between `cur`, `acq` and
`rel`. An access that is not atomic races when its thread has not seen all the
messages of the location. A program is a function from threads to sequences of
instructions (`Store`, `Branch`, `Fence`, `Increment`, `FetchSub` ...), so the
code of a listing reads line by line. `main()` starts and joins the threads.

**ThreadsafeList.** `owner` is the mutex in each node. A walk locks the next
node before it lets go of the current one; `remove_if` unlinks and deletes,
holding the mutex of the predecessor. Auxiliary: `present`, the items that have
been in the list since the walk began; `passed`, those it has called its
function on; `height`, which a node gets when it is linked, one more than that
of the node it is put in front of, and loses (0) when it is unlinked. That the
links lead through all nodes of the list, from each to the next lower one, is
`Linked`, a part of `NoDanglingUse`.

**BlockingListings.** The short programs of chapters 1 to 4 have one skeleton:
`main()` starts threads which lock, wait, keep promises and use locals of
`main()`, and then joins them or waits for their futures. A program is a
sequence of instructions for each thread, as in `AtomicListings`, and one
action executes one kind of instruction (`DoJoin`, `DoLock`, `DoWait`, `DoGet`
...). `scope` is the set of locals that are alive, `ready` the set of promises
that have been kept, each named after the thread that keeps it. `std::lock` is
one step, since it holds no mutex while it waits for another; `std::async`
without a policy may leave the job to `get`, which then starts it; `once` is
the `once_flag`. The process ends when `main()` returns. The queue
of 4.4 and 4.5 is seen there from its clients, with the numbers that `main()`
sends. Where `main()` alone
uses a class whose locks make sense between threads only (3.1, 3.6, 3.9, 3.10-3.11.1,
3.13), two threads use it in the model. In 3.2 and 3.9.1 it is the misuse by
`main()` that the listing is about, and `main()` is the only thread of both. A loop that repeats the same step a
fixed number of times does so `Repeats` times; 2.7 has four of its twenty
threads.

**BlockingOutline** and **AtomicOutline** annotate these programs. For each
place in the code of a thread they name the mutexes held there, the locals of
`main()` that exist and who may still refer to them, or the data that the thread
has written, been promised by a flag, and read. They are data like the programs, and have no state or action.

Actions that are not atomic in the code are split wherever another thread can
observe the difference. Local computation is joined with the shared access
before it. Output to the console and `sleep_for` are left out.

## 3. Runs

"Bounds" name everything that the configuration limits. `MaxCalls`, `MaxPush`,
`MaxPop`, `Overlapping`, `MaxSpurious`, `MaxThrown`, `QueuePushes`, `StackCalls`
and `Floor` are in the guards of the modules. Deadlock is checked in
`hierarchical_mutex` only: in all others the threads end after their calls, or
wait for a push that nobody makes. Where `CallsReturn`, `SleeperServed` or
`ListingsReturn` is checked, that takes its place.

| run | bounds | shows |
|---|---|---|
| `hierarchical_mutex` | 2 threads; 4 mutexes, two of them of one level | `LevelIsLowestHeld`: the level of an idle thread is the lowest it holds, though another thread may be in any step. `AcquiresDescend`: no step gives a thread a mutex not below its others. `NoDeadlock`: no circle of threads waits. Two threads and two equal levels are what a circle needs; no bound on the number of calls. |
| `threadsafe_queue` | 2 producers, 2 consumers, a poller, two calls each; one spurious wake-up, one exception | `IsAQueue` (refinement), `WakeupPerItem`: while a consumer sleeps, each item has a thread on its way to it, up to one item for each exception thrown in a pop; `SleeperServed`: a sleeper beside an item gets served, unless a pop has thrown. |
| `fine_grained_queue` | 3 producers, a waiter, a poller, one call each; 3 addresses; one spurious wake-up | `OneOwnerEach`: every node alive is in the list or in one thread's hands; `IsAQueue`; `CallsReturn`: every call returns or waits. Three addresses for up to four nodes make every address return. |
| `fine_grained_queue_lost_wakeup` | 1 producer, 1 waiter, 1 call | violated: see section 6. |
| `spsc_queue` | 5 pushes, 7 pops | `NoDataRace`, `MemorySafety` (no dangling use, no leak), `IsAQueue`. The queue fills and empties in all ways, with pops that find it empty. |
| `lock_free_stack` | 3 threads with a push and a pop each, 2 nodes | `ListIntact`, `IsAStack`, and `CallsReturn` under the fairness of section 4. With two addresses a third push does not start; a race between pushes and pops needs two. |
| `reclaiming_stacks` | 2 threads with 2 pushes and 3 pops, 2 addresses. 7.4: counters modulo 4, all initial values that `Starts` lists. 7.6: 2 slots. 7.10: one thread in `pop` at a time | `OnlyNullMisused`: no deleted or wild node is used, only null (7.4 and 7.10, section 6), and nothing at all in 7.6; `EveryNodeHasOnePlace` (7.4, 7.6): each node is in the list, pending, in a chain or in a pop, once; `PopsNeverOverlap` (7.6): one thread at a time owns a slot, and no pop ever meets an announcement; `IsAStack` for all three. Two addresses return after few calls, while another pop still has them. |
| `reclaiming_stacks_empty_pop` | 7.4: 3 threads, 1 push, 1 pop each | violated: see section 6. |
| `reclaiming_stacks_two_poppers` | 7.10: 2 threads, 1 push and 1 pop each, both in `pop` | violated: see section 6. |
| `parallel_sort` | 8.1: a list of 2, `max_thread_count` 1, two helpers | violated: see section 6. Any list that is not empty does; with one that is longer the calls nest. |
| `listings` | spinlock: 4 threads, 2 sections each. Memory orders: `Items` = 6 of 20 numbers, `Floor` = -4, the listings otherwise complete. Chapters 1 to 4: `Repeats` = 2, two spurious wake-ups, all 27 programs. Quicksort: all lists of at most 4 elements of 1 to 3. Accumulate: 14 lengths around the multiples of 25 up to 101, 0 to 4 processors | `SectionsOrdered`: a critical section of the spinlock sees what the earlier ones wrote. `ReadersSeeData`: a reader of 5.2, 5.8, 5.9, 5.11 or 5.13 that passes its flag reads the data written before it (5.4 hands none over, 5.5, 5.10 and 5.12 promise nothing). `NothingRaces`: no race on the plain data of 5.2, 5.11, 5.13 and of the programs of chapters 1 to 4; not asked of 5.10, which races (section 6), and idle in 3.2, which has one thread. `DoneOnce`: the two consumers of 5.11 take each item once and leave none, those of 4.1.1, 4.4 and 4.5 get all numbers in order, and nobody uses what the function of a `once_flag` sets before it is complete. That this function runs once is taken over from `std::call_once` and not found out here. `NoUseAfterScope`: whoever ends a scope has joined the threads that refer to it (2.1 and 3.9.1 do not). `ResultsAreSequential`: the quicksorts lose no element and sort, with only elements of one open call in the wrong order before that, and the sum of 2.8 has every element of the range once. `ListingsReturn`: no program ends with all its threads waiting, but 3.9, and that only with the locks of a swap that has returned. |
| `containers` | list: 4 pushers, a visitor, a finder, 2 removers, one call each, 3 addresses. Table: 2 threads with 2 calls, 3 keys of which 2 share a bucket. Stack: 2 threads with 3 calls. Base queues: 4 pushes, 3 addresses | `NoDanglingUse`: walks of 6.13 use no deleted node; 6.4 to 6.6 misuse a pointer only when they are empty, and leak nothing. `WalkMissesNothing`: a walk calls its function on every item that stays in the list from its beginning to its end. `NoDeadlock` of walks. `IsAMap`, `IsAQueue`: refinements. `IsAStack`: the pushes of 3.5 and 6.1 and the pops of 3.5 refine `AbstractStack`, and a copy that 6.1 makes is whole. Two removers and reuse of addresses are what the deletion of a neighbour needs; two keys in a bucket are what a wrong entry needs. |

Each property of a passing run comes with a mutant of the code (in `PROJECT.json`
and beside the definition, `Mutant of ...`) that violates it.

## 4. Fairness

`FairSpec` of a module has weak fairness of each thread's operation once it is
under way: the operating system runs every thread that can run. What is not fair:

- that a thread begins another call;
- spurious wake-ups, exceptions and, as such, failures of a
  `compare_exchange_weak`, which need never happen.

Two points need more than that.

- *Contended locks.* Weak fairness promises a mutex only to a thread for which it
  stays free. The calls are bounded, so the rivals of a thread end some time and
  it gets its turn. `SleeperServed` and `CallsReturn` are therefore no
  promise against an endless stream of rivals, which `std::mutex` does not give.
- *`compare_exchange_weak`.* It may fail although head is as expected, and the
  code only loops. `LockFreeStack` has strong fairness of the two successful
  exchanges, `Publish` and `PopTop`: one that could succeed again and again does
  not fail spuriously for ever. Failures that come from the success of another
  thread are finitely many because the calls are. `PublishFailsStale`, a mutant
  that does not load `next` again, shows that this fairness does not do the
  work of the code.

`HierarchicalMutex`, `SpscQueue`, the stacks that free nodes, `SpinlockMutex`,
the containers and `AtomicListings` state no liveness. `NoDeadlock` covers the
locks of the first and of the list; `lock()` of the spinlock has no order among
the threads that spin, and so nothing that promises one of them an end.

`ParallelSort` has weak fairness of each thread's next step: the operating
system runs every thread, and a thread that polls goes on polling. The
counterexample to `SortReturns` is fair in this sense.

`BlockingListings` (in `ListingsSpec`, `ThreadStep`) has weak fairness of each
thread's next step, the timeout of
4.11 among them and spurious wake-ups not. `ListingsReturn` leaves 4.9 out, whose `gui_thread`
locks the mutex again as soon as it has released it. Only a fair mutex lets
the poster of the task in there, and `std::mutex` does not promise to be one.

## 5. Proofs

The theorems hold for every value of the constants that the named
`ConstantsAssumption` of a module allows. Where TLC instantiates a module
under a name, the module of the instances assumes it of the values it uses:
`Containers` does so for its four parts, `ReclaimingStacks` for its three and
`Listings` for its five (`QuickSort` assumes that the lists are of integers).
All follow the same line: an invariant `IInv`, `Init => IInv`,
one lemma or step per action for `IInv /\ [Next]_vars => IInv'`, and the
theorems from it. A refinement follows from `IInv` too: the steps at which an
operation takes effect are steps of the abstract specification, all others
stutter.

- **HierarchicalMutexProofs**: `TypeCorrect`, `LevelCorrect`,
  `SavedLevelsCorrect`, `AcquisitionDescends`, `DeadlockFree`. The properties
  speak of threads at rest; the invariant also says, for each place inside
  `lock` and `unlock`, how the level, the saved level and the owner stand at
  that point. The saved levels of held mutexes form a chain, so unlocking the
  lowest restores exactly the next one. Deadlock freedom: among the threads of
  a set that wait within it, the one that waits for the lowest level waits for a
  mutex whose holder waits for one lower still.
- **ThreadsafeQueueProofs**: `TypeCorrect`, `ImplementsQueue`, `NoLostWakeup`.
  The invariant says who holds the mutex at each `pc` (`MutexHeld`, which is a part of `TypeOK`), that the
  front a pop has read is still the front (`ReadIsFront`), and which `pc` a
  thread can have at all (`Roles`). `NoLostWakeup` counts: while a consumer
  sleeps, the number of items is at most the number of threads that are on
  their way to one, plus `thrown`.
- **FineGrainedQueueProofs**: `TypeCorrect`, `OwnersCorrect`,
  `ImplementsQueue`. Push and pop hold different mutexes and may be at one node
  at once, so mutual exclusion does not keep them apart. What does: a push
  writes only the dummy, and a pop that has seen `head` differ from `tail`
  under `tail_mutex` takes a node that is not the dummy and never becomes one
  again, since `tail` only moves on (`CallInv`). `OwnInv` says of every node
  alive that it is in the list or in one thread's `mine`; that a thread deletes
  its node with no mutex held is harmless for that reason.
- **SpscQueueProofs**: `TypeCorrect`, `MemorySafe`, `RaceFree`,
  `ImplementsQueue`. The nodes from `head` to `tail` are alive and linked in
  order of allocation (`ListInv`); `ProducerInv` and `ConsumerInv` say what the
  locals of the two threads are at each step. The producer only ever writes the
  dummy, the consumer only ever reads in front of it.
- **LockFreeStackProofs**: `TypeCorrect`, `ListCorrect`, `ImplementsStack`.
  A node that is being pushed is in nobody else's hands (`PushInv`), `next` of
  the node a pop looks at does not change (`PopInv`), since no address returns.
  So a successful `compare_exchange_weak` is a push or a pop of the abstract
  stack.
- **ReclaimingStacksProofs**: `TypeCorrect`, `NodesCorrect`, `SlotsLetOnePop`,
  `MemorySafe`, `ImplementsStack`, for 7.4, 7.6 and 7.10. Here addresses do
  return, and the argument of 7.3 fails: a pop may look at a node that another
  has taken out, and its `compare_exchange_weak` would succeed on a node that
  has come back. Each program has another reason why this does no harm, and so an
  invariant of its own; what they need of linked lists they take from
  `LockFreeStackProofs`.
  - *7.4* (`PendingInv`). `threads_in_pop` is what it was at first plus the
    number of pops under way (`PendingStart`, `Counted`). A pop that reads 1
    there is the only one, so that nobody looks at the node it has taken out,
    and nobody will, since that node is no longer in the list. It then takes the
    chain of `to_be_deleted`. Others may come meanwhile, and when its decrement
    gives 0 none is there: what was in the chain had left the list before, and
    nobody looks at it. These nodes are `Licensed` to the pop, and what a pop
    looks at is licensed to nobody else (`LookOf`). A node that somebody looks at is
    therefore not deleted, so it is not allocated and pushed again either, and
    when head still equals it, its `next` is as it was read. `PendingPlaces` and
    `ChainOf` follow the nodes from the list through the chains: a chain has an
    end at any moment, also while `chain_pending_nodes` hangs the rest behind it,
    and no two threads have nodes in common.
  - *7.6* (`HazardInv`). The constructor of the owner stores only to the first
    slot or throws (`SlotInv`), so one thread at a time is in the loops of `pop`,
    and only pops take nodes out. The node it looks at is in the list from the
    second load of `head` to the exchange (`HazardCalls`), and when it asks
    whether others announce its node, every slot is clear (`NotOutstanding`). So
    the class is correct because its pops never meet: the announcements protect
    nobody.
  - *7.10* (`CountInv`), under the hypothesis `~Overlapping`. Pushes may come
    between all steps of the pop. They move `head`, but the pairs that the pop
    has seen stay in the list (`CountPop`), and there no internal count is above
    zero (`CountPlaces`). So `fetch_sub` never returns 1, a failed exchange
    deletes nothing (`CountDrops`), and the only pair that is ever deleted is the
    one that the pop has taken out (`CountSettle`). `TypeCorrect` does without
    the hypothesis.

  The assumptions say what the code needs. `StartsAssumption` lists the values
  of the two members of 7.4 that no constructor sets: both zero, as in an object
  of static storage, or a counter above zero that the pops under way do not make
  wrap around; section 6 says what the other values do. It also asks for no more
  threads than the counter can count. `~Overlapping` excludes what
  `reclaiming_stacks_two_poppers` shows.
- **ContainersProofs**: `TypeCorrect`, `NothingDangles`, `WalksMissNothing`,
  `WalksGoOn`, `ImplementsMap`, `ImplementsStack`, `ImplementsQueue`. Each
  container keeps an invariant of its own, and a step of one leaves the others
  alone.
  - *The list.* Every link leads to the next lower node (`Successor`), except that
    of the head node between the two moves of a push, and then `current` of the
    pusher has that link (`ListLinks`). A walk is at a node of the list and holds
    its mutex (`ListPlaces`, `ListLocks`), so nobody unlinks it or its
    successor; what is in the list is nobody's own and the other way round
    (`ListNodes`). For `WalksMissNothing` (`ListWalks`): an item that has been in
    the list since the walk began is passed or lies below the place of the walk,
    and what lies below has not been passed; pushes happen above. For `WalksGoOn`:
    of the threads that wait for the mutex of their next node, the one at the
    lowest height waits for a mutex that is free; when there are none, a thread
    that holds the mutex of the head node can go on.
  - *The table.* A thread inside a call has the mutex of its bucket, shared to
    read and alone to change (`TableLocks`). So what it has found stays at its
    place until it uses it (`TableFound`), and each list has one entry for each
    of its keys, all of which hash to its bucket (`TableBuckets`). Which entry
    `find_entry_for` finds, and what adding, changing and erasing an entry does
    to the map, are the lemmas `FindEntry` to `EraseEntry`. Nothing is assumed of
    the hash function.
  - *The stack.* The thread inside the mutex is alone (`StackLock`), and the items
    that a copy of 6.1 has read are the lower end of a stack that does not move
    under it (`StackCopies`). What `ImplementsStack` shows is therefore this: for
    3.5 that pushes and pops are atomic, exceptions included, and nothing of its
    copies; for 6.1 that pushes are atomic and copies whole, and nothing of
    pops, which it has none of. Section 6 tells why.
  - *The queues of one thread.* `head`, the links and `tail` follow `order`
    (`QueueLinks`, `QueueTail`), so that a push is an append to the items and a
    pop takes the first. Two walks that begin and end at the same places are
    equal (`QueueWalkUnique`), and so those of `show` and `do_job` are the one
    along `order`.
- **ListingsProofs**: `TypeCorrect`, `Exclusive`, `Ordered`, `DataSeen`,
  `RaceFree`, `OnlyOnce`, `ScopesOutlive`, `Sequential`. The invariant `ListingsInv` is one
  conjunct for each part, and a step of one part leaves the others alone.
  - *Chapters 1 to 4* (`Outline` of `BlockingOutline`). There are 27 programs and
    20 kinds of step; a proof for each pair would be over five hundred
    cases. Instead `Sound` says of one place of one program that the
    outline fits the instruction there. It has no variables: the lemmas named
    `...Fits` establish it program by program, from the code alone, for every
    `Repeats`. The lemmas about steps then go through the instructions and know
    of the program only that it is sound. `LocksFit` is that a thread holds the
    mutexes its place says, as often as it says. Two threads at places that
    access the same data would both hold one mutex there, or be inside one
    `call_once`, or one is `main()` where it has not lent them to the other or
    has got them back; so they do not race (`RaceFree`). `LoansFit`: a thread that has not yet done with a local of `main()` has not
    been joined, and `main()` is before the end of the scope (`ScopesOutlive`).
    `NumbersFit`: the items taken and those in the queue are the numbers that
    `main()` has pushed so far; the consumer leaves its loop with the last of
    them, and `main()` gets past the join after that. `OnceFits`: one thread at a time
    is between the test of the `once_flag` and its end.
  - *Chapter 5* (`Outline` of `AtomicOutline`). For each place of a thread the
    outline says whether the thread has written the data (`WrittenAt`), has come
    through its wait for a flag (`Passed`), has acquired what the flag carries
    (`Informed`; behind its fence, where there is one) and has read the data
    (`HasRead`). `InstructionFits` asks of each instruction that the places around
    it agree with what its memory order does. The dynamic half is about messages:
    every positive value of a flag carries the views of all data (`FlagsCarry`),
    also the values that a `fetch_sub` of 5.11 stores, since it passes on the view
    of the value that it reads. The items taken are those that the counter has
    gone past, and two threads never have one in common (`IndicesOK`,
    `TakenOK`), for any `Items` and any `Floor`.
  - *The spinlock* (`SpinlockInv`). While the flag is clear it carries the newest
    version of the data, and while it is set one thread has it and sees that version.
  - *Types.* `TypeCorrect` is about all variables of all five parts, `chosen`
    included: those of the memory orders bound the views of threads and
    messages by the messages that exist, and those of the quicksorts and of
    `parallel_accumulate` follow from `SortInv` and `SumInv` and from what is
    chosen at first and never changes (`Choice`).
  - *parallel_accumulate* (`SumInv`). `BlocksDivide` is the arithmetic: for every
    length, number of processors and `min_per_thread`, the blocks have no element
    in common and together have all of them. It rests on
    `block_size * num_threads <= length` (`Quotient`), and on the last block
    reaching to the end. So exactly one result has the element at each place, and
    the total has it once (`SumAddsUp`). Nothing is returned before all blocks are
    added up.
  - *The quicksorts* (`SortInv`), for lists of any length. The parts of the open
    calls are apart (`CallsFit`), and two elements in the wrong order are in the
    part of one of them (`InOrder`). When a call divides its part, this is kept
    for two elements of its own because the pivot is between them or they are on
    the same side (`SidesOrdered`), and for one of its own and one outside because
    whatever was in its part is in its part still (`OthersOrdered`); once no call
    is open, no two elements can be in the wrong order. The list is the input put
    in another order, and an order after an order is one (`Rearranged`). The recursion needs no induction: a call
    that has divided its part is gone, and what it leaves are two open calls.

The proofs of `TypeCorrect` corrected two types. With `Items` = 1 the type of
the messages did not contain the 2 to which 5.4 counts, which the run with 6
items could not show; and the types of the programs of chapters 1 to 4 left the
domain of `pc` open, without which no thread is known to be at a place at all.

Only model-checked:

- all liveness properties (`SleeperServed`, `CallsReturn`, `ListingsReturn` and
  those that section 6 shows violated), which the prover cannot treat;
- `ParallelSort`, whose one property is violated.

## 6. Disagreements between code and intention

Shown by a run:

- **6.7-10, lost wake-up** (`fine_grained_queue_lost_wakeup`): `push` notifies
  under no mutex and changes `tail` under another than the waiter's, so its
  whole call fits between a waiter's predicate and its sleep. The waiter then
  sleeps beside an item.
- **7.4, empty pop** (`reclaiming_stacks_empty_pop`): a pop that found the
  stack empty calls `try_reclaim(nullptr)`; when another pop is under way, it
  chains a null node and dereferences it.

- **7.10, two threads in pop** (`reclaiming_stacks_two_poppers`): the
  `compare_exchange_strong` of line 94 that fails puts the present head into
  `old_head`, while `ptr` still is the node of the former one. Lines 113 and 114
  then delete that node together with the `counted_node_ptr` that `head` points
  to.
- **8.1, a sort that never returns** (`parallel_sort`): the copy constructor of a
  chunk leaves the promise behind, and with it the class has no move
  constructor. The chunk that is pushed has another promise than the one whose
  future `do_sort` waits for, so that it helps others, finds nothing and polls for
  ever. In a model whose `CopyChunk` keeps the promise, `SortReturns` holds.

Excepted by name in the properties of `listings`, `reclaiming_stacks` and
`containers`:

- **7.10**: a `pop` of an empty stack dereferences the null head in
  `increase_head_count`. A push between two steps of a pop makes the pair leak.
- **6.4**: a push after the queue has been emptied, or to a new queue whose `tail`
  was not zero by chance, writes through a pointer to no node.
- **6.5, 6.6**: `do_job` begins at `head->next`: it leaves out the first item, and
  dereferences null when there is none.
- **3.5**: the copy constructor locks the mutex of the object under construction,
  so that copying is a data race with every change of the old stack.
  `IsAStack` asks whole copies of 6.1 only. Its mutant, 6.1 with the lock of 3.5,
  shows what that lock leads to.
- **6.1**: `move(data.top)` in both pops (lines 36 and 46) lacks the call, and a
  program that used them would not compile. `IsAStack` is about the other
  operations of 6.1.
- **5.10**: `x->i` and `x->s` are plain, and the pointer to them is published with
  relaxed order. They race, and the assertions of lines 32 and 33 may fail.
  `NothingRaces` and `ReadersSeeData` leave the program out, and `ReadersSeeData`
  leaves out 5.5 and 5.12 as well, whose orders are relaxed.
- **2.1**: the detached thread reads `local_val` after `oops` has returned, as the
  listing is meant to show.
- **3.9**: `std::lock` is given the mutexes and not the `unique_lock`s that defer
  to it, so nothing unlocks them, and the next swap waits for ever.
- **3.9.1**: `return_lock` returns a lock on its own local mutex, which is gone
  when `acquire_lock` unlocks it.
- **4.9**: `main()` returns only if the mutex is a fair one (section 4).

Seen while modelling, without a run:

- 3.8: `unlock()` restores the level saved when that mutex was locked. A client
  that unlocks 10 before 2 has level `ULONG_MAX` with 2 still held, and may lock 5.
  `main()` does not do this.
- 3.2: `main()` uses the data without the mutex (line 35). It is the only thread
  of its program, so that nothing races with the use, here or in the model; with a
  second thread inside `process_data` it would.
- 5.4, line 30, loads `z` for `x`; 5.12 has a relaxed fence
  in the writer, so `z` may stay 0 whatever line 38 says; the loop of 5.9, line
  30, has no `;` and takes the next statement as its body, which is how the model
  has it; `count` of 5.11 wraps after 2^31 polls.
- 6.13: `find_first_if` has a path without a return. 6.7-10: `wait_and_pop(T&)`
  never assigns its argument.
- 7.6, line 37: the constructor of the owner throws inside its loop, so that one
  thread at a time can pop; `reclaim_later` is dead code, and the loop of
  `add_to_reclaim_list`, which goes on while its exchange succeeds, would link a
  node to itself. 7.10: `new_counter` is an alias of `old_counter`. 7.13: `main()` dereferences the
  null pointer that an empty `pop` returns (lines 87 to 89).
- 7.3: the class has no constructor, and `main()` has its stack on the stack
  (line 54). The atomic `head` of such an object is not initialised
  under C++11, and a first pop, or the end of the list, is then wherever it points.
  `LockFreeStack` and all its properties start from a null `head`.
- 7.4, lines 20 to 22: the constructor leaves `threads_in_pop` and
  `to_be_deleted` as they are. From 0 and a pointer that is not null, the
  first pop that is alone deletes a chain that never was one. From a counter
  above zero no pop believes itself alone and nothing is ever deleted, until the
  counter wraps: it then reads 1 with several pops under way.
  The stack of `main()` (line 115) is such an object. `StartsAssumption` leaves the
  first of these starts out, and with it the counters that can wrap: the
  properties of 7.4 hold from the other starts, and say nothing of these.
- 8.1: threads test the size of the vector of threads and push to it without a
  lock.
- 6.6: `try_pop` does not compile when it is called. 6.11-12: `get_map` names
  members of `buckets[i]` that a `unique_ptr` does not have.

## 7. What is not modelled

- Data that no property tells apart: item contents, console output, delays.
- Destructors and copy constructors that run alone; `show()` of the stacks and
  `do_job()` of 6.7-10, which `main()` calls with no other thread; `empty()` of the
  queues but for the one call of 4.5, since its answer is stale when it arrives.
- Overloads of pops that assign to a reference, where the same steps hand the
  item over in another way.
- `reclaim_later` and what it calls in 7.6, which no execution reaches: that is
  `PopsNeverOverlap`. `get_map` of 6.11-12, which cannot be called.
- What a race on the vector of 8.1 does to it, and the contents of its lists.
  Its stack of chunks is that of 3.5 and its calls are taken as atomic.
- 7.9, which is under `#if 0`, and the programs whose threads share nothing or
  that have one thread of straight-line code (2.4, 3.14, 5.1.1, 5.3, A.5).
- Weak memory in the data structures: 7.3, 7.4, 7.6, 7.10 and 7.13 use the
  default, sequentially consistent order, and the others use locks.

## 8. Plan

All programs that share state among threads have their module. What is left:

1. Liveness of the stacks that free nodes, under the fairness of
   `LockFreeStack`.
2. The vector of threads of 8.1, on which two threads may push at once. That
   is a race without any defined outcome, and a model could only say that it happens.
