--------------------------- MODULE BlockingOutline ---------------------------
(***************************************************************************)
(* What holds at each place of the programs of BlockingListings: the       *)
(* mutexes that a thread holds there, the locals of main that exist, and   *)
(* which threads may still refer to them.  Sound says of an instruction    *)
(* that these fit the places around it; the invariants at the end follow   *)
(* from it and are inductive.                                              *)
(***************************************************************************)
EXTENDS BlockingListings

CodeOf(listing, t) == Code[listing][t]
Places(listing, t) == 1 .. Len(CodeOf(listing, t))

-----------------------------------------------------------------------------
(* The outline. *)

(* Where t holds m, once or more.  After the unlock of a wait it does so   *)
(* only when the wait has locked the mutex again.                          *)
HoldsAt(listing, t, m) ==
  CASE listing = "list_protected" /\ t \in {"a", "b"} /\ m = "m" ->
         {i \in 1 .. 3 * Repeats + 3 : i % 3 # 1}
    [] listing = "return_protected_data" /\ t = "main" /\ m = "m" -> {2}
    [] listing = "std_lock" /\ t \in {"a", "b"} ->
         2 .. (IF <<t, m>> \in {<<"a", "m">>, <<"b", "n">>} THEN 5 ELSE 4)
    [] listing = "std_lock_and_unique_lock" /\ t \in {"a", "b"} -> 2 .. 4
    [] listing = "moving_mutex" /\ t = "main" /\ m = "m" -> 3 .. 5
    [] listing = "granular_comparison" /\ t \in {"a", "b"} ->
         IF <<t, m>> \in {<<"a", "m">>, <<"b", "n">>} THEN 2 .. 3 ELSE 5 .. 6
    [] listing = "granularity" /\ t \in {"a", "b"} /\ m = "m" -> {2, 3, 5, 6}
    [] listing = "recursive_mutex" /\ t = "a" /\ m = "m" -> 2 .. 6
    [] listing = "recursive_mutex" /\ t = "b" /\ m = "m" -> (2 .. 6) \cup {8, 9}
    [] listing \in {"condition_variable", "data_processing", "data_processing_empty"}
         /\ t = "main" /\ m = "m" -> (3 .. 5) \cup (7 .. 9) \cup (11 .. 13) \cup {16, 17}
    [] listing \in {"condition_variable", "data_processing", "data_processing_empty"}
         /\ t = "a" /\ m = "m" -> 2 .. 4
    [] listing = "packaged_task_GUI" /\ t = "main" /\ m = "m" -> {3, 4}
    [] listing = "packaged_task_GUI" /\ t = "a" /\ m = "m" -> {2, 3, 5, 6, 7}
    [] listing = "wait_timeout" /\ t = "main" /\ m = "m" -> {2, 4, 5}
    [] OTHER -> {}

(* Where it holds m twice. *)
TwiceAt(listing, t, m) ==
  IF listing = "recursive_mutex" /\ t \in {"a", "b"} /\ m = "m" THEN {4, 5} ELSE {}

DepthAt(listing, t, m, i) ==
  IF i \in TwiceAt(listing, t, m) THEN 2 ELSE IF i \in HoldsAt(listing, t, m) THEN 1 ELSE 0

(* The places of main at which one of its locals exists. *)
ScopeOf(listing, l) ==
  CASE listing \in {"local_var_join", "raii", "scoped_thread"} /\ l = "local_val" -> 2 .. 4
    [] listing = "future" /\ l = "future" -> 10 .. 13
    [] listing = "async_arguments" /\ l = "x" -> 2 .. 16
    [] listing = "async_arguments" /\ l = "str" -> 5 .. 15
    [] listing = "async_arguments" /\ l = "y" -> 8 .. 14
    [] listing = "future_exceptions" /\ l = "promise" -> 2 .. 11
    [] OTHER -> {}

(* Where t may yet use what main has lent it, a local or, in 3.1, the list *)
(* itself; and the places of main at which t may be there.                 *)
BorrowsAt(listing, t) ==
  CASE listing \in {"local_var_join", "raii", "scoped_thread"} /\ t = "a" -> 1 .. Repeats
    [] listing = "list_protected" /\ t \in {"a", "b"} -> Places(listing, t)
    [] listing = "future" /\ t = "d" -> {1}
    [] listing = "async_arguments" /\ t \in {"a", "b", "d", "e"} -> {1}
    [] listing = "future_exceptions" /\ t \in {"a", "b", "c"} -> {1}
    [] OTHER -> {}

LentAt(listing, t) ==
  CASE listing \in {"local_var_join", "raii", "scoped_thread"} -> {3}
    [] listing = "list_protected" -> IF t = "a" THEN 2 .. 3 ELSE 3 .. 4
    [] listing = "future" -> 11 .. 12
    [] listing = "async_arguments" ->
         CASE t = "a" -> {3} [] t = "b" -> {6} [] t = "d" -> 10 .. 11 [] OTHER -> {13}
    [] listing = "future_exceptions" ->
         CASE t = "a" -> {3} [] t = "b" -> {6} [] OTHER -> {9}
    [] OTHER -> {}

-----------------------------------------------------------------------------
(* The outline fits the instruction at place i. *)

Waits == {"wait", "wait_until"}
Branches == {"once", "unless_empty", "unless_last"}
Initialises == {"init", "once_done"}
CallsOnce(listing) == listing \in {"open_connection", "init_object"}

(* Where t may go on. *)
GoesTo(listing, t, i) ==
  LET code == CodeOf(listing, t)[i]
  IN CASE code.op = "goto" -> {code.at}
       [] code.op \in Branches -> {i + 1, code.place}
       [] OTHER -> {i + 1}

SoundPlaces(listing, t, i) ==
  GoesTo(listing, t, i) \subseteq 1 .. Len(CodeOf(listing, t)) + 1

SoundTypes(listing, t, i) ==
  LET code == CodeOf(listing, t)[i]
  IN /\ code.op \in {"start", "async", "join"} => t = "main" /\ code.at \in Thread \ {"main"}
     /\ code.op \in {"begin", "end"} => t = "main" /\ code.at \in Locals
     /\ code.op \in {"lock", "unlock"} \cup Waits => code.at \in Mutex
     /\ code.op \in {"set_value", "get"} => code.at \in Thread
     /\ code.op = "get" => t = "main" \/ code.at = "main"
     /\ code.op = "push" => code.at \in 1 .. 3
     /\ t = "main" => code.op \notin Branches \cup {"goto"}

SoundLocks(listing, t, i) ==
  LET code == CodeOf(listing, t)[i]
  IN \A m \in Mutex :
       LET before == DepthAt(listing, t, m, i)
           here == code.op \in {"lock", "unlock"} \cup Waits /\ code.at = m
       IN /\ code.op = "lock" /\ here =>
               before = 0 \/ (before = 1 /\ m \in Recursive(listing))
          /\ code.op = "unlock" /\ here => before > 0
          /\ code.op = "std_lock" => before = 0
          /\ code.op \in Waits => before = IF here THEN 1 ELSE 0
          /\ \A j \in GoesTo(listing, t, i) :
               DepthAt(listing, t, m, j) =
                 CASE code.op = "std_lock" \/ (code.op = "lock" /\ here) -> before + 1
                   [] code.op \in {"unlock", "wait_until"} /\ here -> before - 1
                   [] OTHER -> before

(* Only the thread a pops, and only behind a look at the queue. *)
SoundPops(listing, t, i) ==
  LET code == CodeOf(listing, t)
  IN /\ code[i].op = "pop" => t = "a"
     /\ \A j \in GoesTo(listing, t, i) \cap Places(listing, t) :
          code[j].op = "pop" =>
            code[i].op = "wait" \/ (code[i].op = "unless_empty" /\ j = code[i].place)
     /\ code[i].op = "unless_empty" => code[i].place # i + 1

(* call_once, the function and the end of the call follow each other. *)
SoundOnce(listing, t, i) ==
  LET code == CodeOf(listing, t)
  IN /\ code[i].op \in {"once"} \cup Initialises => CallsOnce(listing) /\ i + 1 \in Places(listing, t)
     /\ code[i].op = "once" => code[i + 1].op = "init" /\ code[i].place > i + 1
     /\ code[i].op = "init" => code[i + 1].op = "once_done"
     /\ \A j \in GoesTo(listing, t, i) \cap Places(listing, t) :
          /\ code[j].op \in Initialises =>
               code[i].op = "init" \/ (code[i].op = "once" /\ j = i + 1)
          /\ CallsOnce(listing) /\ code[j].op = "read" =>
               code[i].op = "once_done" \/ (code[i].op = "once" /\ j # i + 1)

(* main and the threads that refer to its locals. *)
SoundLoans(listing, t, i) ==
  LET code == CodeOf(listing, t)[i]
  IN /\ t = "main" =>
          /\ \A l \in Locals : i + 1 \in ScopeOf(listing, l) =>
               \/ code.op = "begin" /\ code.at = l
               \/ i \in ScopeOf(listing, l) /\ ~(code.op = "end" /\ code.at = l)
          /\ \A u \in Thread : BorrowsAt(listing, u) # {} =>
               /\ code.op \in {"start", "async"} /\ code.at = u => i + 1 \in LentAt(listing, u)
               /\ code.op = "get" /\ code.at = u => i \in LentAt(listing, u)
               /\ i \in LentAt(listing, u) /\ i + 1 \notin LentAt(listing, u) =>
                    code.op \in {"join", "get"} /\ code.at = u
     /\ t # "main" => \A j \in GoesTo(listing, t, i) :
          j \in BorrowsAt(listing, t) => i \in BorrowsAt(listing, t)
     /\ code.op = "set_value" =>
          \/ BorrowsAt(listing, code.at) = {}
          \/ code.at = t /\ i + 1 \notin BorrowsAt(listing, t)
     /\ code.op \in {"read", "write"} /\ code.at \in Locals =>
          \/ listing \in {"local_var_detach", "moving_mutex"}
          \/ /\ t # "main" /\ i \in BorrowsAt(listing, t)
             /\ LentAt(listing, t) \subseteq ScopeOf(listing, code.at)

Sound(listing, t, i) ==
  /\ SoundPlaces(listing, t, i) /\ SoundTypes(listing, t, i)
  /\ SoundLocks(listing, t, i) /\ SoundPops(listing, t, i)
  /\ SoundOnce(listing, t, i) /\ SoundLoans(listing, t, i)

(* Before its first instruction a thread has nothing. *)
SoundStart(listing, t) ==
  LET code == CodeOf(listing, t)
  IN /\ Len(code) \in Nat
     /\ \A m \in Mutex : DepthAt(listing, t, m, 1) = 0
     /\ t = "main" => \A l \in Locals : 1 \notin ScopeOf(listing, l)
     /\ t = "main" => BorrowsAt(listing, t) = {}
     /\ BorrowsAt(listing, t) \subseteq Places(listing, t)
     /\ 1 \in Places(listing, t) => code[1].op \notin {"pop"} \cup Initialises
     /\ CallsOnce(listing) /\ 1 \in Places(listing, t) => code[1].op # "read"

(* Accesses of two threads to an object, one of which changes it, are      *)
(* apart: by a mutex, by the once_flag, or by a join.                      *)
ObjectOf(code) == IF code.op \in {"push", "pop", "unless_empty"} THEN "queue" ELSE code.at

Apart(listing, t, i, u, j) ==
  \/ \E m \in Mutex : DepthAt(listing, t, m, i) > 0 /\ DepthAt(listing, u, m, j) > 0
  \/ /\ CallsOnce(listing) /\ CodeOf(listing, t)[i].op = "init"
     /\ CodeOf(listing, u)[j].op \in {"init", "read"}
  \/ u = "main" /\ i \in BorrowsAt(listing, t) /\ j \notin LentAt(listing, t)

SoundAccesses(listing, t, u) ==
  LET mine == CodeOf(listing, t)
      its == CodeOf(listing, u)
  IN \A i \in Places(listing, t), j \in Places(listing, u) :
       /\ mine[i].op \in Changes
       /\ its[j].op \in Changes \cup Looks
       /\ ObjectOf(mine[i]) = ObjectOf(its[j])
       => Apart(listing, t, i, u, j)

ThreadFits(listing, t) ==
  /\ \A i \in Places(listing, t) : Sound(listing, t, i)
  /\ SoundStart(listing, t)
  /\ \A u \in Thread \ {t} : SoundAccesses(listing, t, u)

ProgramFits(listing) == \A t \in Thread : ThreadFits(listing, t)

OutlineFits == \A listing \in DOMAIN Code : ProgramFits(listing)

-----------------------------------------------------------------------------
(* The invariants. *)

Depth(t, m) == DepthAt(program, t, m, pc[t])

(* A thread holds the mutexes that it should, unless it is in a wait. *)
HoldsItsLocks(t) ==
  /\ t \in asleep => IsAt(t, Waits)
  /\ \A m \in Mutex :
       /\ owner[m] = t => depth[m] = Depth(t, m) /\ Depth(t, m) > 0 /\ t \notin asleep
       /\ Depth(t, m) > 0 => owner[m] = t \/ IsAt(t, Waits)

LocksFit == \A t \in Thread : HoldsItsLocks(t)

(* Nobody takes an item from an empty queue. *)
PopsFit == \A t \in Thread : IsAt(t, {"pop"}) => queue # <<>>

(* While the once_flag's function runs, one thread runs it. *)
OnceFits ==
  /\ \A t, u \in Thread : IsAt(t, Initialises) /\ IsAt(u, Initialises) => t = u
  /\ once = "running" <=> \E t \in Thread : IsAt(t, Initialises)
  /\ inits =
       IF once = "done" \/ \E t \in Thread : IsAt(t, {"once_done"}) THEN 1 ELSE 0
  /\ CallsOnce(program) => \A t \in Thread : IsAt(t, {"read"}) => once = "done"

(* The locals of main exist where they should, while others refer to them. *)
LoansFit ==
  /\ \A l \in Locals : pc["main"] \in ScopeOf(program, l) => l \in scope
  /\ \A t \in Thread :
       pc[t] \in BorrowsAt(program, t) =>
         /\ t \notin ready
         /\ t \in started => pc["main"] \in LentAt(program, t)

(* 4.1.1, 4.4 and 4.5: main has pushed as many numbers as its place says,  *)
(* and those that a has not taken are in the queue; a ends with the last.  *)
Consumes == {"condition_variable", "data_processing", "data_processing_empty"}
Pushed(i) == IF i <= 3 THEN 0 ELSE IF i <= 7 THEN 1 ELSE IF i <= 11 THEN 2 ELSE 3

NumbersFit ==
  program \in Consumes =>
    /\ Len(taken) + Len(queue) = Pushed(pc["main"])
    /\ \A k \in 1 .. Len(taken) : taken[k] = Numbers(program)[k]
    /\ \A k \in 1 .. Len(queue) : queue[k] = Numbers(program)[Len(taken) + k]
    /\ pc["a"] > 3 => taken # <<>>
    /\ pc["a"] = 6 => Len(taken) = 3
    /\ pc["main"] > 14 => pc["a"] = 6

Outline == TypeOK /\ LocksFit /\ PopsFit /\ OnceFits /\ LoansFit

=============================================================================
