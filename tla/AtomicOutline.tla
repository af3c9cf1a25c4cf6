---------------------------- MODULE AtomicOutline ----------------------------
(***************************************************************************)
(* What holds at each place of the programs of AtomicListings: which of    *)
(* the data that a program hands over have been written, and who sees      *)
(* them.  These invariants are inductive.                                  *)
(***************************************************************************)
EXTENDS AtomicListings

(* The data of program p, and the flags whose positive values promise      *)
(* them.                                                                   *)
Data(p) ==
  IF p = "transitive_sync" THEN {"data0"} \cup Elements
  ELSE IF p \in Synchronized THEN {"x"} ELSE {}

Flags(p) ==
  IF p = "transitive_sync" THEN {"sync1", "sync2"}
  ELSE IF p \in Synchronized THEN {"y"} ELSE {}

(* The only thread that writes data, and where it writes them. *)
Writer(p) == IF p = "sync_with_atomics" THEN "b" ELSE "a"

WrittenAt(l) ==
  CASE l = "data1" -> 2 [] l = "data2" -> 3 [] l = "data3" -> 4 [] l = "data4" -> 5
    [] OTHER -> 1

(* Thread t of p, at place i, has come through its wait for a flag; where  *)
(* fences order the program, it is informed when it is behind its fence.   *)
Passed(p, t, i) ==
  \/ p = "sync_with_atomics" /\ t = "a" /\ i > 1
  \/ p \in {"acquire_release", "sync_nonatomics"} /\ t = "b" /\ i > 1
  \/ p = "transitive_sync" /\ ((t = "b" /\ i > 1) \/ (t = "c" /\ i > 2))
  \/ p = "read_queue" /\ t \in {"b", "c"} /\ i > 1

Informed(p, t, i) == Passed(p, t, i) /\ (p = "sync_nonatomics" => i > 2)

(* It has read the data in l. *)
HasRead(p, t, i, l) ==
  \/ p = "sync_with_atomics" /\ t = "a" /\ i > 2
  \/ p = "acquire_release" /\ t = "b" /\ i > 2
  \/ p = "transitive_sync" /\ t = "c" /\ l \in Elements /\ i > WrittenAt(l) + 1
  \/ p = "read_queue" /\ t \in {"b", "c"} /\ i > 2
  \/ p = "sync_nonatomics" /\ t = "b" /\ i > 3

(* It may still count itself in z, which it does at most once. *)
Counts(p, t, i) ==
  IF \E j \in i .. Len(Code[p][t]) : Code[p][t][j].op = "increment" THEN 1 ELSE 0

(* Where t may be after the instruction c at place i, and where it is if a *)
(* value that it waits for is not there.                                   *)
Targets(c, i) ==
  CASE c.op = "load" -> {c.set, c.zero} [] c.op = "fetch_sub" -> {i, i + 1}
    [] c.op = "element" -> {1, i + 1} [] OTHER -> {i + 1}

InVain(c, i) == IF c.op = "load" THEN c.zero ELSE i

(* How the places of the programs fit together: what a thread may know at  *)
(* place j that it did not know at i,                                      *)
MoveFits(p, t, i, c, j) ==
  LET reads == c.op \in {"load", "element"}
      waits == c.op \in {"load", "fetch_sub"} /\ c.at \in Flags(p) /\ j # InVain(c, i)
  IN /\ j \in 1 .. Len(Code[p][t]) + 1
     /\ Counts(p, t, j) <= Counts(p, t, i)
     /\ t = Writer(p) =>
          \A l \in Data(p) :
            j > WrittenAt(l) <=> i > WrittenAt(l) \/ (c.op = "store" /\ c.at = l)
     /\ p = "sync_nonatomics" /\ t = "a" /\ j > 2 =>
          i > 2 \/ (c.op = "fence" /\ Memory!Releases(c.order) /\ i > 1)
     /\ Passed(p, t, j) => Passed(p, t, i) \/ waits
     /\ Informed(p, t, j) =>
          \/ Informed(p, t, i)
          \/ waits /\ Memory!Acquires(c.order)
          \/ c.op = "fence" /\ Passed(p, t, i) /\ Memory!Acquires(c.order)
     /\ \A l \in Data(p) : HasRead(p, t, j, l) =>
          IF reads /\ c.at = l THEN Informed(p, t, i) ELSE HasRead(p, t, i, l)

(* and what an instruction relies on.                                      *)
StoreFits(p, t, i, c) ==
  /\ c.at \in Location \ {"z"} /\ c.value \in 1 .. Items
  /\ c.at \in Data(p) => t = Writer(p) /\ i = WrittenAt(c.at)
  /\ c.at \in Flags(p) =>
       /\ Informed(p, t, i) \/ (t = Writer(p) /\ \A l \in Data(p) : i > WrittenAt(l))
       /\ Memory!Releases(c.order) \/ (p = "sync_nonatomics" /\ t = "a" /\ i > 2)
  /\ p = "read_queue" => t = "a" /\ (c.at = "y" <=> i = 2) /\ (i = 2 => c.value = Items)

ReadFits(p, t, i, c) ==
  /\ c.at \in Location
  /\ c.at \in {"x"} \cup Elements /\ p \in Synchronized =>
       c.at \in Data(p) /\ HasRead(p, t, Len(Code[p][t]) + 1, c.at)

InstructionFits(p, t, i, c) ==
  /\ c.op = "store" => StoreFits(p, t, i, c)
  /\ c.op = "fence" => p # "read_queue"
  /\ c.op = "load" => ReadFits(p, t, i, c) /\ p # "read_queue"
  /\ c.op = "increment" =>
       /\ c.at = "z" /\ p # "read_queue" /\ Counts(p, t, i) = 1 /\ Counts(p, t, i + 1) = 0
       /\ t \in IF p = "sequential_consistency" THEN {"c", "d"} ELSE {"b"}
  /\ c.op = "fetch_sub" => c.at = "y" /\ c.order = "acquire" /\ i = 1
  /\ c.op = "element" => ReadFits(p, t, i, c) /\ c.at = "x" /\ c.counter = "y" /\ i = 2
  /\ c.op \in {"fetch_sub", "element"} => p = "read_queue" /\ t \in {"b", "c"}
  /\ /\ p \in Synchronized
     /\ (c.op \in {"store", "load"} /\ c.order = "plain") \/ c.op = "element"
     => c.at \in Data(p) /\ (t = Writer(p) \/ Informed(p, t, i))
  /\ \A j \in Targets(c, i) : MoveFits(p, t, i, c, j)

ProgramFits(p) ==
  /\ \A t \in Thread : \A i \in 1 .. Len(Code[p][t]) :
       InstructionFits(p, t, i, Code[p][t][i])
  /\ \A t \in Thread :
       ~Passed(p, t, 1) /\ \A l \in Data(p) : ~HasRead(p, t, 1, l)
  /\ Counts(p, "a", 1) + Counts(p, "b", 1) + Counts(p, "c", 1) + Counts(p, "d", 1) <= 2
  /\ p = "read_queue" => \A t \in Thread : Len(Code[p][t]) = IF t = "d" THEN 0 ELSE 2
  /\ p = "read_queue" => Code[p]["b"][2].op = "element" /\ Code[p]["c"][2].op = "element"

-----------------------------------------------------------------------------

(* Views are ordered location by location; no view, that of a message      *)
(* included, is ahead of the newest messages.                              *)
Behind(v, w) == \A l \in Location : v[l] <= w[l]

Tops == [l \in Location |-> Len(memory[l])]

Message == [value : Values, view : Memory!View]

MemoryOK ==
  /\ memory \in [Location -> Seq(Message)]
  /\ cur \in [Thread -> Memory!View]
  /\ acq \in [Thread -> Memory!View]
  /\ rel \in [Thread -> Memory!View]
  /\ Tops \in Memory!View
  /\ \A t \in Thread :
       Behind(cur[t], acq[t]) /\ Behind(acq[t], Tops) /\ Behind(rel[t], cur[t])
  /\ \A l \in Location : \A m \in 1 .. Len(memory[l]) : Behind(memory[l][m].view, Tops)

(* A thread of 5.11 at an element has got an index of it. *)
PlacesOK ==
  /\ program \in DOMAIN Code
  /\ pc \in [Thread -> Nat]
  /\ \A t \in Thread : pc[t] \in 1 .. Len(Code[program][t]) + 1
  /\ read \in [Thread -> [Location -> Values]]
  /\ taken \in [Thread -> Seq(0 .. Items - 1)]
  /\ \A t \in {"b", "c"} :
       program = "read_queue" /\ pc[t] = 2 => read[t]["y"] \in 1 .. Items

(* Only z counts readers, and only the counter of 5.11 goes below zero. *)
ValuesOK ==
  /\ \A l \in Location \ {"z"} : \A m \in 1 .. Len(memory[l]) :
       /\ memory[l][m].value \in Floor .. Items
       /\ program # "read_queue" => memory[l][m].value >= 0
  /\ \A m \in 1 .. Len(memory["z"]) : memory["z"][m].value \in 0 .. 2
  /\ memory["z"][Len(memory["z"])].value
       + Counts(program, "a", pc["a"]) + Counts(program, "b", pc["b"])
       + Counts(program, "c", pc["c"]) + Counts(program, "d", pc["d"]) <= 2

(* Data are written once, and their writer sees what it has written. *)
DataWritten ==
  \A l \in Data(program) :
    LET w == Writer(program)
    IN /\ Len(memory[l]) = IF pc[w] > WrittenAt(l) THEN 2 ELSE 1
       /\ cur[w][l] = Len(memory[l])
       /\ Len(memory[l]) = 2 => memory[l][2].value > 0

AllWritten == \A l \in Data(program) : Len(memory[l]) = 2

(* A positive flag carries the data over, *)
FlagsCarry ==
  /\ program = "sync_nonatomics" /\ pc["a"] > 2 => rel["a"]["x"] = 2
  /\ \A f \in Flags(program) : \A m \in 1 .. Len(memory[f]) :
       memory[f][m].value > 0 =>
         AllWritten /\ \A l \in Data(program) : memory[f][m].view[l] = 2

(* to those who have waited for it, *)
DataSeen ==
  \A t \in Thread :
    /\ Passed(program, t, pc[t]) => AllWritten /\ \A l \in Data(program) : acq[t][l] = 2
    /\ Informed(program, t, pc[t]) => \A l \in Data(program) : cur[t][l] = 2

(* who read the data. *)
DataRead ==
  \A t \in Thread, l \in Data(program) :
    HasRead(program, t, pc[t], l) => read[t][l] > 0

(* 5.11: the indices in use are those that the counter has gone past. *)
Counter == memory["y"][Len(memory["y"])].value

Indices(t) ==
  Range(taken[t]) \cup (IF program = "read_queue" /\ t \in {"b", "c"} /\ pc[t] = 2
                        THEN {read[t]["y"] - 1} ELSE {})

IndicesOK ==
  LET all == UNION {Indices(t) : t \in Thread}
  IN /\ program # "read_queue" => all = {}
     /\ program = "read_queue" =>
          /\ pc["a"] # 3 => Counter <= 0 /\ all = {}
          /\ pc["a"] = 3 => all = {i \in 0 .. Items - 1 : i >= Counter}
     /\ \A t, u \in Thread : t # u => Indices(t) \cap Indices(u) = {}

TakenOK ==
  \A t \in Thread :
    /\ IsInjective(taken[t])
    /\ program = "read_queue" /\ t \in {"b", "c"} =>
         /\ pc[t] = 2 => read[t]["y"] - 1 \notin Range(taken[t])
         /\ pc[t] = 3 => pc["a"] = 3 /\ Counter <= 0

Outline ==
  /\ MemoryOK /\ PlacesOK /\ ValuesOK
  /\ DataWritten /\ FlagsCarry /\ DataSeen /\ DataRead
  /\ IndicesOK /\ TakenOK

=============================================================================
