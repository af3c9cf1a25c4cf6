----------------------------- MODULE MemoryOrder -----------------------------
(***************************************************************************)
(* The C++ memory orders that the programs of chapter 5 use, as views.     *)
(*                                                                         *)
(* A location keeps the messages written to it in modification order; a    *)
(* message carries the view that its store releases.  A thread has three   *)
(* views, which give for each location the oldest message it may still     *)
(* read: cur for its reads, acq with what an acquire fence would add to    *)
(* cur, and rel with what a relaxed store after a release fence releases.  *)
(*                                                                         *)
(* A store appends to the modification order: no program here has two      *)
(* threads that store to one location with anything but a                  *)
(* read-modify-write.  A load and a store of the same thread do not change *)
(* places, and memory_order_consume is an acquire, as compilers make it.   *)
(* memory_order_seq_cst loads read the newest message, which is exact for  *)
(* a location all of whose accesses are seq_cst.                           *)
(***************************************************************************)
EXTENDS Integers, Sequences

CONSTANTS Thread, Location

VARIABLES memory, cur, acq, rel

View == [Location -> Nat \ {0}]

(* Every location begins with one message. *)
StartView == [l \in Location |-> 1]

Join(v, w) == [l \in Location |-> IF v[l] > w[l] THEN v[l] ELSE w[l]]

MemoryInit(initial) ==
  /\ memory = [l \in Location |-> <<[value |-> initial[l], view |-> StartView]>>]
  /\ cur = [t \in Thread |-> StartView]
  /\ acq = [t \in Thread |-> StartView]
  /\ rel = [t \in Thread |-> StartView]

Acquires(order) == order \in {"consume", "acquire", "acq_rel", "seq_cst"}
Releases(order) == order \in {"release", "acq_rel", "seq_cst"}

Newest(l) == Len(memory[l])

(* The messages of l that a load of thread t may read. *)
Readable(t, l, order) ==
  IF order = "seq_cst" THEN {Newest(l)} ELSE cur[t][l] .. Newest(l)

Value(l, m) == memory[l][m].value

(* t appends a message to l, and passes the view continued on with it. *)
Write(t, l, v, order, continued) ==
  LET here == [StartView EXCEPT ![l] = Newest(l) + 1]
      now == Join(Join(cur[t], here), IF Acquires(order) THEN continued ELSE StartView)
      released == Join(IF Releases(order) THEN now ELSE Join(rel[t], here), continued)
  IN /\ memory' = [memory EXCEPT ![l] = Append(@, [value |-> v, view |-> released])]
     /\ cur' = [cur EXCEPT ![t] = now]
     /\ acq' = [acq EXCEPT ![t] = Join(@, Join(now, continued))]
     /\ UNCHANGED rel

(* A store, or a write to an object that is not atomic. *)
Store(t, l, v, order) == Write(t, l, v, order, StartView)

(* A read-modify-write, which reads the newest message and continues the   *)
(* release sequence it belongs to.                                         *)
ReadModifyWrite(t, l, v, order) ==
  Write(t, l, v, order, memory[l][Newest(l)].view)

(* A load that reads message m, or a read of an object that is not atomic. *)
Load(t, l, m, order) ==
  LET here == [StartView EXCEPT ![l] = m]
      carried == memory[l][m].view
  IN /\ m \in Readable(t, l, order)
     /\ cur' = [cur EXCEPT ![t] =
          Join(Join(@, here), IF Acquires(order) THEN carried ELSE StartView)]
     /\ acq' = [acq EXCEPT ![t] = Join(Join(@, here), carried)]
     /\ UNCHANGED <<memory, rel>>

(* atomic_thread_fence; a relaxed one does nothing. *)
Fence(t, order) ==
  /\ cur' = IF Acquires(order) THEN [cur EXCEPT ![t] = acq[t]] ELSE cur
  /\ rel' = IF Releases(order) THEN [rel EXCEPT ![t] = cur'[t]] ELSE rel
  /\ UNCHANGED <<memory, acq>>

(* Every variable has a value of its type, and no view, be it of a thread  *)
(* or of a message, is ahead of the newest messages.                       *)
MemoryTypeOK(Values) ==
  /\ memory \in [Location -> Seq([value : Values, view : View])]
  /\ cur \in [Thread -> View] /\ acq \in [Thread -> View] /\ rel \in [Thread -> View]
  /\ \A t \in Thread, l \in Location :
       rel[t][l] <= cur[t][l] /\ cur[t][l] <= acq[t][l] /\ acq[t][l] <= Newest(l)
  /\ \A k \in Location : \A m \in 1 .. Newest(k) : \A l \in Location :
       memory[k][m].view[l] <= Newest(l)

=============================================================================
