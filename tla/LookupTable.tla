----------------------------- MODULE LookupTable -----------------------------
(***************************************************************************)
(* The threadsafe_lookup_table of listings 6.11 and 6.12: buckets of       *)
(* pairs, each under a boost::shared_mutex that look-ups share and         *)
(* changes have alone.  Threads find the entry of their key first, and use *)
(* the iterator they have found in a step of its own.                      *)
(***************************************************************************)
EXTENDS Naturals, Sequences, SequencesExt

CONSTANTS
  Thread, Key, Value,
  Bucket,     \* the indices of buckets
  hasher,     \* the bucket of each key: its hash modulo the buckets
  MaxCalls,   \* bound on the calls of one thread
  NoValue     \* default_value

ConstantsAssumption == hasher \in [Key -> Bucket] /\ MaxCalls \in Nat

VARIABLES
  data,       \* the list of each bucket
  readers,    \* the threads that share the mutex of each bucket
  writer,     \* and those that have it alone
  pc, calls,
  key, value, \* the arguments of the call under way
  found_entry,\* an iterator: a position in the list, where 0 is end()
  answer      \* what the last value_for of each thread returned

vars == <<data, readers, writer, pc, calls, key, value, found_entry, answer>>

Init ==
  /\ data = [b \in Bucket |-> <<>>]
  /\ readers = [b \in Bucket |-> {}] /\ writer = [b \in Bucket |-> {}]
  /\ pc = [t \in Thread |-> "idle"]
  /\ calls = [t \in Thread |-> 0]
  /\ key = [t \in Thread |-> NoValue] /\ value = [t \in Thread |-> NoValue]
  /\ found_entry = [t \in Thread |-> 0]
  /\ answer = [t \in Thread |-> NoValue]

get_bucket(t) == hasher[key[t]]

(* A call of value_for, add_or_update_mapping or remove_mapping. *)
Call(t) ==
  /\ pc[t] = "idle" /\ calls[t] < MaxCalls
  /\ calls' = [calls EXCEPT ![t] = @ + 1]
  /\ \E op \in {"value_for", "add_or_update", "remove"}, k \in Key :
       /\ pc' = [pc EXCEPT ![t] = op]
       /\ key' = [key EXCEPT ![t] = k]
       /\ \E v \in IF op = "add_or_update" THEN Value ELSE {NoValue} :
            value' = [value EXCEPT ![t] = v]
  /\ UNCHANGED <<data, readers, writer, found_entry, answer>>

Inside(op) ==
  CASE op = "value_for" -> "reading" [] op = "add_or_update" -> "updating"
    [] op = "remove" -> "removing"

(* shared_lock<shared_mutex> *)
LockShared(t) ==
  /\ pc[t] = "value_for" /\ writer[get_bucket(t)] = {}
  /\ readers' = [readers EXCEPT ![get_bucket(t)] = @ \cup {t}]
  /\ pc' = [pc EXCEPT ![t] = Inside(@)]
  /\ UNCHANGED <<data, writer, calls, key, value, found_entry, answer>>

(* Mutant of LockUnique: a shared_lock where a unique_lock is needed. *)
LockUniqueShared(t) ==
  /\ pc[t] \in {"add_or_update", "remove"} /\ writer[get_bucket(t)] = {}
  /\ readers' = [readers EXCEPT ![get_bucket(t)] = @ \cup {t}]
  /\ pc' = [pc EXCEPT ![t] = Inside(@)]
  /\ UNCHANGED <<data, writer, calls, key, value, found_entry, answer>>

(* unique_lock<shared_mutex> *)
LockUnique(t) ==
  /\ pc[t] \in {"add_or_update", "remove"}
  /\ writer[get_bucket(t)] = {} /\ readers[get_bucket(t)] = {}
  /\ writer' = [writer EXCEPT ![get_bucket(t)] = {t}]
  /\ pc' = [pc EXCEPT ![t] = Inside(@)]
  /\ UNCHANGED <<data, readers, calls, key, value, found_entry, answer>>

find_entry_for(b, k) == SelectInSeq(data[b], LAMBDA entry : entry[1] = k)

Find(t) ==
  /\ pc[t] \in {"reading", "updating", "removing"}
  /\ found_entry' = [found_entry EXCEPT ![t] = find_entry_for(get_bucket(t), key[t])]
  /\ pc' = [pc EXCEPT ![t] = CASE @ = "reading" -> "read" [] @ = "updating" -> "update"
                               [] @ = "removing" -> "erase"]
  /\ UNCHANGED <<data, readers, writer, calls, key, value, answer>>

(* The lock is released and the call is over. *)
Return(t) ==
  /\ pc' = [pc EXCEPT ![t] = "idle"]
  /\ readers' = [readers EXCEPT ![get_bucket(t)] = @ \ {t}]
  /\ writer' = [writer EXCEPT ![get_bucket(t)] = @ \ {t}]
  /\ found_entry' = [found_entry EXCEPT ![t] = 0]
  /\ key' = [key EXCEPT ![t] = NoValue] /\ value' = [value EXCEPT ![t] = NoValue]
  /\ UNCHANGED calls

value_for(t) ==
  /\ pc[t] = "read"
  /\ answer' = [answer EXCEPT ![t] =
       IF found_entry[t] = 0 THEN NoValue ELSE data[get_bucket(t)][found_entry[t]][2]]
  /\ Return(t)
  /\ UNCHANGED data

(* Mutant of add_or_update_mapping: the entry goes to the list in any case. *)
add_mapping(t) ==
  /\ pc[t] = "update"
  /\ data' = [data EXCEPT ![get_bucket(t)] = Append(@, <<key[t], value[t]>>)]
  /\ Return(t)
  /\ UNCHANGED answer

add_or_update_mapping(t) ==
  /\ pc[t] = "update"
  /\ data' = [data EXCEPT ![get_bucket(t)] =
       IF found_entry[t] = 0 THEN Append(@, <<key[t], value[t]>>)
                             ELSE [@ EXCEPT ![found_entry[t]][2] = value[t]]]
  /\ Return(t)
  /\ UNCHANGED answer

remove_mapping(t) ==
  /\ pc[t] = "erase"
  /\ data' = [data EXCEPT ![get_bucket(t)] =
       IF found_entry[t] = 0 THEN @ ELSE RemoveAt(@, found_entry[t])]
  /\ Return(t)
  /\ UNCHANGED answer

Next ==
  \E t \in Thread :
    \/ Call(t) \/ LockShared(t) \/ LockUnique(t) \/ Find(t)
    \/ value_for(t) \/ add_or_update_mapping(t) \/ remove_mapping(t)

Spec == Init /\ [][Next]_vars

-----------------------------------------------------------------------------

(* Every variable has a value of its type, and an iterator is one of the   *)
(* list of its bucket while its call is under way.                         *)
TypeOK ==
  /\ data \in [Bucket -> Seq(Key \X Value)]
  /\ readers \in [Bucket -> SUBSET Thread] /\ writer \in [Bucket -> SUBSET Thread]
  /\ pc \in [Thread -> {"idle", "value_for", "add_or_update", "remove", "reading",
                        "updating", "removing", "read", "update", "erase"}]
  /\ calls \in [Thread -> 0 .. MaxCalls]
  /\ key \in [Thread -> Key \cup {NoValue}] /\ value \in [Thread -> Value \cup {NoValue}]
  /\ \A t \in Thread :
       IF pc[t] = "idle"
         THEN key[t] = NoValue /\ found_entry[t] = 0
         ELSE key[t] \in Key /\ found_entry[t] \in 0 .. Len(data[get_bucket(t)])
  /\ found_entry \in [Thread -> Nat]
  /\ answer \in [Thread -> Value \cup {NoValue}]

(* The value that the list of its bucket has for a key. *)
Mapped(k) ==
  LET i == find_entry_for(hasher[k], k)
  IN IF i = 0 THEN NoValue ELSE data[hasher[k]][i][2]

(* The call that a thread is in, whose value is NoValue but in an update. *)
Request(t) ==
  [op |-> CASE pc[t] = "idle" -> "none"
            [] pc[t] \in {"value_for", "reading", "read"} -> "value_for"
            [] pc[t] \in {"add_or_update", "updating", "update"} -> "add_or_update"
            [] pc[t] \in {"remove", "removing", "erase"} -> "remove",
   key |-> key[t], value |-> value[t]]

Abstract ==
  INSTANCE AbstractMap WITH map <- [k \in Key |-> Mapped(k)],
                            request <- [t \in Thread |-> Request(t)]

(* The table is a map whose operations are atomic, although an iterator is *)
(* found in one step and used in another: no key gets a second entry, and  *)
(* none is updated or erased in the place of another.                      *)
IsAMap == Abstract!Spec

=============================================================================
