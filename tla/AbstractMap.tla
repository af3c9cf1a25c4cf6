----------------------------- MODULE AbstractMap -----------------------------
(***************************************************************************)
(* What threadsafe_lookup_table promises its callers: each call takes      *)
(* effect at one moment between its start and its return, on one map from  *)
(* keys to values.                                                         *)
(***************************************************************************)
CONSTANTS
  Thread, Key, Value,
  NoValue  \* of a key without a mapping, and the default_value of a look-up

VARIABLES
  map,      \* the value of each key
  request,  \* the call of each thread that has not taken effect yet
  answer    \* what the last value_for of each thread returned

None == [op |-> "none", key |-> NoValue, value |-> NoValue]

Init ==
  /\ map = [k \in Key |-> NoValue]
  /\ request = [t \in Thread |-> None]
  /\ answer = [t \in Thread |-> NoValue]

Requests ==
  [op : {"value_for", "add_or_update", "remove"}, key : Key, value : Value \cup {NoValue}]

Call(t) ==
  /\ request[t] = None /\ request'[t] \in Requests
  /\ request' = [request EXCEPT ![t] = request'[t]]
  /\ UNCHANGED <<map, answer>>

Effect(t) ==
  /\ request[t] # None
  /\ request' = [request EXCEPT ![t] = None]
  /\ IF request[t].op = "value_for"
       THEN answer' = [answer EXCEPT ![t] = map[request[t].key]] /\ UNCHANGED map
       ELSE map' = [map EXCEPT ![request[t].key] = request[t].value] /\ UNCHANGED answer

Next == \E t \in Thread : Call(t) \/ Effect(t)

Spec == Init /\ [][Next]_<<map, request, answer>>

=============================================================================
