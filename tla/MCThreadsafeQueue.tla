-------------------------- MODULE MCThreadsafeQueue --------------------------
(* Small instance: two consumers, so that a wake-up can go to the wrong     *)
(* one, and a poller that steals items from a woken consumer.               *)
EXTENDS ThreadsafeQueue, TLC

CONSTANTS p1, p2, c1, c2, t1

Symmetry == Permutations(Producer) \cup Permutations(Consumer)

=============================================================================
