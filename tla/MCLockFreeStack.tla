--------------------------- MODULE MCLockFreeStack ---------------------------
(* Small instance: two of three threads push once, and all pop once, so     *)
(* that a compare_exchange_weak can be overtaken twice.                     *)
EXTENDS LockFreeStack

CONSTANTS t1, t2, t3, n1, n2

=============================================================================
