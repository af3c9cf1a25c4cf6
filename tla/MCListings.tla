------------------------------ MODULE MCListings ------------------------------
(* Small instances of Listings.  A .cfg has no negative numbers, and no    *)
(* sets of sequences.                                                      *)
EXTENDS Listings

CONSTANTS t1, t2, t3, t4

LowestCount == -4
SmallInputs == UNION {[1 .. n -> 1 .. 3] : n \in 0 .. 4}

=============================================================================
