------------------------- MODULE MCHierarchicalMutex -------------------------
(* Small instance: the three levels of main() and, to let two mutexes share *)
(* a level, a second mutex of the middle one.  The levels are ranks: only   *)
(* their order matters to the class.                                        *)
EXTENDS HierarchicalMutex, TLC

CONSTANTS m10, m5, m5b, m2

MCLevel == (m10 :> 3) @@ (m5 :> 2) @@ (m5b :> 2) @@ (m2 :> 1)

ThreadSymmetry == Permutations(Thread)

=============================================================================
