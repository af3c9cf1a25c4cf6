-------------------------- MODULE MCReclaimingStacks --------------------------
(***************************************************************************)
(* Small instances of ReclaimingStacks.                                    *)
(***************************************************************************)
EXTENDS ReclaimingStacks, TLC

CONSTANTS t1, t2, t3, n1, n2, n3

Symmetry == Permutations(Thread) \cup Permutations(Node)

(* The members of an object of static storage. *)
ZeroStart == {<<0, Null>>}

(* And those of the local object of main, which are left uninitialised. *)
ZeroAndOtherStarts ==
  ZeroStart \cup (1 .. Wrap - Cardinality(Thread)) \X {Null, Wild}

=============================================================================
