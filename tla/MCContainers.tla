----------------------------- MODULE MCContainers -----------------------------
(***************************************************************************)
(* Small instances of the containers.                                      *)
(***************************************************************************)
EXTENDS Containers, TLC

CONSTANTS p1, p2, p3, p4, v1, f1, r1, r2, n1, n2, n3, t1, t2, t3, k1, k2, k3, a, b

(* All items but that of p1 match. *)
OthersItems == {p2, p3, p4} \X {1}

(* Keys k1 and k2 fall into bucket 1. *)
MCHasher == [k \in Key |-> IF k = k3 THEN 2 ELSE 1]

Symmetry ==
  Permutations(Node) \cup Permutations(Remover) \cup Permutations(Pusher \ {p1})

=============================================================================
