-------------------------- MODULE MCFineGrainedQueue --------------------------
(* Small instances of FineGrainedQueue: three pushes and the first dummy    *)
(* node share three addresses, so a deleted one comes back.                 *)
EXTENDS FineGrainedQueue

CONSTANTS p1, p2, p3, w1, t1, n1, n2, n3

=============================================================================
