---------------------------- MODULE MCJobStore ----------------------------
(* Small instances of the durable Job store, with the queue it promises, for TLC. *)
EXTENDS JobQueueRefinement, TLC

Symmetry == Permutations(Jobs) \cup Permutations(Nodes)
=============================================================================
