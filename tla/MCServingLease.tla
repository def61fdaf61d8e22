--------------------------- MODULE MCServingLease ---------------------------
(* ServingLease for TLC: every process is an incarnation of one node.       *)
EXTENDS ServingLease, TLC

CONSTANT node

AllNodes == {node}
Symmetry == Permutations(Processes)
OneNode == [p \in Processes |-> node]
=============================================================================
