---------------------------- MODULE MCAllocations ---------------------------
(* Symmetry, and the nodes of the allocations, for the run of Allocations. *)
EXTENDS Allocations, TLC

CONSTANTS n1, n2

TwoNodes == [a \in Alloc |-> IF a = 3 THEN n2 ELSE n1]

Symmetry == Permutations(Server) \cup Permutations(Worker)

=============================================================================
