-------------------------- MODULE MCServerLifecycle -------------------------
(* Symmetry for the safety run of ServerLifecycle. *)
EXTENDS ServerLifecycle, TLC

Symmetry == Permutations(Op) \cup Permutations(Node)

=============================================================================
