------------------------------ MODULE MCBackups -----------------------------
(* Symmetry for the safety run of Backups. *)
EXTENDS Backups, TLC

Symmetry == Permutations(Op) \cup Permutations(Path)

=============================================================================
