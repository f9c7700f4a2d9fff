----------------------------- MODULE MCRustland -----------------------------
(* Instances of Rustland for TLC. *)
EXTENDS Rustland, TLC
Symmetry == Permutations(Cpu)
=============================================================================
