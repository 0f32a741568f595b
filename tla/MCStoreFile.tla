----------------------------- MODULE MCStoreFile -----------------------------
(* StoreFile with two processes, either of which may die; they are         *)
(* interchangeable.                                                        *)
EXTENDS StoreFile, TLC

Symmetry == Permutations(Procs)

=============================================================================
