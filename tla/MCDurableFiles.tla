--------------------------- MODULE MCDurableFiles ---------------------------
(* Model checking instance of DurableFiles. *)
EXTENDS DurableFiles, TLC

Symmetry == Permutations(Contents)
=============================================================================
