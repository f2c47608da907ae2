----------------------------- MODULE MCCloudWins -----------------------------
(* Model checking instance of CloudWins: contents are interchangeable, and so *)
(* are processes and paths.                                                   *)
EXTENDS CloudWins, TLC

Symmetry == Permutations(Contents) \cup Permutations(Procs) \cup Permutations(Paths)
=============================================================================
