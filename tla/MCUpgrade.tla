------------------------------ MODULE MCUpgrade ------------------------------
(* Three releases: the second adds a file, the third changes the first file *)
(* back and replaces the added file by another.                             *)
EXTENDS Upgrade

CONSTANTS manifest, a, b, c

MCRelease ==
  [v \in 1..3 |-> [f \in {manifest, a, b, c} |->
     CASE f = manifest -> v
       [] f = a -> IF v = 2 THEN 2 ELSE 1
       [] f = b -> IF v = 2 THEN 1 ELSE 0
       [] f = c -> IF v = 3 THEN 1 ELSE 0]]
=============================================================================
