---------------------------- MODULE MCPlanMaking ----------------------------
(* Model checking instance of PlanMaking: two names that differ in case, a  *)
(* file below one of them and a file beside them.                           *)
EXTENDS PlanMaking, TLC

MCNames == {<<"a">>, <<"A">>, <<"a", "b">>, <<"c">>}
MCLower == [c \in {"a", "A", "b", "c"} |-> IF c = "A" THEN "a" ELSE c]
Symmetry == Permutations(Contents)
=============================================================================
