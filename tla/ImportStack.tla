----------------------------- MODULE ImportStack -----------------------------
(***************************************************************************)
(* What the cloudwins engine promises about its runs: they form a stack.   *)
(* An import goes on top of completed imports only, only the top one can   *)
(* be undone, and `recorded` (baseline.json) names the top of the stack    *)
(* whenever no import is open.  A stack is the set of its run numbers.     *)
(***************************************************************************)
EXTENDS Naturals

VARIABLES imported,  \* runs in force
          open,      \* the top run is being applied or undone
          recorded   \* run named as the approved state, 0 for none

TopOf(S, r) == IF S = {} THEN r = 0 ELSE r \in S /\ \A s \in S : s <= r
IsTop(r) == r \in imported /\ \A s \in imported : s <= r

Init == imported = {} /\ open = FALSE /\ recorded = 0

Push ==
  /\ ~open
  /\ \E r \in imported' : /\ r \in Nat \ {0} /\ \A s \in imported : s < r
                         /\ imported' = imported \cup {r}
  /\ open' = TRUE /\ UNCHANGED recorded

\* While a run is open the record moves to it, or back to the run below it.
Record ==
  /\ open
  /\ \E r \in imported : IsTop(r) /\ (recorded' = r \/ TopOf(imported \ {r}, recorded'))
  /\ UNCHANGED <<imported, open>>

Close == open /\ IsTop(recorded) /\ open' = FALSE /\ UNCHANGED <<imported, recorded>>

Reopen == ~open /\ imported # {} /\ open' = TRUE /\ UNCHANGED <<imported, recorded>>

Pop ==
  /\ open
  /\ \E r \in imported : IsTop(r) /\ TopOf(imported \ {r}, recorded) /\ imported' = imported \ {r}
  /\ open' = FALSE /\ UNCHANGED recorded

Next == Push \/ Record \/ Close \/ Reopen \/ Pop
Spec == Init /\ [][Next]_<<imported, open, recorded>>
=============================================================================
