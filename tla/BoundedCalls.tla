----------------------------- MODULE BoundedCalls -----------------------------
(***************************************************************************)
(* What a caller of the API client may rely on, whatever the cluster does: *)
(* calls are made one at a time, each has a budget when it begins, and     *)
(* every request and every wait takes from it, so that a call ends after   *)
(* so many of them; after a call that ends the collector there is none.    *)
(***************************************************************************)
EXTENDS Naturals

CONSTANT MaxBudget

VARIABLES
  phase,        \* "idle", "busy" with a call, or "over"
  budget        \* what the call may still spend

callVars == <<phase, budget>>

Init == phase = "idle" /\ budget = 0

Begin ==
  /\ phase = "idle"
  /\ phase' = "busy"
  /\ budget' \in 1..MaxBudget

\* A request, or the wait before one; the last may spend the last of the budget.
Spend ==
  /\ phase = "busy"
  /\ budget' \in 0..(budget - 1)
  /\ UNCHANGED phase

End ==
  /\ phase = "busy"
  /\ phase' \in {"idle", "over"}
  /\ budget' = 0

Next == Begin \/ Spend \/ End

Spec == Init /\ [][Next]_callVars
=============================================================================
