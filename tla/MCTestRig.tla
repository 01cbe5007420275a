----------------------------- MODULE MCTestRig -----------------------------
(***************************************************************************)
(* TestRig with two points, a float and a time-tagged single one, and at   *)
(* most two requests.  A budget is one scenario: simulator and control     *)
(* handlers, these with an interrogation, two requests that meet, requests *)
(* and a connection that breaks.                                           *)
(***************************************************************************)
EXTENDS TestRig

MCKind == [p \in Ioas |-> IF p = 1 THEN "MeNc" ELSE "SpTb"]
MCSetValues == {Value("Float", Inf), Value("Single", 1)}
MCSetQualities == {{}, {[overflow |-> TRUE, invalid |-> FALSE]}}
MCPolicies == {Absolute(3), Percent(50, 1)}
MCControls == {-1}
MCBudget(tick, set, tune, request, system, break) ==
  [k \in Stimuli |-> CASE k = "tick" -> tick [] k = "set" -> set
                      [] k = "tune" -> tune [] k = "request" -> request
                      [] k = "system" -> system [] k = "break" -> break]
MCBudgets ==
  {MCBudget(3, 1, 1, 0, 0, 0), MCBudget(1, 0, 1, 1, 0, 0),
   MCBudget(1, 1, 0, 1, 0, 0), MCBudget(1, 0, 0, 2, 0, 0),
   MCBudget(0, 0, 0, 2, 0, 1), MCBudget(0, 0, 0, 1, 1, 1)}

=============================================================================
