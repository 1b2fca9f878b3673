----------------------------- MODULE MCBilling -----------------------------
(* Billing for TLC: two subscriptions with different plans, the second      *)
(* without metadata of its own; in three scenarios, so that overlapping      *)
(* deliveries, longer histories and the administrator each have their share. *)
EXTENDS Billing

CONSTANTS s1, s2, h1, h2, r1, r2

MCSubs == {s1, s2}
MCPlanOf == [s \in MCSubs |-> IF s = s1 THEN "starter" ELSE "scale"]
MCBare == {s2}
MCHandlers == {h1, h2}
MCReminders == {r1, r2}
MCScenarios ==
  {[handlers |-> {h1, h2}, reminders |-> {}, events |-> 2, faults |-> 1, admin |-> 0],
   [handlers |-> {h1}, reminders |-> {}, events |-> 3, faults |-> 1, admin |-> 0],
   [handlers |-> {h1}, reminders |-> {r1, r2}, events |-> 1, faults |-> 0, admin |-> 1]}
=============================================================================
