---------------------------- MODULE MCAutomation ----------------------------
(* Automation for TLC.  Two rows for a target: a second proposal for it, on  *)
(* the same day or the next, is where the planner's reads matter.  Two       *)
(* campaigns for a batch of two and a daily cap of one.  Two edits switch a  *)
(* rule on and lower its cap.  The two action types share no row and no      *)
(* rule, so a behaviour is about one of them: scope says which has rules.    *)
EXTENDS Automation, TLC

CONSTANT Scopes
VARIABLE scope

ScopedInit == Init /\ scope \in Scopes
ScopedNext ==
  /\ Next
  /\ scope' = scope
  /\ scope = "campaigns" => rule'["queue_content"] = None /\ gen' = gen
  /\ scope = "content" => rule'["adjust_budget"] = None
ScopedSpec == ScopedInit /\ [][ScopedNext]_<<vars, scope>>

Symmetry == Permutations(Campaigns)
=============================================================================
