------------------------- MODULE Automation_proofs -------------------------
(***************************************************************************)
(* Safety of the automation ledger for any campaigns, keywords, rules and  *)
(* processes.  Nothing in the code locks a row: an action runs once since  *)
(* whoever moves it out of "proposed" is the only one that holds it, and a *)
(* target has one open action since one planner at a time reads the ledger *)
(* before it adds to it.                                                   *)
(***************************************************************************)
EXTENDS Automation, FiniteSetTheorems, TLAPS

(* The process has the row ahead of it, or in hand.                          *)
Holds(p, i) == i \in todo[p] \/ cur[p] = i

(* A row that a process holds is approved, its adapter is called on the way  *)
(* from the cap check to the outcome, and no other process holds it.         *)
HeldIsApproved ==
  \A p \in Procs :
    /\ \A i \in todo[p] : At(i).status = "approved" /\ At(i).runs = 0 /\ cur[p] # i
    /\ cur[p] # None =>
         /\ At(cur[p]).status = "approved"
         /\ At(cur[p]).runs = IF pc[p] \in {"loaded", "checked"} THEN 0 ELSE 1
HeldByOne ==
  \A p, q \in Procs, i \in Ids : Holds(p, i) /\ Holds(q, i) => p = q

RunInv == TypeOK /\ HeldIsApproved /\ HeldByOne /\ RunsOnceApproved

(* What a planner has read stays true until it inserts: the open targets are *)
(* among those it saw, and no action was added since it counted.             *)
PlannerIsCurrent ==
  \A p \in Procs :
    /\ pc[p] \in {"rules", "state", "ids"} => p \in Planners /\ view[p].since <= day
    /\ pc[p] \in {"state", "ids"} =>
         /\ OpenTargets \subseteq view[p].open
         /\ \A y \in Types :
              Cardinality(CreatedSince(y, view[p].since)) = view[p].today[y]

PlanInv ==
  /\ PlannerIsCurrent /\ OneOpenPerTarget
  /\ \A i \in Ids : At(i).created <= day

(* A process that is about to write a brief found none, and there is none.   *)
BriefInv ==
  /\ OneBriefPerKeyword
  /\ \A p \in Procs :
       pc[p] = "writing" => cur[p][1] \in Keywords /\ briefs[cur[p][1]] = 0
-----------------------------------------------------------------------------
(* The ledger.                                                               *)

(* An id names a row.                                                        *)
LEMMA IdsNameRows ==
  ASSUME TypeOK, NEW i \in Ids
  PROVE  /\ i[1] \in Targets /\ i[2] \in 1..Len(actions[i[1]]) /\ i[2] \in 1..MaxRows
         /\ i = <<i[1], i[2]>> /\ i # None
         /\ actions[i[1]] \in Seq(Row) /\ At(i) \in Row
<1>1. i \in Targets \X (1..MaxRows) /\ i[2] <= Len(actions[i[1]])
  BY DEF Ids
<1>2. i[1] \in Targets /\ i[2] \in 1..MaxRows /\ i = <<i[1], i[2]>> /\ i # None
  BY <1>1, NoneIsNothing
<1>3. actions[i[1]] \in Seq(Row) /\ i[2] \in 1..Len(actions[i[1]])
  BY <1>1, <1>2, AutomationAssumption DEF TypeOK
<1>4. QED BY <1>2, <1>3 DEF At

(* There are finitely many rows.                                             *)
LEMMA IdsAreFinite == IsFiniteSet(Targets) /\ IsFiniteSet(Ids) /\ IsFiniteSet(Ids')
<1>1. IsFiniteSet(Targets)
  BY AutomationAssumption, FS_Union DEF Targets
<1>2. IsFiniteSet(1..MaxRows)
  BY AutomationAssumption, FS_Interval
<1>3. IsFiniteSet(Targets \X (1..MaxRows))
  BY <1>1, <1>2, FS_Product
<1>4. Ids \subseteq Targets \X (1..MaxRows) /\ Ids' \subseteq Targets \X (1..MaxRows)
  BY DEF Ids
<1>5. QED BY <1>1, <1>3, <1>4, FS_Subset

(* So the day's actions can be counted.                                      *)
LEMMA CreatedIsCounted ==
  ASSUME NEW y, NEW d
  PROVE  /\ IsFiniteSet(CreatedSince(y, d)) /\ Cardinality(CreatedSince(y, d)) \in Nat
         /\ IsFiniteSet(CreatedSince(y, d)') /\ Cardinality(CreatedSince(y, d)') \in Nat
BY IdsAreFinite, FS_Subset, FS_CardinalityType DEF CreatedSince

(* Row i becomes r, and nothing else happens to the ledger.                  *)
OneRow(i, r) ==
  /\ actions' \in [Targets -> Seq(Row)]
  /\ \A t \in Targets : Len(actions'[t]) = Len(actions[t])
  /\ Ids' = Ids
  /\ actions'[i[1]][i[2]] = r
  /\ \A j \in Ids \ {i} : actions'[j[1]][j[2]] = At(j)

(* Replacing one row of a target replaces no other, and no id goes.          *)
LEMMA OneRowChanges ==
  ASSUME TypeOK, NEW i \in Ids, NEW r \in Row,
         actions' = [actions EXCEPT ![i[1]] = [actions[i[1]] EXCEPT ![i[2]] = r]]
  PROVE  OneRow(i, r)
<1> DEFINE t == i[1]  n == i[2]  new == [actions[t] EXCEPT ![n] = r]
<1>1. t \in Targets /\ n \in 1..Len(actions[t]) /\ actions[t] \in Seq(Row) /\ i = <<t, n>>
  BY IdsNameRows
<1>2. new \in Seq(Row) /\ Len(new) = Len(actions[t]) /\ new[n] = r
      /\ \A k \in 1..Len(actions[t]) : k # n => new[k] = actions[t][k]
  BY <1>1
<1>3. actions' = [actions EXCEPT ![t] = new] /\ actions \in [Targets -> Seq(Row)]
  BY DEF TypeOK
<1> HIDE DEF new
<1>4. actions' \in [Targets -> Seq(Row)] /\ actions'[t] = new
      /\ \A u \in Targets : u # t => actions'[u] = actions[u]
  BY <1>1, <1>2, <1>3
<1>5. \A u \in Targets : Len(actions'[u]) = Len(actions[u])
  BY <1>1, <1>2, <1>4
<1>6. Ids' = Ids
  BY <1>5 DEF Ids
<1>7. \A j \in Ids \ {i} : actions'[j[1]][j[2]] = At(j)
  <2> SUFFICES ASSUME NEW j \in Ids, j # i
               PROVE  actions'[j[1]][j[2]] = actions[j[1]][j[2]]
    BY DEF At
  <2>1. j[1] \in Targets /\ j[2] \in 1..Len(actions[j[1]]) /\ j = <<j[1], j[2]>>
    BY IdsNameRows
  <2>2. CASE j[1] = t
    <3>1. j[2] # n
      BY <1>1, <2>1, <2>2
    <3>2. QED BY <1>2, <1>4, <2>1, <2>2, <3>1
  <2>3. CASE j[1] # t
    BY <1>4, <2>1, <2>3
  <2>4. QED BY <2>2, <2>3
<1>8. QED BY <1>1, <1>2, <1>4, <1>5, <1>6, <1>7 DEF OneRow

(* An UPDATE of the status, and a call of the adapter.                       *)
LEMMA MarkIsOneRow ==
  ASSUME TypeOK, NEW i \in Ids, NEW s \in Open \cup Closed, Mark(i, s)
  PROVE  OneRow(i, [At(i) EXCEPT !.status = s])
<1>1. At(i) \in Row
  BY IdsNameRows
<1>2. [At(i) EXCEPT !.status = s] \in Row
  BY <1>1 DEF Row
<1>3. actions' = [actions EXCEPT ![i[1]] =
                    [actions[i[1]] EXCEPT ![i[2]] = [At(i) EXCEPT !.status = s]]]
  BY DEF Mark, At
<1>4. QED BY <1>2, <1>3, OneRowChanges

(* The history of calls is part of the row.                                  *)
LEMMA CallIsOneRow ==
  ASSUME TypeOK, NEW p \in Procs, NEW i \in Ids, i = cur[p], CallAdapter(p)
  PROVE  OneRow(i, [At(i) EXCEPT !.runs = @ + 1])
<1>1. At(i) \in Row
  BY IdsNameRows
<1>2. [At(i) EXCEPT !.runs = @ + 1] \in Row
  BY <1>1 DEF Row
<1>3. actions' = [actions EXCEPT ![i[1]] =
                    [actions[i[1]] EXCEPT ![i[2]] = [At(i) EXCEPT !.runs = @ + 1]]]
  BY DEF CallAdapter, At
<1>4. QED BY <1>2, <1>3, OneRowChanges

-----------------------------------------------------------------------------
(* The INSERT of a pass: rows of their own, after the rows there were.       *)

NewIds(chosen) == {<<t, Len(actions[t]) + 1>> : t \in chosen}

(* A proposal under a rule in force is a row, and has not run.               *)
LEMMA RowForIsRow ==
  ASSUME TypeOK, NEW p \in Procs, NEW t \in Targets, InForce(view[p].rules[TypeOf(t)])
  PROVE  /\ RowFor(view[p], t) \in Row
         /\ RowFor(view[p], t).runs = 0 /\ RowFor(view[p], t).created = day
         /\ RowFor(view[p], t).status =
              IF view[p].rules[TypeOf(t)].mode = "auto" THEN "approved" ELSE "proposed"
<1> DEFINE y == TypeOf(t)  r == view[p].rules[y]
<1>1. y \in Types
  BY DEF TypeOf, Types
<1>2. view[p] \in View
  BY DEF TypeOK
<1>3. r \in Rule /\ view[p].ids[y] \in 1..MaxEdits \cup {None}
  BY <1>1, <1>2 DEF View, InForce
<1>4. ChangeOf(r) \in Nat
  BY <1>3, AutomationAssumption DEF ChangeOf, CapOf, Rule
<1>5. day \in 0..MaxDay
  BY DEF TypeOK
<1> HIDE DEF r
<1>6. QED BY <1>3, <1>4, <1>5 DEF RowFor, Row, Open, r

(* What Propose does to the ledger.                                          *)
Inserted(p, chosen) ==
  /\ chosen \subseteq Targets /\ Plannable(view[p], chosen)
  /\ actions' \in [Targets -> Seq(Row)]
  /\ \A t \in Targets : Len(actions'[t]) <= MaxRows
  /\ Ids' = Ids \cup NewIds(chosen)
  /\ Ids \cap NewIds(chosen) = {}
  /\ \A j \in Ids : actions'[j[1]][j[2]] = At(j)
  /\ \A t \in chosen : /\ InForce(view[p].rules[TypeOf(t)])
                       /\ actions'[t][Len(actions[t]) + 1] = RowFor(view[p], t)
  /\ todo' = [todo EXCEPT ![p] =
       {<<t, Len(actions[t]) + 1>> :
          t \in {u \in chosen : view[p].rules[TypeOf(u)].mode = "auto"}}]

(* What Propose does is that.                                                *)
LEMMA ProposeInserts ==
  ASSUME TypeOK, NEW p \in Procs, Propose(p)
  PROVE  \E chosen : Inserted(p, chosen)
<1>1. PICK chosen \in SUBSET {t \in Targets : Len(actions[t]) < MaxRows} :
        /\ Plannable(view[p], chosen)
        /\ actions' = [t \in Targets |-> IF t \in chosen
                         THEN Append(actions[t], RowFor(view[p], t)) ELSE actions[t]]
        /\ todo' = [todo EXCEPT ![p] =
             {<<t, Len(actions[t]) + 1>> :
                t \in {u \in chosen : view[p].rules[TypeOf(u)].mode = "auto"}}]
  BY DEF Propose
<1>2. \A t \in chosen : t \in Targets /\ Len(actions[t]) < MaxRows
  OBVIOUS
<1>3. \A t \in chosen : InForce(view[p].rules[TypeOf(t)])
  <2> SUFFICES ASSUME NEW t \in chosen
               PROVE  InForce(view[p].rules[TypeOf(t)])
    OBVIOUS
  <2>1. TypeOf(t) \in Types /\ t \in {u \in chosen : TypeOf(u) = TypeOf(t)}
    BY DEF TypeOf, Types
  <2>2. QED BY <1>1, <2>1 DEF Plannable
<1>4. \A t \in chosen : RowFor(view[p], t) \in Row
  BY <1>2, <1>3, RowForIsRow
<1>5. \A t \in Targets : actions[t] \in Seq(Row) /\ Len(actions[t]) <= MaxRows
  BY DEF TypeOK
<1>6. \A t \in chosen : /\ actions'[t] = Append(actions[t], RowFor(view[p], t))
                        /\ actions'[t] \in Seq(Row)
                        /\ Len(actions'[t]) = Len(actions[t]) + 1
                        /\ actions'[t][Len(actions[t]) + 1] = RowFor(view[p], t)
                        /\ \A n \in 1..Len(actions[t]) : actions'[t][n] = actions[t][n]
  <2> SUFFICES ASSUME NEW t \in chosen
               PROVE  LET q == actions[t]  r == RowFor(view[p], t)
                      IN  /\ actions'[t] = Append(q, r)
                          /\ Append(q, r) \in Seq(Row)
                          /\ Len(Append(q, r)) = Len(q) + 1
                          /\ Append(q, r)[Len(q) + 1] = r
                          /\ \A n \in 1..Len(q) : Append(q, r)[n] = q[n]
    BY Zenon
  <2>1. actions'[t] = Append(actions[t], RowFor(view[p], t))
    BY <1>1, <1>2
  <2>2. \A q \in Seq(Row), r \in Row :
          /\ Append(q, r) \in Seq(Row)
          /\ Len(Append(q, r)) = Len(q) + 1
          /\ Append(q, r)[Len(q) + 1] = r
          /\ \A n \in 1..Len(q) : Append(q, r)[n] = q[n]
    OBVIOUS
  <2>3. QED BY <1>2, <1>4, <1>5, <2>1, <2>2
<1>7. \A t \in Targets \ chosen : actions'[t] = actions[t]
  BY <1>1
<1>8. actions' \in [Targets -> Seq(Row)]
  <2>1. \A t \in Targets : actions'[t] \in Seq(Row)
    BY <1>5, <1>6, <1>7
  <2>2. actions' = [t \in Targets |-> actions'[t]]
    BY <1>1
  <2>3. QED BY <2>1, <2>2
<1>9. \A t \in Targets : Len(actions'[t]) <= MaxRows
  BY <1>2, <1>5, <1>6, <1>7, AutomationAssumption
<1>10. \A t \in Targets : Len(actions[t]) \in Nat
  BY <1>5
<1>11. Ids' = Ids \cup NewIds(chosen)
  <2>1. ASSUME NEW i \in Ids'
        PROVE  i \in Ids \cup NewIds(chosen)
    <3>1. /\ i \in Targets \X (1..MaxRows) /\ i[1] \in Targets /\ i[2] \in 1..MaxRows
          /\ i = <<i[1], i[2]>> /\ i[2] <= Len(actions'[i[1]])
      BY <2>1 DEF Ids
    <3>2. CASE i[2] <= Len(actions[i[1]])
      BY <3>1, <3>2 DEF Ids
    <3>3. CASE ~(i[2] <= Len(actions[i[1]]))
      <4>1. i[1] \in chosen
        BY <1>7, <3>1, <3>3
      <4>2. i[2] = Len(actions[i[1]]) + 1
        BY <1>6, <1>10, <3>1, <3>3, <4>1
      <4>3. QED BY <3>1, <4>1, <4>2 DEF NewIds
    <3>4. QED BY <3>2, <3>3
  <2>2. ASSUME NEW i \in Ids
        PROVE  i \in Ids'
    <3>1. i \in Targets \X (1..MaxRows) /\ i[1] \in Targets /\ i[2] \in Nat
          /\ i[2] <= Len(actions[i[1]])
      BY <2>2 DEF Ids
    <3>2. i[2] <= Len(actions'[i[1]])
      BY <1>6, <1>7, <1>10, <3>1
    <3>3. QED BY <3>1, <3>2 DEF Ids
  <2>3. ASSUME NEW t \in chosen
        PROVE  <<t, Len(actions[t]) + 1>> \in Ids'
    <3>1. Len(actions[t]) + 1 \in 1..MaxRows /\ Len(actions[t]) + 1 <= Len(actions'[t])
      BY <1>2, <1>6, <1>10, AutomationAssumption
    <3>2. QED BY <1>2, <3>1 DEF Ids
  <2>4. QED BY <2>1, <2>2, <2>3 DEF NewIds
<1>12. Ids \cap NewIds(chosen) = {}
  <2> SUFFICES ASSUME NEW t \in chosen
               PROVE  <<t, Len(actions[t]) + 1>> \notin Ids
    BY DEF NewIds
  <2>1. ~(Len(actions[t]) + 1 <= Len(actions[t]))
    BY <1>2, <1>10
  <2>2. QED BY <2>1 DEF Ids
<1>13. \A j \in Ids : actions'[j[1]][j[2]] = At(j)
  <2> SUFFICES ASSUME NEW j \in Ids
               PROVE  actions'[j[1]][j[2]] = actions[j[1]][j[2]]
    BY DEF At
  <2>1. j[1] \in Targets /\ j[2] \in 1..Len(actions[j[1]])
    BY IdsNameRows
  <2>2. QED BY <1>6, <1>7, <2>1
<1>14. QED BY <1>1, <1>2, <1>3, <1>6, <1>8, <1>9, <1>11, <1>12, <1>13 DEF Inserted

(* The rows of an INSERT are as the planner wants them, and not yet run.     *)
LEMMA InsertedRows ==
  ASSUME TypeOK, NEW p \in Procs, NEW chosen, Inserted(p, chosen)
  PROVE  \A i \in NewIds(chosen) :
           /\ i[1] \in chosen /\ i[1] \in Targets
           /\ actions'[i[1]][i[2]].runs = 0
           /\ actions'[i[1]][i[2]].created = day
           /\ actions'[i[1]][i[2]].status =
                IF view[p].rules[TypeOf(i[1])].mode = "auto" THEN "approved" ELSE "proposed"
           /\ i \in todo'[p] <=> view[p].rules[TypeOf(i[1])].mode = "auto"
<1> SUFFICES ASSUME NEW i \in NewIds(chosen)
             PROVE  /\ i[1] \in chosen /\ i[1] \in Targets
                    /\ actions'[i[1]][i[2]].runs = 0
                    /\ actions'[i[1]][i[2]].created = day
                    /\ actions'[i[1]][i[2]].status =
                         IF view[p].rules[TypeOf(i[1])].mode = "auto"
                         THEN "approved" ELSE "proposed"
                    /\ i \in todo'[p] <=> view[p].rules[TypeOf(i[1])].mode = "auto"
  OBVIOUS
<1>1. PICK t \in chosen : i = <<t, Len(actions[t]) + 1>>
  BY DEF NewIds
<1>2. i[1] = t /\ i[2] = Len(actions[t]) + 1
  BY <1>1
<1>3. t \in Targets /\ InForce(view[p].rules[TypeOf(t)])
      /\ actions'[i[1]][i[2]] = RowFor(view[p], t)
  BY <1>2 DEF Inserted
<1>4. todo'[p] = {<<u, Len(actions[u]) + 1>> :
                    u \in {x \in chosen : view[p].rules[TypeOf(x)].mode = "auto"}}
  BY DEF Inserted, TypeOK
<1>5. i \in todo'[p] <=> view[p].rules[TypeOf(t)].mode = "auto"
  BY <1>1, <1>4
<1>6. /\ actions'[i[1]][i[2]].runs = 0 /\ actions'[i[1]][i[2]].created = day
      /\ actions'[i[1]][i[2]].status =
           IF view[p].rules[TypeOf(t)].mode = "auto" THEN "approved" ELSE "proposed"
  BY <1>3, RowForIsRow
<1>7. QED BY <1>2, <1>3, <1>5, <1>6

-----------------------------------------------------------------------------
(* Types.                                                                    *)

(* The ledger is as it was: so are the ids and the rows.                     *)
LEMMA SameLedger ==
  ASSUME UNCHANGED actions
  PROVE  Ids' = Ids
BY DEF Ids

(* No rules, no actions, nobody at work.                                     *)
LEMMA InitType == Init => TypeOK
<1> SUFFICES ASSUME Init PROVE TypeOK
  OBVIOUS
<1> USE AutomationAssumption DEF Init
<1>1. \A t \in Targets : actions[t] = <<>> /\ actions[t] \in Seq(Row) /\ Len(actions[t]) = 0
  OBVIOUS
<1>2. Ids = {}
  BY <1>1 DEF Ids
<1>3. NoView \in View
  BY DEF NoView, View
<1>4. actions \in [Targets -> Seq(Row)] /\ \A t \in Targets : Len(actions[t]) <= MaxRows
  BY <1>1
<1>5. QED BY <1>2, <1>3, <1>4 DEF TypeOK, Executing

(* Rules, midnight, and the requests that write briefs.                      *)
LEMMA OthersKeepType ==
  ASSUME TypeOK,
         \/ \E y \in Types : UpsertRule(y) \/ DeleteRule(y)
         \/ \E g \in Generators :
              SeeNoRecommendations(g) \/ InsertRecommendations(g) \/ InsertBriefs(g)
         \/ Midnight
  PROVE  TypeOK'
<1> USE AutomationAssumption DEF writers, local, bounds
<1>0. UNCHANGED <<actions, pc, view, todo, cur, briefs>> /\ Ids' = Ids
  <2>1. UNCHANGED <<actions, pc, view, todo, cur, briefs>>
    BY DEF UpsertRule, DeleteRule, SeeNoRecommendations, InsertRecommendations,
           InsertBriefs, Midnight
  <2>2. QED BY <2>1, SameLedger
<1>1. CASE \E y \in Types : UpsertRule(y) \/ DeleteRule(y)
  <2>1. rule' \in [Types -> Rule \cup {None}]
    BY <1>1 DEF UpsertRule, DeleteRule, TypeOK
  <2>2. edits' \in 0..MaxEdits /\ UNCHANGED <<gen, day, faults>>
    BY <1>1 DEF UpsertRule, DeleteRule, TypeOK
  <2>3. QED BY <1>0, <2>1, <2>2 DEF TypeOK
<1>2. CASE \/ \E g \in Generators :
                SeeNoRecommendations(g) \/ InsertRecommendations(g) \/ InsertBriefs(g)
           \/ Midnight
  <2>1. UNCHANGED <<rule, edits, faults>>
    BY <1>2 DEF SeeNoRecommendations, InsertRecommendations, InsertBriefs, Midnight
  <2>2. /\ gen' \in [Generators -> {"idle", "unseen", "recommended", "done"}]
        /\ day' \in 0..MaxDay
    <3>1. CASE Midnight
      BY <1>2, <3>1 DEF Midnight, TypeOK
    <3>2. CASE ~Midnight
      <4>1. PICK g \in Generators, x \in {"unseen", "recommended", "done"} :
              gen' = [gen EXCEPT ![g] = x]
        BY <1>2, <3>2 DEF SeeNoRecommendations, InsertRecommendations, InsertBriefs
      <4>2. day' = day
        BY <1>2, <3>2 DEF SeeNoRecommendations, InsertRecommendations, InsertBriefs
      <4>3. QED BY <4>1, <4>2 DEF TypeOK
    <3>3. QED BY <3>1, <3>2
  <2>3. QED BY <1>0, <2>1, <2>2 DEF TypeOK
<1>3. QED BY <1>1, <1>2

(* What a planner reads is a view.                                           *)
LEMMA ReadsKeepType ==
  ASSUME TypeOK, NEW p \in Procs, LoadRules(p) \/ LoadPlannerState(p) \/ LoadRuleIds(p)
  PROVE  TypeOK'
<1> USE AutomationAssumption DEF writers, bounds
<1>0. /\ UNCHANGED <<rule, actions, briefs, gen, todo, cur, day, edits, faults>>
      /\ Ids' = Ids /\ view[p] \in View
  <2>1. UNCHANGED <<rule, actions, briefs, gen, todo, cur, day, edits, faults>>
    BY DEF LoadRules, LoadPlannerState, LoadRuleIds
  <2>2. QED BY <2>1, SameLedger DEF TypeOK
<1>1. PICK v \in View : view' = [view EXCEPT ![p] = v]
  <2>1. CASE LoadRules(p)
    <3>1. PICK d \in 0..day : view' = [view EXCEPT ![p].rules = rule, ![p].since = d]
      BY <2>1 DEF LoadRules
    <3>2. view' = [view EXCEPT ![p] = [view[p] EXCEPT !.rules = rule, !.since = d]]
      BY <3>1 DEF TypeOK
    <3>3. rule \in [Types -> Rule \cup {None}] /\ d \in 0..MaxDay
      BY DEF TypeOK
    <3>4. [view[p] EXCEPT !.rules = rule, !.since = d] \in View
      BY <1>0, <3>3 DEF View
    <3>5. QED BY <3>2, <3>4
  <2>2. CASE LoadPlannerState(p)
    <3> DEFINE today == [y \in Types |-> Cardinality(CreatedSince(y, view[p].since))]
    <3>1. view' = [view EXCEPT ![p] = [view[p] EXCEPT !.open = OpenTargets, !.today = today]]
      BY <2>2 DEF LoadPlannerState, TypeOK
    <3>2. today \in [Types -> Nat]
      BY CreatedIsCounted
    <3>3. OpenTargets \subseteq Targets
      BY DEF OpenTargets, IdsIn, Ids
    <3> HIDE DEF today
    <3>4. [view[p] EXCEPT !.open = OpenTargets, !.today = today] \in View
      BY <1>0, <3>2, <3>3 DEF View
    <3>5. QED BY <3>1, <3>4
  <2>3. CASE LoadRuleIds(p)
    <3> DEFINE ids == [y \in Types |-> IF rule[y] = None THEN None ELSE rule[y].id]
    <3>1. view' = [view EXCEPT ![p] = [view[p] EXCEPT !.ids = ids]]
      BY <2>3 DEF LoadRuleIds, TypeOK
    <3>2. ids \in [Types -> 1..MaxEdits \cup {None}]
      BY DEF TypeOK, Rule
    <3> HIDE DEF ids
    <3>3. [view[p] EXCEPT !.ids = ids] \in View
      BY <1>0, <3>2 DEF View
    <3>4. QED BY <3>1, <3>3
  <2>4. QED BY <2>1, <2>2, <2>3
<1>2. view' \in [Procs -> View]
  BY <1>1 DEF TypeOK
<1>3. \E x \in {"rules", "state", "ids"} :
        pc' = [pc EXCEPT ![p] = x] /\ pc[p] \in {"idle", "rules", "state"}
  BY DEF LoadRules, LoadPlannerState, LoadRuleIds
<1>4. QED BY <1>0, <1>2, <1>3 DEF TypeOK, Executing

(* Steps of a process that leave the ledger alone.                           *)
LEMMA WorkKeepsType ==
  ASSUME TypeOK, NEW p \in Procs,
         \/ Load(p) \/ EndBatch(p) \/ CheckCaps(p) \/ Refuse(p) \/ WriteBrief(p)
         \/ WriteFails(p) \/ Throw(p) \/ Lose(p)
  PROVE  TypeOK'
<1> USE AutomationAssumption, NoneIsNothing DEF writers, local, bounds
<1>0. UNCHANGED <<rule, actions, gen, day, edits>> /\ Ids' = Ids
  <2>1. UNCHANGED <<rule, actions, gen, day, edits>>
    BY DEF Load, EndBatch, CheckCaps, Refuse, WriteBrief, WriteFails, Throw, Lose
  <2>2. QED BY <2>1, SameLedger
<1>1. NoView \in View
  BY DEF NoView, View
<1>2. CASE Load(p)
  <2>1. PICK i \in todo[p] :
          /\ todo' = [todo EXCEPT ![p] = @ \ {i}]
          /\ \/ cur' = [cur EXCEPT ![p] = i] /\ pc' = [pc EXCEPT ![p] = "loaded"]
             \/ UNCHANGED <<cur, pc>>
    BY <1>2 DEF Load
  <2>2. i \in Ids /\ i # None
    BY <2>1, IdsNameRows DEF TypeOK
  <2>3. pc[p] = "batch" /\ UNCHANGED <<briefs, view, faults>>
    BY <1>2 DEF Load
  <2>4. todo' \in [Procs -> SUBSET Ids] /\ cur' \in [Procs -> Ids \cup {None}]
    BY <2>1, <2>2 DEF TypeOK
  <2>5. \A q \in Procs : /\ pc'[q] \in Executing <=> cur'[q] # None
                         /\ todo'[q] # {} => pc'[q] \in Executing \cup {"batch"}
    BY <2>1, <2>2, <2>3 DEF TypeOK, Executing
  <2>6. pc' \in [Procs -> {"idle", "rules", "state", "ids", "batch"} \cup Executing]
    BY <2>1 DEF TypeOK, Executing
  <2>7. QED BY <1>0, <2>3, <2>4, <2>5, <2>6 DEF TypeOK
<1>3. CASE EndBatch(p)
  BY <1>0, <1>3 DEF EndBatch, TypeOK, Executing
<1>4. CASE CheckCaps(p)
  BY <1>0, <1>4 DEF CheckCaps, TypeOK, Executing
<1>5. CASE Refuse(p)
  BY <1>0, <1>5 DEF Refuse, TypeOK, Executing
<1>6. CASE WriteBrief(p) \/ WriteFails(p)
  <2>1. briefs' \in [Keywords -> Nat]
    <3> DEFINE k == cur[p][1]
    <3>1. PICK n \in {0, 1} : briefs' = [briefs EXCEPT ![k] = briefs[k] + n]
      BY <1>6 DEF WriteBrief, WriteFails
    <3> HIDE DEF k
    <3>2. briefs' = [x \in Keywords |-> IF x = k THEN briefs[k] + n ELSE briefs[x]]
      BY <3>1 DEF TypeOK
    <3>3. \A x \in Keywords : briefs'[x] \in Nat
      BY <3>1, <3>2 DEF TypeOK
    <3>4. QED BY <3>2, <3>3
  <2>2. /\ UNCHANGED <<view, todo, cur, faults>> /\ pc[p] = "writing"
        /\ pc' = [pc EXCEPT ![p] = "ok"] \/ pc' = [pc EXCEPT ![p] = "error"]
    BY <1>6 DEF WriteBrief, WriteFails
  <2>3. QED BY <1>0, <2>1, <2>2 DEF TypeOK, Executing
<1>7. CASE Throw(p)
  BY <1>0, <1>7 DEF Throw, TypeOK, Executing
<1>8. CASE Lose(p)
  BY <1>0, <1>1, <1>8 DEF Lose, TypeOK, Executing
<1>9. QED BY <1>2, <1>3, <1>4, <1>5, <1>6, <1>7, <1>8

(* Steps that change one row.                                                *)
LEMMA RowStepsKeepType ==
  ASSUME TypeOK,
         \/ \E p \in Procs : DryRun(p) \/ FindBrief(p) \/ RecordOutcome(p)
         \/ \E p \in Procs, i \in Ids : Approve(p, i)
         \/ \E i \in Ids : Reject(i)
  PROVE  TypeOK'
<1> USE AutomationAssumption, NoneIsNothing DEF writers, local, bounds
<1>1. \E i \in Ids, r \in Row : OneRow(i, r)
  <2>1. ASSUME NEW p \in Procs, DryRun(p) \/ FindBrief(p)
        PROVE  \E i \in Ids, r \in Row : OneRow(i, r)
    <3>1. cur[p] \in Ids
      BY <2>1 DEF DryRun, FindBrief, TypeOK, Executing
    <3>2. PICK i \in Ids : i = cur[p]
      BY <3>1
    <3>3. At(i) \in Row /\ [At(i) EXCEPT !.runs = @ + 1] \in Row
      <4>1. At(i) \in Row
        BY IdsNameRows
      <4>2. QED BY <4>1 DEF Row
    <3>4. OneRow(i, [At(i) EXCEPT !.runs = @ + 1])
      BY <2>1, <3>2, CallIsOneRow DEF DryRun, FindBrief
    <3>5. QED BY <3>3, <3>4
  <2>2. ASSUME NEW i \in Ids, NEW s \in Open \cup Closed, Mark(i, s)
        PROVE  \E j \in Ids, r \in Row : OneRow(j, r)
    <3>1. At(i) \in Row /\ [At(i) EXCEPT !.status = s] \in Row
      <4>1. At(i) \in Row
        BY IdsNameRows
      <4>2. QED BY <4>1 DEF Row
    <3>2. QED BY <2>2, <3>1, MarkIsOneRow
  <2>3. ASSUME NEW p \in Procs, RecordOutcome(p)
        PROVE  \E i \in Ids, r \in Row : OneRow(i, r)
    <3>1. cur[p] \in Ids
      BY <2>3 DEF RecordOutcome, TypeOK, Executing
    <3>2. \E s \in Open \cup Closed : Mark(cur[p], s)
      BY <2>3 DEF RecordOutcome, Open, Closed
    <3>3. PICK i \in Ids : i = cur[p]
      BY <3>1
    <3>4. QED BY <2>2, <3>2, <3>3
  <2>4. QED BY <2>1, <2>2, <2>3 DEF Approve, Reject, Open, Closed
<1>2. /\ actions' \in [Targets -> Seq(Row)] /\ Ids' = Ids
      /\ \A t \in Targets : Len(actions'[t]) <= MaxRows
  BY <1>1 DEF OneRow, TypeOK
<1>3. ASSUME NEW p \in Procs, DryRun(p) \/ FindBrief(p) \/ RecordOutcome(p)
      PROVE  TypeOK'
  <2>1. /\ UNCHANGED <<rule, briefs, gen, view, todo, day, edits, faults>>
        /\ \/ cur' = cur /\ cur[p] # None /\ pc' \in {[pc EXCEPT ![p] = x] : x \in Executing}
           \/ cur' = [cur EXCEPT ![p] = None] /\ pc' = [pc EXCEPT ![p] = "batch"]
    BY <1>3 DEF DryRun, FindBrief, RecordOutcome, Executing, TypeOK
  <2>2. QED BY <1>2, <2>1 DEF TypeOK, Executing
<1>4. ASSUME NEW p \in Procs, NEW i \in Ids, Approve(p, i)
      PROVE  TypeOK'
  BY <1>2, <1>4 DEF Approve, TypeOK, Executing
<1>5. ASSUME NEW i \in Ids, Reject(i)
      PROVE  TypeOK'
  BY <1>2, <1>5 DEF Reject, TypeOK
<1>6. QED BY <1>3, <1>4, <1>5

(* The INSERT of a pass.                                                     *)
LEMMA ProposeKeepsType ==
  ASSUME TypeOK, NEW p \in Procs, Propose(p)
  PROVE  TypeOK'
<1> USE AutomationAssumption, NoneIsNothing DEF writers, bounds
<1>1. PICK chosen : Inserted(p, chosen)
  BY ProposeInserts
<1>2. /\ UNCHANGED <<rule, briefs, gen, cur, day, edits, faults>>
      /\ view' = [view EXCEPT ![p] = NoView] /\ pc' = [pc EXCEPT ![p] = "batch"]
      /\ pc[p] = "ids"
  BY DEF Propose
<1>3. NoView \in View
  BY DEF NoView, View
<1>4. \A q \in Procs : todo'[q] \subseteq Ids'
  BY <1>1 DEF Inserted, NewIds, TypeOK
<1>5. todo' \in [Procs -> SUBSET (Ids')] /\ \A q \in Procs \ {p} : todo'[q] = todo[q]
  BY <1>1, <1>4 DEF Inserted, TypeOK
<1>6. cur' \in [Procs -> Ids' \cup {None}]
  BY <1>1, <1>2 DEF Inserted, TypeOK
<1>7. actions' \in [Targets -> Seq(Row)] /\ \A t \in Targets : Len(actions'[t]) <= MaxRows
  BY <1>1 DEF Inserted
<1>8. QED BY <1>2, <1>3, <1>5, <1>6, <1>7 DEF TypeOK, Executing

(* Every step keeps the types.                                               *)
LEMMA NextKeepsType ==
  ASSUME TypeOK, Next
  PROVE  TypeOK'
BY OthersKeepType, ReadsKeepType, WorkKeepsType, RowStepsKeepType, ProposeKeepsType
   DEF Next, Plan, Execute

(* The values of the ledger and of what every process keeps.                 *)
THEOREM AutomationTypeOK == Spec => []TypeOK
<1>1. TypeOK /\ UNCHANGED vars => TypeOK'
  BY DEF vars, writers, local, bounds, TypeOK, Ids
<1>2. TypeOK /\ [Next]_vars => TypeOK'
  BY <1>1, NextKeepsType
<1>3. QED BY <1>2, InitType, PTL DEF Spec

-----------------------------------------------------------------------------
(* Who holds a row.                                                          *)

(* What RunInv says of the row a process has in hand, and of those ahead.    *)
LEMMA HeldRow ==
  ASSUME RunInv, NEW p \in Procs, NEW i \in Ids
  PROVE  /\ i \in todo[p] => /\ At(i).status = "approved" /\ At(i).runs = 0
                             /\ cur[p] # i
         /\ cur[p] = i =>
              /\ At(i).status = "approved"
              /\ At(i).runs = IF pc[p] \in {"loaded", "checked"} THEN 0 ELSE 1
BY IdsNameRows DEF RunInv, HeldIsApproved

(* The same of the next state, put together.                                 *)
LEMMA HeldNext ==
  ASSUME TypeOK',
         \A q \in Procs : \A j \in todo'[q] :
           /\ actions'[j[1]][j[2]].status = "approved" /\ actions'[j[1]][j[2]].runs = 0
           /\ cur'[q] # j,
         \A q \in Procs : \A j \in Ids' : cur'[q] = j =>
           /\ actions'[j[1]][j[2]].status = "approved"
           /\ actions'[j[1]][j[2]].runs =
                IF pc'[q] \in {"loaded", "checked"} THEN 0 ELSE 1
  PROVE  HeldIsApproved'
<1>1. \A q \in Procs : cur'[q] \in Ids' \cup {None}
  BY DEF TypeOK
<1>2. QED BY <1>1 DEF HeldIsApproved, At

(* Nobody holds anything in the initial state.                               *)
LEMMA InitRun == Init => RunInv
<1> SUFFICES ASSUME Init PROVE RunInv
  OBVIOUS
<1>1. TypeOK
  BY InitType
<1>2. \A p \in Procs : todo[p] = {} /\ cur[p] = None
  BY DEF Init
<1>3. Ids = {}
  BY DEF Init, Ids
<1>4. QED BY <1>1, <1>2, <1>3 DEF RunInv, HeldIsApproved, HeldByOne, RunsOnceApproved

(* A step that leaves the ledger alone, and after which a process holds no   *)
(* more than before.                                                         *)
LEMMA HandsKeepRun ==
  ASSUME RunInv, TypeOK', UNCHANGED actions,
         \A q \in Procs :
           /\ todo'[q] \subseteq todo[q]
           /\ \/ cur'[q] = None
              \/ /\ cur'[q] = cur[q]
                 /\ pc[q] \in {"loaded", "checked"} <=> pc'[q] \in {"loaded", "checked"}
              \/ cur'[q] \in todo[q] \ todo'[q] /\ pc'[q] = "loaded"
  PROVE  RunInv'
<1>1. Ids' = Ids
  BY SameLedger
<1>2. \A q \in Procs : todo[q] \subseteq Ids
  BY DEF RunInv, TypeOK
<1>3. \A q \in Procs : \A j \in todo'[q] :
        /\ actions'[j[1]][j[2]].status = "approved" /\ actions'[j[1]][j[2]].runs = 0
        /\ cur'[q] # j
  <2> SUFFICES ASSUME NEW q \in Procs, NEW j \in todo'[q]
               PROVE  At(j).status = "approved" /\ At(j).runs = 0 /\ cur'[q] # j
    BY DEF At
  <2>1. j \in todo[q] /\ j \in Ids /\ j # None
    BY <1>2, IdsNameRows DEF RunInv
  <2>2. QED BY <2>1, HeldRow
<1>4. \A q \in Procs : \A j \in Ids' : cur'[q] = j =>
        /\ actions'[j[1]][j[2]].status = "approved"
        /\ actions'[j[1]][j[2]].runs = IF pc'[q] \in {"loaded", "checked"} THEN 0 ELSE 1
  <2> SUFFICES ASSUME NEW q \in Procs, NEW j \in Ids, cur'[q] = j
               PROVE  /\ At(j).status = "approved"
                      /\ At(j).runs = IF pc'[q] \in {"loaded", "checked"} THEN 0 ELSE 1
    BY <1>1 DEF At
  <2>1. j # None
    BY IdsNameRows DEF RunInv
  <2>2. QED BY <2>1, HeldRow
<1>5. HeldByOne'
  <2>1. \A j \in Ids : j # None
    BY IdsNameRows DEF RunInv
  <2>2. \A q \in Procs, j \in Ids : Holds(q, j)' => Holds(q, j)
    BY <2>1 DEF Holds
  <2>3. QED BY <1>1, <2>2 DEF RunInv, HeldByOne
<1>6. RunsOnceApproved'
  BY <1>1 DEF RunInv, RunsOnceApproved, At
<1>7. QED BY <1>3, <1>4, <1>5, <1>6, HeldNext DEF RunInv

(* Steps that move no row to or from a process.                              *)
LEMMA QuietStepsKeepRun ==
  ASSUME RunInv, TypeOK',
         \/ \E y \in Types : UpsertRule(y) \/ DeleteRule(y)
         \/ \E g \in Generators :
              SeeNoRecommendations(g) \/ InsertRecommendations(g) \/ InsertBriefs(g)
         \/ Midnight
         \/ \E p \in Procs :
              \/ LoadRules(p) \/ LoadPlannerState(p) \/ LoadRuleIds(p)
              \/ EndBatch(p) \/ CheckCaps(p) \/ WriteBrief(p) \/ WriteFails(p)
  PROVE  RunInv'
<1> USE DEF writers, local, bounds
<1>1. UNCHANGED <<actions, todo, cur>>
  BY DEF UpsertRule, DeleteRule, SeeNoRecommendations, InsertRecommendations,
         InsertBriefs, Midnight, LoadRules, LoadPlannerState, LoadRuleIds, EndBatch,
         CheckCaps, WriteBrief, WriteFails
<1>2. \A q \in Procs : \/ pc'[q] = pc[q]
                       \/ pc[q] \in {"idle", "rules", "state", "batch"}
                       \/ pc[q] = "loaded" /\ pc'[q] = "checked"
                       \/ pc[q] = "writing" /\ pc'[q] \in {"ok", "error"}
  <2>1. pc' = pc \/ \E p \in Procs, x \in {"rules", "state", "ids", "idle", "checked", "ok", "error"} :
          /\ pc' = [pc EXCEPT ![p] = x]
          /\ \/ pc[p] \in {"idle", "rules", "state", "batch"}
             \/ pc[p] = "loaded" /\ x = "checked"
             \/ pc[p] = "writing" /\ x \in {"ok", "error"}
    <3>1. CASE \E p \in Procs :
                 \/ LoadRules(p) \/ LoadPlannerState(p) \/ LoadRuleIds(p)
                 \/ EndBatch(p) \/ CheckCaps(p) \/ WriteBrief(p) \/ WriteFails(p)
      BY <3>1 DEF LoadRules, LoadPlannerState, LoadRuleIds, EndBatch, CheckCaps,
                  WriteBrief, WriteFails
    <3>2. CASE \/ \E y \in Types : UpsertRule(y) \/ DeleteRule(y)
               \/ \E g \in Generators :
                    SeeNoRecommendations(g) \/ InsertRecommendations(g) \/ InsertBriefs(g)
               \/ Midnight
      BY <3>2 DEF UpsertRule, DeleteRule, SeeNoRecommendations, InsertRecommendations,
                  InsertBriefs, Midnight
    <3>3. QED BY <3>1, <3>2
  <2>2. ASSUME NEW p \in Procs, NEW x, pc' = [pc EXCEPT ![p] = x]
        PROVE  pc'[p] = x /\ \A q \in Procs \ {p} : pc'[q] = pc[q]
    BY <2>2 DEF RunInv, TypeOK
  <2>3. QED BY <2>1, <2>2
<1>3. \A q \in Procs : pc[q] \in {"idle", "rules", "state", "batch"} => cur[q] = None
  BY DEF RunInv, TypeOK, Executing
<1>4. \A q \in Procs :
        /\ todo'[q] \subseteq todo[q]
        /\ \/ cur'[q] = None
           \/ /\ cur'[q] = cur[q]
              /\ pc[q] \in {"loaded", "checked"} <=> pc'[q] \in {"loaded", "checked"}
  BY <1>1, <1>2, <1>3
<1>5. QED BY <1>1, <1>4, HandsKeepRun

(* Taking a row in hand, and dropping it.                                    *)
LEMMA HandStepsKeepRun ==
  ASSUME RunInv, TypeOK', NEW p \in Procs, Load(p) \/ Refuse(p) \/ Throw(p) \/ Lose(p)
  PROVE  RunInv'
<1> USE DEF writers, local, bounds
<1>1. UNCHANGED actions
  BY DEF Load, Refuse, Throw, Lose
<1>2. \A q \in Procs \ {p} : UNCHANGED <<todo[q], cur[q], pc[q]>>
  BY DEF Load, Refuse, Throw, Lose, RunInv, TypeOK
<1>3. /\ todo'[p] \subseteq todo[p]
      /\ \/ cur'[p] = None
         \/ cur'[p] \in todo[p] \ todo'[p] /\ pc'[p] = "loaded"
  <2>1. CASE Load(p)
    <3>1. PICK i \in todo[p] :
            /\ todo' = [todo EXCEPT ![p] = @ \ {i}]
            /\ \/ cur' = [cur EXCEPT ![p] = i] /\ pc' = [pc EXCEPT ![p] = "loaded"]
               \/ UNCHANGED <<cur, pc>>
      BY <2>1 DEF Load
    <3>2. cur[p] = None
      BY <2>1 DEF Load, RunInv, TypeOK, Executing
    <3>3. QED BY <3>1, <3>2 DEF RunInv, TypeOK
  <2>2. CASE Refuse(p) \/ Throw(p) \/ Lose(p)
    BY <2>2 DEF Refuse, Throw, Lose, RunInv, TypeOK
  <2>3. QED BY <2>1, <2>2
<1>4. \A q \in Procs :
        /\ todo'[q] \subseteq todo[q]
        /\ \/ cur'[q] = None
           \/ /\ cur'[q] = cur[q]
              /\ pc[q] \in {"loaded", "checked"} <=> pc'[q] \in {"loaded", "checked"}
           \/ cur'[q] \in todo[q] \ todo'[q] /\ pc'[q] = "loaded"
  BY <1>2, <1>3
<1>5. QED BY <1>1, <1>4, HandsKeepRun

(* The adapter is called for the row in hand, for the first time.            *)
LEMMA CallKeepsRun ==
  ASSUME RunInv, TypeOK', NEW p \in Procs, DryRun(p) \/ FindBrief(p)
  PROVE  RunInv'
<1>1. /\ pc[p] = "checked" /\ CallAdapter(p) /\ UNCHANGED <<todo, cur>>
      /\ \E x \in {"ok", "writing", "error"} : pc' = [pc EXCEPT ![p] = x]
  BY DEF DryRun, FindBrief, writers
<1>2. PICK i \in Ids : i = cur[p]
  BY <1>1 DEF RunInv, TypeOK, Executing
<1>3. /\ At(i).status = "approved" /\ At(i).runs = 0
      /\ At(i) \in Row
  BY <1>1, <1>2, HeldRow, IdsNameRows DEF RunInv
<1>4. OneRow(i, [At(i) EXCEPT !.runs = @ + 1])
  BY <1>1, <1>2, CallIsOneRow DEF RunInv
<1>5. /\ Ids' = Ids /\ \A j \in Ids \ {i} : actions'[j[1]][j[2]] = At(j)
      /\ actions'[i[1]][i[2]].status = "approved" /\ actions'[i[1]][i[2]].runs = 1
  BY <1>3, <1>4 DEF OneRow, Row
<1>6. \A q \in Procs : todo[q] \subseteq Ids /\ i \notin todo[q] /\ (q # p => cur[q] # i)
  BY <1>2, HeldRow DEF RunInv, TypeOK, HeldByOne, Holds
<1>7. pc' \in [Procs -> {"idle", "rules", "state", "ids", "batch"} \cup Executing]
      /\ pc'[p] \notin {"loaded", "checked"} /\ \A q \in Procs \ {p} : pc'[q] = pc[q]
  BY <1>1 DEF RunInv, TypeOK, Executing
<1>8. \A q \in Procs : \A j \in todo'[q] :
        /\ actions'[j[1]][j[2]].status = "approved" /\ actions'[j[1]][j[2]].runs = 0
        /\ cur'[q] # j
  BY <1>1, <1>5, <1>6, HeldRow
<1>9. \A q \in Procs : \A j \in Ids' : cur'[q] = j =>
        /\ actions'[j[1]][j[2]].status = "approved"
        /\ actions'[j[1]][j[2]].runs = IF pc'[q] \in {"loaded", "checked"} THEN 0 ELSE 1
  BY <1>1, <1>2, <1>5, <1>6, <1>7, HeldRow
<1>10. HeldByOne'
  BY <1>1, <1>5 DEF RunInv, HeldByOne, Holds
<1>11. RunsOnceApproved'
  BY <1>5 DEF RunInv, RunsOnceApproved, At
<1>12. QED BY <1>8, <1>9, <1>10, <1>11, HeldNext DEF RunInv

(* The outcome closes the row, and nobody holds it any more.                 *)
LEMMA OutcomeKeepsRun ==
  ASSUME RunInv, TypeOK', NEW p \in Procs, RecordOutcome(p)
  PROVE  RunInv'
<1>1. PICK s \in {"executed", "failed"} : Mark(cur[p], s)
  BY DEF RecordOutcome
<1>2. /\ pc[p] \in {"ok", "error"} /\ todo' = todo
      /\ cur' = [cur EXCEPT ![p] = None] /\ pc' = [pc EXCEPT ![p] = "batch"]
  BY DEF RecordOutcome
<1>3. PICK i \in Ids : i = cur[p]
  BY <1>2 DEF RunInv, TypeOK, Executing
<1>4. At(i).runs = 1 /\ At(i) \in Row /\ i # None
  BY <1>2, <1>3, HeldRow, IdsNameRows DEF RunInv
<1>5. OneRow(i, [At(i) EXCEPT !.status = s])
  BY <1>1, <1>3, MarkIsOneRow DEF RunInv, Open, Closed
<1>6. /\ Ids' = Ids /\ \A j \in Ids \ {i} : actions'[j[1]][j[2]] = At(j)
      /\ actions'[i[1]][i[2]].status = s /\ actions'[i[1]][i[2]].runs = 1
  BY <1>4, <1>5 DEF OneRow, Row
<1>7. \A q \in Procs : todo[q] \subseteq Ids /\ i \notin todo[q] /\ (q # p => cur[q] # i)
  BY <1>3, HeldRow DEF RunInv, TypeOK, HeldByOne, Holds
<1>8. /\ cur'[p] = None
      /\ \A q \in Procs \ {p} : cur'[q] = cur[q] /\ pc'[q] = pc[q]
  BY <1>2 DEF RunInv, TypeOK
<1>9. \A q \in Procs : \A j \in todo'[q] :
        /\ actions'[j[1]][j[2]].status = "approved" /\ actions'[j[1]][j[2]].runs = 0
        /\ cur'[q] # j
  <2>1. \A j \in Ids : j # None
    BY IdsNameRows DEF RunInv
  <2>2. QED BY <1>2, <1>6, <1>7, <1>8, <2>1, HeldRow
<1>10. \A q \in Procs : \A j \in Ids' : cur'[q] = j =>
         /\ actions'[j[1]][j[2]].status = "approved"
         /\ actions'[j[1]][j[2]].runs = IF pc'[q] \in {"loaded", "checked"} THEN 0 ELSE 1
  <2>1. \A j \in Ids : j # None
    BY IdsNameRows DEF RunInv
  <2>2. QED BY <1>6, <1>7, <1>8, <2>1, HeldRow
<1>11. HeldByOne'
  <2>1. \A q \in Procs, j \in Ids : Holds(q, j)' => Holds(q, j)
    <3>1. \A j \in Ids : j # None
      BY IdsNameRows DEF RunInv
    <3>2. QED BY <1>2, <1>8, <3>1 DEF Holds
  <2>2. QED BY <1>6, <2>1 DEF RunInv, HeldByOne
<1>12. RunsOnceApproved'
  BY <1>6 DEF RunInv, RunsOnceApproved, At
<1>13. QED BY <1>9, <1>10, <1>11, <1>12, HeldNext DEF RunInv

(* A proposed row has not run and nobody holds it: the UPDATE that decides   *)
(* it makes whoever approves it its only holder.                             *)
LEMMA DecidingKeepsRun ==
  ASSUME RunInv, TypeOK', NEW i \in Ids,
         Reject(i) \/ \E p \in Procs : Approve(p, i)
  PROVE  RunInv'
<1> USE DEF writers, local, bounds
<1>1. /\ At(i).status = "proposed" /\ cur' = cur
      /\ \E s \in {"approved", "rejected"} : Mark(i, s)
  BY DEF Reject, Approve
<1>2. At(i).runs = 0 /\ At(i) \in Row /\ i # None
  BY <1>1, IdsNameRows DEF RunInv, RunsOnceApproved, Row
<1>3. \A q \in Procs : todo[q] \subseteq Ids /\ ~Holds(q, i)
  BY <1>1, HeldRow DEF RunInv, TypeOK, Holds
<1>4. PICK s \in {"approved", "rejected"} : Mark(i, s)
  BY <1>1
<1>5. OneRow(i, [At(i) EXCEPT !.status = s])
  BY <1>4, MarkIsOneRow DEF RunInv, Open, Closed
<1>6. /\ Ids' = Ids /\ \A j \in Ids \ {i} : actions'[j[1]][j[2]] = At(j)
      /\ actions'[i[1]][i[2]].status = s /\ actions'[i[1]][i[2]].runs = 0
  BY <1>2, <1>5 DEF OneRow, Row
<1>7. RunsOnceApproved'
  BY <1>6 DEF RunInv, RunsOnceApproved, At
<1>8. CASE Reject(i)
  <2>1. UNCHANGED <<todo, cur, pc>>
    BY <1>8 DEF Reject
  <2>2. \A q \in Procs : \A j \in todo'[q] :
          /\ actions'[j[1]][j[2]].status = "approved" /\ actions'[j[1]][j[2]].runs = 0
          /\ cur'[q] # j
    BY <1>3, <1>6, <2>1, HeldRow DEF Holds
  <2>3. \A q \in Procs : \A j \in Ids' : cur'[q] = j =>
          /\ actions'[j[1]][j[2]].status = "approved"
          /\ actions'[j[1]][j[2]].runs = IF pc'[q] \in {"loaded", "checked"} THEN 0 ELSE 1
    BY <1>3, <1>6, <2>1, HeldRow DEF Holds
  <2>4. HeldByOne'
    BY <1>6, <2>1 DEF RunInv, HeldByOne, Holds
  <2>5. QED BY <1>7, <2>2, <2>3, <2>4, HeldNext DEF RunInv
<1>9. ASSUME NEW p \in Procs, Approve(p, i)
      PROVE  RunInv'
  <2>1. /\ pc[p] = "idle" /\ cur[p] = None
        /\ todo' = [todo EXCEPT ![p] = {i}] /\ pc' = [pc EXCEPT ![p] = "batch"]
    BY <1>9 DEF Approve, RunInv, TypeOK, Executing
  <2>2. /\ todo'[p] = {i} /\ cur'[p] = None
        /\ \A q \in Procs \ {p} : todo'[q] = todo[q] /\ cur'[q] = cur[q] /\ pc'[q] = pc[q]
    BY <1>1, <2>1 DEF RunInv, TypeOK
  <2>3. actions'[i[1]][i[2]].status = "approved"
    <3>1. Mark(i, "approved")
      BY <1>9 DEF Approve
    <3>2. OneRow(i, [At(i) EXCEPT !.status = "approved"])
      BY <3>1, MarkIsOneRow DEF RunInv, Open
    <3>3. QED BY <1>2, <3>2 DEF OneRow, Row
  <2>4. \A q \in Procs : \A j \in todo'[q] :
          /\ actions'[j[1]][j[2]].status = "approved" /\ actions'[j[1]][j[2]].runs = 0
          /\ cur'[q] # j
    BY <1>2, <1>3, <1>6, <2>2, <2>3, HeldRow DEF Holds
  <2>5. \A q \in Procs : \A j \in Ids' : cur'[q] = j =>
          /\ actions'[j[1]][j[2]].status = "approved"
          /\ actions'[j[1]][j[2]].runs = IF pc'[q] \in {"loaded", "checked"} THEN 0 ELSE 1
    <3>1. \A j \in Ids : j # None
      BY IdsNameRows DEF RunInv
    <3>2. QED BY <1>3, <1>6, <2>2, <3>1, HeldRow DEF Holds
  <2>6. HeldByOne'
    <3>1. \A j \in Ids : j # None
      BY IdsNameRows DEF RunInv
    <3>2. \A q \in Procs, j \in Ids : Holds(q, j)' => Holds(q, j) \/ (q = p /\ j = i)
      BY <2>2, <3>1 DEF Holds
    <3>3. \A q \in Procs : Holds(q, i)' => q = p
      BY <1>3, <3>2
    <3>4. \A q \in Procs, j \in Ids : j # i /\ Holds(q, j)' => Holds(q, j)
      BY <3>2
    <3>5. QED BY <1>6, <3>3, <3>4 DEF RunInv, HeldByOne
  <2>7. QED BY <1>7, <2>4, <2>5, <2>6, HeldNext DEF RunInv
<1>10. QED BY <1>8, <1>9

(* The rows a pass inserts were nobody's before, and the approved ones are   *)
(* its own.                                                                  *)
LEMMA ProposeKeepsRun ==
  ASSUME RunInv, TypeOK', NEW p \in Procs, Propose(p)
  PROVE  RunInv'
<1>1. PICK chosen : Inserted(p, chosen)
  BY ProposeInserts DEF RunInv
<1>2. /\ pc[p] = "ids" /\ cur' = cur /\ pc' = [pc EXCEPT ![p] = "batch"]
      /\ cur[p] = None
  BY DEF Propose, RunInv, TypeOK, Executing
<1>3. \A i \in NewIds(chosen) :
        /\ actions'[i[1]][i[2]].runs = 0
        /\ actions'[i[1]][i[2]].status \in {"approved", "proposed"}
        /\ i \in todo'[p] => actions'[i[1]][i[2]].status = "approved"
  BY <1>1, InsertedRows DEF RunInv
<1>4. /\ Ids' = Ids \cup NewIds(chosen) /\ Ids \cap NewIds(chosen) = {}
      /\ \A j \in Ids : actions'[j[1]][j[2]] = At(j)
  BY <1>1 DEF Inserted
<1>5. /\ todo'[p] \subseteq NewIds(chosen)
      /\ \A q \in Procs \ {p} : todo'[q] = todo[q] /\ pc'[q] = pc[q]
  BY <1>1, <1>2 DEF Inserted, NewIds, RunInv, TypeOK
<1>6. \A q \in Procs : todo[q] \subseteq Ids /\ cur[q] \in Ids \cup {None}
  BY DEF RunInv, TypeOK
<1>7. \A j \in Ids' : j # None
  BY NoneIsNothing DEF Ids
<1>8. \A q \in Procs : \A j \in todo'[q] :
        /\ actions'[j[1]][j[2]].status = "approved" /\ actions'[j[1]][j[2]].runs = 0
        /\ cur'[q] # j
  <2>1. \A j \in todo'[p] : j \in Ids'
    BY <1>4, <1>5
  <2>2. \A q \in Procs \ {p} : \A j \in todo'[q] : j \in Ids /\ j \in todo[q]
    BY <1>5, <1>6
  <2>3. \A j \in todo'[p] : /\ actions'[j[1]][j[2]].status = "approved"
                            /\ actions'[j[1]][j[2]].runs = 0 /\ cur'[p] # j
    BY <1>2, <1>3, <1>5, <1>7, <2>1
  <2>4. QED BY <1>2, <1>4, <2>2, <2>3, HeldRow
<1>9. \A q \in Procs : \A j \in Ids' : cur'[q] = j =>
        /\ actions'[j[1]][j[2]].status = "approved"
        /\ actions'[j[1]][j[2]].runs = IF pc'[q] \in {"loaded", "checked"} THEN 0 ELSE 1
  <2> SUFFICES ASSUME NEW q \in Procs, NEW j \in Ids', cur'[q] = j
               PROVE  /\ actions'[j[1]][j[2]].status = "approved"
                      /\ actions'[j[1]][j[2]].runs =
                           IF pc'[q] \in {"loaded", "checked"} THEN 0 ELSE 1
    OBVIOUS
  <2>1. j \in Ids /\ q # p /\ cur[q] = j
    BY <1>2, <1>6, <1>7
  <2>2. QED BY <1>4, <1>5, <2>1, HeldRow
<1>10. HeldByOne'
  <2>1. \A q \in Procs, j \in Ids' : Holds(q, j)' =>
          (j \in Ids /\ Holds(q, j)) \/ (j \in NewIds(chosen) /\ q = p)
    <3>1. \A q \in Procs \ {p}, j \in Ids' : Holds(q, j)' => j \in Ids /\ Holds(q, j)
      BY <1>2, <1>5, <1>6, <1>7 DEF Holds
    <3>2. \A j \in Ids' : Holds(p, j)' => j \in NewIds(chosen)
      BY <1>2, <1>5, <1>7 DEF Holds
    <3>3. QED BY <3>1, <3>2
  <2>2. QED BY <1>4, <2>1 DEF RunInv, HeldByOne
<1>11. RunsOnceApproved'
  <2> SUFFICES ASSUME NEW i \in Ids'
               PROVE  /\ actions'[i[1]][i[2]].runs <= 1
                      /\ actions'[i[1]][i[2]].runs = 1 =>
                           actions'[i[1]][i[2]].status \notin {"proposed", "rejected"}
    BY DEF RunsOnceApproved, At
  <2>1. CASE i \in Ids
    BY <1>4, <2>1 DEF RunInv, RunsOnceApproved
  <2>2. CASE i \in NewIds(chosen)
    BY <1>3, <2>2
  <2>3. QED BY <1>4, <2>1, <2>2
<1>12. QED BY <1>8, <1>9, <1>10, <1>11, HeldNext DEF RunInv

(* Every step keeps it.                                                      *)
LEMMA NextKeepsRun ==
  ASSUME RunInv, Next
  PROVE  RunInv'
<1>1. TypeOK'
  BY NextKeepsType DEF RunInv
<1>2. QED BY <1>1, QuietStepsKeepRun, HandStepsKeepRun, CallKeepsRun, OutcomeKeepsRun,
             DecidingKeepsRun, ProposeKeepsRun DEF Next, Plan, Execute

(* The rows in the hands of processes are approved, each in the hands of one,*)
(* and have run as far as their holder is.                                   *)
THEOREM AutomationRunInvariant == Spec => []RunInv
<1>1. RunInv /\ UNCHANGED vars => RunInv'
  BY DEF vars, writers, local, bounds, RunInv, TypeOK, Ids, HeldIsApproved, HeldByOne,
         Holds, RunsOnceApproved, At
<1>2. RunInv /\ [Next]_vars => RunInv'
  BY <1>1, NextKeepsRun
<1>3. QED BY <1>2, InitRun, PTL DEF Spec

(* executor.ts: an adapter is called for an action once at most, and never   *)
(* for one that nobody approved or somebody rejected, over any interleaving  *)
(* of reviewers, passes and lost processes.                                  *)
THEOREM AutomationRunsOnceApproved == Spec => []RunsOnceApproved
<1>1. RunInv => RunsOnceApproved
  BY DEF RunInv
<1>2. QED BY <1>1, AutomationRunInvariant, PTL

-----------------------------------------------------------------------------
(* The life of an action.                                                    *)

Slots == Targets \X (1..MaxRows)

(* What the ledger shows of each row it may come to have, before and after a *)
(* step.                                                                     *)
LEMMA LivesShow ==
  /\ Lives = [i \in Slots |-> Lives[i]]
  /\ \A i \in Slots :
       /\ i \in Ids =>
            Lives[i] = [status |-> actions[i[1]][i[2]].status,
                        calls |-> actions[i[1]][i[2]].runs]
       /\ i \notin Ids => Lives[i] = Ledger!Unborn
  /\ Lives' = [i \in Slots |-> Lives'[i]]
  /\ \A i \in Slots :
       /\ i \in Ids' =>
            Lives'[i] = [status |-> actions'[i[1]][i[2]].status,
                         calls |-> actions'[i[1]][i[2]].runs]
       /\ i \notin Ids' => Lives'[i] = Ledger!Unborn
  /\ Ids \subseteq Slots
<1>1. Ids \subseteq Slots
  BY DEF Ids, Slots
<1>2. Lives = [i \in Slots |-> Life(i)]
  BY DEF Lives, Slots
<1>3. Lives' = [i \in Slots |-> Life(i)']
  BY DEF Lives, Slots
<1>4. \A i \in Slots :
        /\ i \in Ids => Life(i) = [status |-> actions[i[1]][i[2]].status,
                                   calls |-> actions[i[1]][i[2]].runs]
        /\ i \notin Ids => Life(i) = Ledger!Unborn
  BY DEF Life, At, Ids, Slots, Ledger!Unborn, Ledger!Stage
<1>5. \A i \in Slots :
        /\ i \in Ids' => Life(i)' = [status |-> actions'[i[1]][i[2]].status,
                                     calls |-> actions'[i[1]][i[2]].runs]
        /\ i \notin Ids' => Life(i)' = Ledger!Unborn
  BY DEF Life, At, Ids, Slots, Ledger!Unborn, Ledger!Stage
<1>6. QED BY <1>1, <1>2, <1>3, <1>4, <1>5

(* A ledger that stays as it is, and one of whose rows alone changes.        *)
LEMMA LivesStay ==
  ASSUME UNCHANGED actions
  PROVE  UNCHANGED Lives
BY DEF Lives, Life, At

(* One row changes: one life goes on.                                        *)
LEMMA OneLifeGoes ==
  ASSUME NEW i \in Ids, NEW r \in Row, OneRow(i, r)
  PROVE  Lives' = [Lives EXCEPT ![i] = [status |-> r.status, calls |-> r.runs]]
<1>1. Ids' = Ids /\ i \in Slots /\ actions'[i[1]][i[2]] = r
  BY LivesShow DEF OneRow
<1>2. Lives'[i] = [status |-> r.status, calls |-> r.runs]
  BY <1>1, LivesShow
<1>3. \A j \in Slots \ {i} : Lives'[j] = Lives[j]
  <2> SUFFICES ASSUME NEW j \in Slots \ {i}
               PROVE  Lives'[j] = Lives[j]
    OBVIOUS
  <2>1. CASE j \in Ids
    <3>1. actions'[j[1]][j[2]] = actions[j[1]][j[2]]
      BY <2>1 DEF OneRow, At
    <3>2. QED BY <1>1, <2>1, <3>1, LivesShow
  <2>2. CASE j \notin Ids
    BY <1>1, <2>2, LivesShow
  <2>3. QED BY <2>1, <2>2
<1>4. QED BY <1>1, <1>2, <1>3, LivesShow

(* The stages a row can be at.                                               *)
LEMMA LivesAreStages ==
  ASSUME TypeOK', RunsOnceApproved'
  PROVE  Lives' \in [Slots -> Ledger!Stages]
<1> SUFFICES ASSUME NEW i \in Slots
             PROVE  Lives'[i] \in Ledger!Stages
  BY LivesShow
<1>1. CASE i \notin Ids'
  BY <1>1, LivesShow DEF Ledger!Unborn, Ledger!Stage, Ledger!Stages
<1>2. CASE i \in Ids'
  <2>1. i[1] \in Targets /\ i[2] \in 1..Len(actions'[i[1]])
    BY <1>2, AutomationAssumption DEF Ids
  <2>2. actions'[i[1]][i[2]] \in Row
    BY <2>1 DEF TypeOK
  <2>3. actions'[i[1]][i[2]].runs <= 1
    BY <1>2 DEF RunsOnceApproved, At
  <2>4. /\ actions'[i[1]][i[2]].runs \in {0, 1}
        /\ actions'[i[1]][i[2]].status \in Open \cup Closed
    BY <2>2, <2>3 DEF Row
  <2>5. QED BY <1>2, <2>4, LivesShow DEF Ledger!Stages, Open, Closed
<1>3. QED BY <1>1, <1>2

(* The steps of the ledger are steps in the life of its actions.             *)
LEMMA InsertProposes ==
  ASSUME RunInv, RunInv', NEW p \in Procs, Propose(p)
  PROVE  Ledger!Propose
<1>1. PICK chosen : Inserted(p, chosen)
  BY ProposeInserts DEF RunInv
<1>2. Lives' \in [Slots -> Ledger!Stages]
  BY LivesAreStages DEF RunInv
<1>3. ASSUME NEW i \in Slots, Lives'[i] # Lives[i]
      PROVE  Lives[i] = Ledger!Unborn /\ Lives'[i] \in Ledger!Newborn
  <2>1. i \notin Ids
    <3>1. SUFFICES ASSUME i \in Ids PROVE FALSE
      OBVIOUS
    <3>2. actions'[i[1]][i[2]] = actions[i[1]][i[2]] /\ i \in Ids'
      BY <1>1, <3>1 DEF Inserted, At
    <3>3. QED BY <1>3, <3>1, <3>2, LivesShow
  <2>2. Lives[i] = Ledger!Unborn /\ i \in Ids'
    BY <1>3, <2>1, LivesShow
  <2>3. i \in NewIds(chosen)
    BY <1>1, <2>1, <2>2 DEF Inserted
  <2>4. /\ actions'[i[1]][i[2]].runs = 0
        /\ actions'[i[1]][i[2]].status \in {"proposed", "approved"}
    BY <1>1, <2>3, InsertedRows DEF RunInv
  <2>5. QED BY <2>2, <2>4, LivesShow DEF Ledger!Newborn, Ledger!Stage
<1>4. QED BY <1>2, <1>3 DEF Ledger!Propose, Slots

(* Who calls an adapter holds an approved row that was not called for.       *)
LEMMA CallCalls ==
  ASSUME RunInv, NEW p \in Procs, DryRun(p) \/ FindBrief(p)
  PROVE  \E i \in Slots : Ledger!Call(i)
<1>1. PICK i \in Ids : i = cur[p]
  BY DEF DryRun, FindBrief, RunInv, TypeOK, Executing
<1>2. At(i).status = "approved" /\ At(i).runs = 0
  BY <1>1, HeldRow DEF DryRun, FindBrief
<1>3. At(i) \in Row /\ i \in Slots
  BY IdsNameRows, LivesShow DEF RunInv
<1>4. OneRow(i, [At(i) EXCEPT !.runs = @ + 1])
  BY <1>1, CallIsOneRow DEF DryRun, FindBrief, RunInv
<1>5. PICK r : r = [At(i) EXCEPT !.runs = @ + 1]
  OBVIOUS
<1>6. r \in Row /\ r.status = "approved" /\ r.runs = 1
  BY <1>2, <1>3, <1>5 DEF Row
<1>7. Lives' = [Lives EXCEPT ![i] = [status |-> "approved", calls |-> 1]]
  BY <1>4, <1>5, <1>6, OneLifeGoes
<1>8. Lives[i] = [status |-> "approved", calls |-> 0]
  BY <1>2, <1>3, LivesShow DEF At
<1>9. QED BY <1>3, <1>7, <1>8 DEF Ledger!Call, Ledger!Goes, Ledger!Stage

(* An UPDATE of the status.                                                  *)
LEMMA MarkGoes ==
  ASSUME RunInv, NEW i \in Ids, NEW s \in Open \cup Closed, Mark(i, s)
  PROVE  /\ i \in Slots
         /\ Ledger!Goes(i, [status |-> At(i).status, calls |-> At(i).runs],
                           [status |-> s, calls |-> At(i).runs])
<1>1. At(i) \in Row /\ i \in Slots
  BY IdsNameRows, LivesShow DEF RunInv
<1>2. OneRow(i, [At(i) EXCEPT !.status = s])
  BY MarkIsOneRow DEF RunInv
<1>3. PICK r : r = [At(i) EXCEPT !.status = s]
  OBVIOUS
<1>4. r \in Row /\ r.status = s /\ r.runs = At(i).runs
  BY <1>1, <1>3 DEF Row
<1>5. Lives' = [Lives EXCEPT ![i] = [status |-> s, calls |-> At(i).runs]]
  BY <1>2, <1>3, <1>4, OneLifeGoes
<1>6. Lives[i] = [status |-> At(i).status, calls |-> At(i).runs]
  BY <1>1, LivesShow DEF At
<1>7. QED BY <1>1, <1>5, <1>6 DEF Ledger!Goes

(* Who records an outcome holds an approved row that was called for.         *)
LEMMA OutcomeRecords ==
  ASSUME RunInv, NEW p \in Procs, RecordOutcome(p)
  PROVE  \E i \in Slots : Ledger!Record(i)
<1>1. PICK i \in Ids : i = cur[p]
  BY DEF RecordOutcome, RunInv, TypeOK, Executing
<1>2. At(i).status = "approved" /\ At(i).runs = 1
  BY <1>1, HeldRow DEF RecordOutcome
<1>3. PICK s \in {"executed", "failed"} : Mark(i, s)
  BY <1>1 DEF RecordOutcome
<1>4. s \in Open \cup Closed
  BY DEF Closed
<1>5. QED BY <1>2, <1>3, <1>4, MarkGoes DEF Ledger!Record, Ledger!Stage

(* A decision is about a row that is proposed, and so never ran.             *)
LEMMA DecisionDecides ==
  ASSUME RunInv, NEW i \in Ids, Reject(i) \/ \E p \in Procs : Approve(p, i)
  PROVE  \E a \in Slots : Ledger!Decide(a)
<1>1. At(i).status = "proposed" /\ \E s \in {"approved", "rejected"} : Mark(i, s)
  BY DEF Reject, Approve
<1>2. PICK s \in {"approved", "rejected"} : Mark(i, s)
  BY <1>1
<1>3. At(i) \in Row
  BY IdsNameRows DEF RunInv
<1>4. At(i).runs = 0
  BY <1>1, <1>3 DEF RunInv, RunsOnceApproved, Row
<1>5. s \in Open \cup Closed
  BY DEF Open, Closed
<1>6. QED BY <1>1, <1>2, <1>4, <1>5, MarkGoes DEF Ledger!Decide, Ledger!Stage

(* Whoever plans, decides and executes, and whatever is lost, each row of    *)
(* the ledger lives the life of an action: decided once, its adapter called  *)
(* once, an outcome recorded once and over nothing but an approval that was  *)
(* acted on - although executeAction records it whatever the status is.      *)
THEOREM AutomationRefinesActionLife == Spec => RefinesActionLife
<1>1. Init => Ledger!Init
  <2> SUFFICES ASSUME Init PROVE Ledger!Init
    OBVIOUS
  <2>1. Ids = {}
    BY DEF Init, Ids
  <2>2. QED BY <2>1, LivesShow DEF Ledger!Init, Slots
<1>2. ASSUME RunInv, RunInv', Next
      PROVE  Ledger!Next \/ UNCHANGED Lives
  <2> USE DEF writers, local, bounds
  <2>1. CASE \/ \E y \in Types : UpsertRule(y) \/ DeleteRule(y)
             \/ \E g \in Generators :
                  SeeNoRecommendations(g) \/ InsertRecommendations(g) \/ InsertBriefs(g)
             \/ Midnight
             \/ \E p \in Procs :
                  \/ LoadRules(p) \/ LoadPlannerState(p) \/ LoadRuleIds(p) \/ Load(p)
                  \/ EndBatch(p) \/ CheckCaps(p) \/ Refuse(p) \/ WriteBrief(p)
                  \/ WriteFails(p) \/ Throw(p) \/ Lose(p)
    <3>1. UNCHANGED actions
      BY <2>1 DEF UpsertRule, DeleteRule, SeeNoRecommendations, InsertRecommendations,
         InsertBriefs, Midnight, LoadRules, LoadPlannerState, LoadRuleIds, Load,
         EndBatch, CheckCaps, Refuse, WriteBrief, WriteFails, Throw, Lose
    <3>2. QED BY <3>1, LivesStay
  <2>2. ASSUME NEW p \in Procs, Propose(p)
        PROVE  Ledger!Next
    BY <1>2, <2>2, InsertProposes DEF Ledger!Next
  <2>3. ASSUME NEW p \in Procs, DryRun(p) \/ FindBrief(p)
        PROVE  Ledger!Next
    BY <1>2, <2>3, CallCalls DEF Ledger!Next, Slots
  <2>4. ASSUME NEW p \in Procs, RecordOutcome(p)
        PROVE  Ledger!Next
    BY <1>2, <2>4, OutcomeRecords DEF Ledger!Next, Slots
  <2>5. ASSUME NEW i \in Ids, Reject(i) \/ \E p \in Procs : Approve(p, i)
        PROVE  Ledger!Next
    BY <1>2, <2>5, DecisionDecides DEF Ledger!Next, Slots
  <2>6. QED BY <1>2, <2>1, <2>2, <2>3, <2>4, <2>5 DEF Next, Plan, Execute
<1>3. UNCHANGED vars => UNCHANGED Lives
  BY LivesStay DEF vars
<1>4. RunInv /\ RunInv' /\ [Next]_vars => [Ledger!Next]_Lives
  BY <1>2, <1>3
<1>5. QED BY <1>1, <1>4, AutomationRunInvariant, PTL
          DEF Spec, RefinesActionLife, Ledger!Spec

-----------------------------------------------------------------------------
(* One planner at a time.                                                    *)

(* All steps but the INSERT of a pass add no row, and reopen none.           *)
LEMMA LedgerOnlyCloses ==
  ASSUME TypeOK, Next, \A p \in Procs : ~Propose(p)
  PROVE  /\ Ids' = Ids
         /\ \A i \in Ids :
              /\ actions'[i[1]][i[2]].created = At(i).created
              /\ actions'[i[1]][i[2]].status \in Open => At(i).status \in Open
<1> USE DEF writers, local, bounds
<1>1. CASE UNCHANGED actions
  BY <1>1, SameLedger DEF At
<1>2. ASSUME NEW j \in Ids, NEW r \in Row, OneRow(j, r), r.created = At(j).created,
             r.status \in Open => At(j).status \in Open
      PROVE  /\ Ids' = Ids
             /\ \A i \in Ids :
                  /\ actions'[i[1]][i[2]].created = At(i).created
                  /\ actions'[i[1]][i[2]].status \in Open => At(i).status \in Open
  BY <1>2 DEF OneRow
<1>3. ASSUME NEW j \in Ids, NEW s \in Open \cup Closed, Mark(j, s),
             s \in Open => At(j).status \in Open
      PROVE  /\ Ids' = Ids
             /\ \A i \in Ids :
                  /\ actions'[i[1]][i[2]].created = At(i).created
                  /\ actions'[i[1]][i[2]].status \in Open => At(i).status \in Open
  <2>1. At(j) \in Row
    BY IdsNameRows
  <2>2. LET r == [At(j) EXCEPT !.status = s]
        IN  r \in Row /\ r.created = At(j).created /\ r.status = s
    BY <2>1 DEF Row
  <2>3. QED BY <1>2, <1>3, <2>2, MarkIsOneRow
<1>4. ASSUME NEW p \in Procs, DryRun(p) \/ FindBrief(p)
      PROVE  /\ Ids' = Ids
             /\ \A i \in Ids :
                  /\ actions'[i[1]][i[2]].created = At(i).created
                  /\ actions'[i[1]][i[2]].status \in Open => At(i).status \in Open
  <2>1. PICK j \in Ids : j = cur[p]
    BY <1>4 DEF DryRun, FindBrief, TypeOK, Executing
  <2>2. At(j) \in Row
    BY IdsNameRows
  <2>3. LET r == [At(j) EXCEPT !.runs = @ + 1]
        IN  r \in Row /\ r.created = At(j).created /\ r.status = At(j).status
    BY <2>2 DEF Row
  <2>4. OneRow(j, [At(j) EXCEPT !.runs = @ + 1])
    BY <1>4, <2>1, CallIsOneRow DEF DryRun, FindBrief
  <2>5. QED BY <1>2, <2>3, <2>4
<1>5. ASSUME NEW p \in Procs, RecordOutcome(p)
      PROVE  /\ Ids' = Ids
             /\ \A i \in Ids :
                  /\ actions'[i[1]][i[2]].created = At(i).created
                  /\ actions'[i[1]][i[2]].status \in Open => At(i).status \in Open
  <2>1. PICK j \in Ids : j = cur[p]
    BY <1>5 DEF RecordOutcome, TypeOK, Executing
  <2>2. PICK s \in {"executed", "failed"} : Mark(j, s)
    BY <1>5, <2>1 DEF RecordOutcome
  <2>3. s \in Open \cup Closed /\ s \notin Open
    BY DEF Open, Closed
  <2>4. QED BY <1>3, <2>2, <2>3
<1>6. ASSUME NEW j \in Ids, Reject(j) \/ \E p \in Procs : Approve(p, j)
      PROVE  /\ Ids' = Ids
             /\ \A i \in Ids :
                  /\ actions'[i[1]][i[2]].created = At(i).created
                  /\ actions'[i[1]][i[2]].status \in Open => At(i).status \in Open
  <2>1. At(j).status = "proposed" /\ \E s \in {"approved", "rejected"} : Mark(j, s)
    BY <1>6 DEF Reject, Approve
  <2>2. QED BY <1>3, <2>1 DEF Open, Closed
<1>7. CASE \/ \E y \in Types : UpsertRule(y) \/ DeleteRule(y)
           \/ \E g \in Generators :
                SeeNoRecommendations(g) \/ InsertRecommendations(g) \/ InsertBriefs(g)
           \/ Midnight
           \/ \E p \in Procs :
                \/ LoadRules(p) \/ LoadPlannerState(p) \/ LoadRuleIds(p) \/ Load(p)
                \/ EndBatch(p) \/ CheckCaps(p) \/ Refuse(p) \/ WriteBrief(p)
                \/ WriteFails(p) \/ Throw(p) \/ Lose(p)
  <2>1. UNCHANGED actions
    BY <1>7 DEF UpsertRule, DeleteRule, SeeNoRecommendations, InsertRecommendations,
       InsertBriefs, Midnight, LoadRules, LoadPlannerState, LoadRuleIds, Load,
       EndBatch, CheckCaps, Refuse, WriteBrief, WriteFails, Throw, Lose
  <2>2. QED BY <1>1, <2>1
<1>8. QED BY <1>4, <1>5, <1>6, <1>7 DEF Next, Plan, Execute

(* So no target becomes open, and the counts stay.                           *)
LEMMA ReadsStayTrue ==
  ASSUME TypeOK, Next, \A p \in Procs : ~Propose(p)
  PROVE  /\ OpenTargets' \subseteq OpenTargets
         /\ \A y \in Types : \A d : CreatedSince(y, d)' = CreatedSince(y, d)
         /\ OneOpenPerTarget => OneOpenPerTarget'
<1>1. /\ Ids' = Ids
      /\ \A i \in Ids :
           /\ actions'[i[1]][i[2]].created = At(i).created
           /\ actions'[i[1]][i[2]].status \in Open => At(i).status \in Open
  BY LedgerOnlyCloses
<1>2. IdsIn(Open)' \subseteq IdsIn(Open)
  <2> SUFFICES ASSUME NEW i \in IdsIn(Open)'
               PROVE  i \in IdsIn(Open)
    OBVIOUS
  <2>1. i \in Ids' /\ actions'[i[1]][i[2]].status \in Open
    BY DEF IdsIn, At, Open
  <2>2. QED BY <1>1, <2>1 DEF IdsIn
<1>3. \A y \in Types : \A d : CreatedSince(y, d)' = CreatedSince(y, d)
  BY <1>1 DEF CreatedSince, At
<1>4. QED BY <1>2, <1>3 DEF OpenTargets, OneOpenPerTarget

(* How far a planner gets, other than by its own reads, is its own doing.    *)
LEMMA PlannerMoves ==
  ASSUME TypeOK, Next, NEW p \in Procs, pc'[p] \in {"rules", "state", "ids"}
  PROVE  \/ LoadRules(p) \/ LoadPlannerState(p) \/ LoadRuleIds(p)
         \/ pc'[p] = pc[p] /\ view'[p] = view[p]
<1> USE DEF writers, local, bounds
<1> SUFFICES ASSUME ~LoadRules(p), ~LoadPlannerState(p), ~LoadRuleIds(p)
             PROVE  pc'[p] = pc[p] /\ view'[p] = view[p]
  OBVIOUS
<1>1. CASE \/ \E y \in Types : UpsertRule(y) \/ DeleteRule(y)
           \/ \E g \in Generators :
                SeeNoRecommendations(g) \/ InsertRecommendations(g) \/ InsertBriefs(g)
           \/ Midnight
           \/ \E i \in Ids : Reject(i)
  BY <1>1 DEF UpsertRule, DeleteRule, SeeNoRecommendations, InsertRecommendations,
     InsertBriefs, Midnight, Reject
<1>2. ASSUME NEW q \in Procs, Plan(q)
      PROVE  pc'[p] = pc[p] /\ view'[p] = view[p]
  BY <1>2 DEF Plan, LoadRules, LoadPlannerState, LoadRuleIds, Propose, TypeOK
<1>3. ASSUME NEW q \in Procs, Execute(q) \/ Throw(q) \/ Lose(q) \/ \E i \in Ids : Approve(q, i)
      PROVE  pc'[p] = pc[p] /\ view'[p] = view[p]
  <2>1. /\ \/ pc' = pc
           \/ \E x \in {"idle", "batch"} \cup Executing : pc' = [pc EXCEPT ![q] = x]
        /\ \/ view' = view
           \/ /\ view' = [view EXCEPT ![q] = NoView]
              /\ pc' = [pc EXCEPT ![q] = "idle"]
    BY <1>3 DEF Execute, Load, EndBatch, CheckCaps, Refuse, DryRun, FindBrief, WriteBrief,
       WriteFails, RecordOutcome, Throw, Lose, Approve, Executing
  <2>2. QED BY <2>1 DEF TypeOK, Executing
<1>4. QED BY <1>1, <1>2, <1>3 DEF Next

(* No pass has begun.                                                        *)
LEMMA InitPlan == Init => PlanInv
<1> SUFFICES ASSUME Init PROVE PlanInv
  OBVIOUS
<1>1. Ids = {} /\ \A p \in Procs : pc[p] = "idle"
  BY DEF Init, Ids
<1>2. QED BY <1>1 DEF PlanInv, PlannerIsCurrent, OneOpenPerTarget, IdsIn

(* The INSERT: its targets were not open, and no other pass has read the     *)
(* ledger.                                                                   *)
LEMMA ProposeKeepsPlan ==
  ASSUME RunInv, PlanInv, \A p, q \in Planners : p = q, NEW p \in Procs, Propose(p)
  PROVE  PlanInv'
<1>1. PICK chosen : Inserted(p, chosen)
  BY ProposeInserts DEF RunInv
<1>2. /\ pc[p] = "ids" /\ pc' = [pc EXCEPT ![p] = "batch"] /\ day' = day
      /\ \A q \in Procs \ {p} : pc'[q] = pc[q]
      /\ pc'[p] = "batch"
  BY DEF Propose, bounds, RunInv, TypeOK
<1>3. PlannerIsCurrent'
  <2>1. \A q \in Procs : pc'[q] \notin {"rules", "state", "ids"}
    BY <1>2 DEF PlanInv, PlannerIsCurrent
  <2>2. QED BY <2>1 DEF PlannerIsCurrent
<1>4. \A t \in chosen : t \notin OpenTargets
  BY <1>1, <1>2 DEF Inserted, Plannable, PlanInv, PlannerIsCurrent
<1>5. /\ Ids' = Ids \cup NewIds(chosen)
      /\ \A j \in Ids : actions'[j[1]][j[2]] = At(j)
  BY <1>1 DEF Inserted
<1>6. OneOpenPerTarget'
  <2> SUFFICES ASSUME NEW i \in Ids', NEW j \in Ids', i[1] = j[1],
                      actions'[i[1]][i[2]].status \in Open,
                      actions'[j[1]][j[2]].status \in Open
               PROVE  i = j
    BY DEF OneOpenPerTarget, IdsIn, At, Open
  <2>1. \A k \in Ids : actions'[k[1]][k[2]].status \in Open => k \in IdsIn(Open)
    BY <1>5 DEF IdsIn
  <2>2. \A k \in NewIds(chosen) : k[1] \in chosen /\ k = <<k[1], Len(actions[k[1]]) + 1>>
    BY DEF NewIds
  <2>3. \A k \in IdsIn(Open) : k[1] \in OpenTargets
    BY DEF OpenTargets
  <2>4. CASE i \in Ids /\ j \in Ids
    BY <2>1, <2>4 DEF PlanInv, OneOpenPerTarget
  <2>5. CASE i \in NewIds(chosen) /\ j \in NewIds(chosen)
    BY <2>2, <2>5
  <2>6. CASE i \in Ids /\ j \in NewIds(chosen)
    BY <1>4, <2>1, <2>2, <2>3, <2>6
  <2>7. CASE i \in NewIds(chosen) /\ j \in Ids
    BY <1>4, <2>1, <2>2, <2>3, <2>7
  <2>8. QED BY <1>5, <2>4, <2>5, <2>6, <2>7
<1>7. (\A i \in Ids : At(i).created <= day)'
  <2>1. \A i \in NewIds(chosen) : actions'[i[1]][i[2]].created = day
    BY <1>1, InsertedRows DEF RunInv
  <2>2. day \in Nat
    BY AutomationAssumption DEF RunInv, TypeOK
  <2>3. \A i \in Ids' : actions'[i[1]][i[2]].created <= day'
    BY <1>2, <1>5, <2>1, <2>2 DEF PlanInv
  <2>4. QED BY <2>3 DEF At
<1>8. QED BY <1>3, <1>6, <1>7 DEF PlanInv

(* What a planner read stays true while others decide and execute.           *)
LEMMA OthersKeepPlan ==
  ASSUME RunInv, PlanInv, Next, \A p \in Procs : ~Propose(p)
  PROVE  PlanInv'
<1> DEFINE Reading == {"rules", "state", "ids"}
<1>0. TypeOK /\ day \in Nat
  BY AutomationAssumption DEF RunInv, TypeOK
<1>1. /\ OpenTargets' \subseteq OpenTargets
      /\ \A y \in Types : \A d : CreatedSince(y, d)' = CreatedSince(y, d)
      /\ OneOpenPerTarget'
  BY <1>0, ReadsStayTrue DEF PlanInv
<1>2. day' \in Nat /\ day <= day'
  <2>1. day' = day \/ day' = day + 1
    BY DEF Next, Plan, Execute, UpsertRule, DeleteRule, SeeNoRecommendations,
       InsertRecommendations, InsertBriefs, Midnight, LoadRules, LoadPlannerState,
       LoadRuleIds, Propose, Load, EndBatch, CheckCaps, Refuse, DryRun, FindBrief,
       WriteBrief, WriteFails, RecordOutcome, Throw, Lose, Approve, Reject, bounds
  <2>2. QED BY <1>0, <2>1
<1>3. ASSUME NEW p \in Procs, pc'[p] \in Reading
      PROVE  p \in Planners /\ view'[p].since <= day'
  <2>1. view[p] \in View
    BY DEF RunInv, TypeOK
  <2>2. CASE LoadRules(p)
    <3>1. PICK d \in 0..day : view' = [view EXCEPT ![p].rules = rule, ![p].since = d]
      BY <2>2 DEF LoadRules
    <3>2. view' = [view EXCEPT ![p] = [view[p] EXCEPT !.rules = rule, !.since = d]]
      BY <3>1 DEF RunInv, TypeOK
    <3>3. view'[p].since = d
      BY <2>1, <3>2 DEF View, RunInv, TypeOK
    <3>4. QED BY <1>0, <1>2, <2>2, <3>3 DEF LoadRules
  <2>3. CASE ~LoadRules(p)
    <3>1. pc[p] \in Reading /\ view'[p].since = view[p].since
      <4>1. CASE LoadPlannerState(p)
        BY <2>1, <4>1 DEF LoadPlannerState, View, RunInv, TypeOK
      <4>2. CASE LoadRuleIds(p)
        BY <2>1, <4>2 DEF LoadRuleIds, View, RunInv, TypeOK
      <4>3. CASE pc'[p] = pc[p] /\ view'[p] = view[p]
        BY <1>3, <4>3
      <4>4. QED BY <1>0, <1>3, <2>3, <4>1, <4>2, <4>3, PlannerMoves
    <3>2. view[p].since \in Nat
      BY <2>1 DEF View
    <3>3. QED BY <1>0, <1>2, <3>1, <3>2 DEF PlanInv, PlannerIsCurrent
  <2>4. QED BY <2>2, <2>3
<1>4. ASSUME NEW p \in Procs, pc'[p] \in {"state", "ids"}
      PROVE  /\ OpenTargets' \subseteq view'[p].open
             /\ \A y \in Types : \A d : d = view'[p].since =>
                  Cardinality(CreatedSince(y, d)') = view'[p].today[y]
  <2>1. view[p] \in View
    BY DEF RunInv, TypeOK
  <2>2. CASE LoadPlannerState(p)
    <3> DEFINE today == [y \in Types |-> Cardinality(CreatedSince(y, view[p].since))]
    <3>1. view' = [view EXCEPT ![p] = [view[p] EXCEPT !.open = OpenTargets, !.today = today]]
      BY <2>2 DEF LoadPlannerState, RunInv, TypeOK
    <3> HIDE DEF today
    <3>2. /\ view'[p].open = OpenTargets /\ view'[p].today = today
          /\ view'[p].since = view[p].since
      BY <2>1, <3>1 DEF View, RunInv, TypeOK
    <3>3. \A y \in Types : today[y] = Cardinality(CreatedSince(y, view[p].since))
      BY DEF today
    <3>4. QED BY <1>1, <3>2, <3>3
  <2>3. CASE ~LoadPlannerState(p)
    <3>1. /\ pc[p] \in {"state", "ids"} /\ view'[p].open = view[p].open
          /\ view'[p].today = view[p].today /\ view'[p].since = view[p].since
      <4>1. CASE LoadRuleIds(p)
        BY <2>1, <4>1 DEF LoadRuleIds, View, RunInv, TypeOK
      <4>2. CASE pc'[p] = pc[p] /\ view'[p] = view[p]
        BY <1>4, <4>2
      <4>3. ~LoadRules(p)
        BY <1>4 DEF LoadRules, RunInv, TypeOK
      <4>4. QED BY <1>0, <1>4, <2>3, <4>1, <4>2, <4>3, PlannerMoves
    <3>2. QED BY <1>1, <3>1 DEF PlanInv, PlannerIsCurrent
  <2>4. QED BY <2>2, <2>3
<1>5. PlannerIsCurrent'
  <2>1. ASSUME NEW p \in Procs, pc'[p] \in {"state", "ids"}, NEW y \in Types
        PROVE  Cardinality(CreatedSince(y, view[p].since)') = view'[p].today[y]
    <3>1. PICK d : d = view'[p].since
      OBVIOUS
    <3>2. CreatedSince(y, view[p].since)' = CreatedSince(y, d)'
      BY <3>1 DEF CreatedSince
    <3>3. QED BY <1>4, <2>1, <3>1, <3>2
  <2>2. QED BY <1>3, <1>4, <2>1 DEF PlannerIsCurrent
<1>6. (\A i \in Ids : At(i).created <= day)'
  <2>1. \A i \in Ids : At(i).created \in Nat
    BY <1>0, IdsNameRows DEF Row
  <2>2. Ids' = Ids /\ \A i \in Ids : actions'[i[1]][i[2]].created = At(i).created
    BY <1>0, LedgerOnlyCloses
  <2>3. \A i \in Ids' : actions'[i[1]][i[2]].created <= day'
    BY <1>0, <1>2, <2>1, <2>2 DEF PlanInv
  <2>4. QED BY <2>3 DEF At
<1>7. QED BY <1>1, <1>5, <1>6 DEF PlanInv

(* What a planner read holds until it inserts, as long as passes do not      *)
(* overlap.                                                                  *)
THEOREM AutomationPlanInvariant ==
  ASSUME \A p, q \in Planners : p = q
  PROVE  Spec => []PlanInv
<1>1. PlanInv /\ UNCHANGED vars => PlanInv'
  BY DEF vars, writers, local, bounds, PlanInv, PlannerIsCurrent, OneOpenPerTarget,
         OpenTargets, IdsIn, CreatedSince, Ids, At
<1>2. RunInv /\ PlanInv /\ [Next]_vars => PlanInv'
  BY <1>1, ProposeKeepsPlan, OthersKeepPlan
<1>3. QED BY <1>2, InitPlan, AutomationRunInvariant, PTL DEF Spec

(* schema/automation.ts: "one open proposal per (workspace, actionType,      *)
(* target) at a time".  No constraint keeps it: it takes that passes do not  *)
(* overlap, as under the scheduler's lock.                                   *)
THEOREM AutomationOneOpenPerTarget ==
  ASSUME \A p, q \in Planners : p = q
  PROVE  Spec => []OneOpenPerTarget
<1>1. PlanInv => OneOpenPerTarget
  BY DEF PlanInv
<1>2. QED BY <1>1, AutomationPlanInvariant, PTL

-----------------------------------------------------------------------------
(* Content briefs.                                                           *)

(* There are no briefs yet.                                                  *)
LEMMA InitBriefs == Init => BriefInv
BY DEF Init, BriefInv, OneBriefPerKeyword

(* Two processes that hold a row of the same keyword are one: both rows are  *)
(* open, so they are the same row.                                           *)
LEMMA OneAtAKeyword ==
  ASSUME RunInv, OneOpenPerTarget, NEW p \in Procs, NEW q \in Procs,
         cur[p] # None, cur[q] # None, cur[p][1] = cur[q][1]
  PROVE  p = q
<1>1. PICK i \in Ids : i = cur[p]
  BY DEF RunInv, TypeOK
<1>2. PICK j \in Ids : j = cur[q]
  BY DEF RunInv, TypeOK
<1>3. At(i).status = "approved" /\ At(j).status = "approved"
  BY <1>1, <1>2, HeldRow
<1>4. i = j
  BY <1>1, <1>2, <1>3 DEF OneOpenPerTarget, IdsIn, Open
<1>5. QED BY <1>1, <1>2, <1>4 DEF RunInv, HeldByOne, Holds

(* Every step keeps the account of briefs.                                   *)
LEMMA NextKeepsBriefs ==
  ASSUME RunInv, OneOpenPerTarget, BriefInv, Next
  PROVE  BriefInv'
<1> USE DEF writers, local, bounds
<1>1. ASSUME NEW p \in Procs, FindBrief(p)
      PROVE  BriefInv'
  <2>1. /\ pc[p] = "checked" /\ cur[p][1] \in Keywords /\ UNCHANGED <<briefs, cur>>
        /\ \E found \in {"error", IF BriefsOf(cur[p][1]) = 0 THEN "writing" ELSE "ok"} :
             pc' = [pc EXCEPT ![p] = found]
    BY <1>1 DEF FindBrief
  <2>2. pc'[p] = "writing" => BriefsOf(cur[p][1]) = 0
    BY <2>1 DEF RunInv, TypeOK
  <2>3. \A q \in Procs \ {p} : pc'[q] = pc[q]
    BY <2>1 DEF RunInv, TypeOK
  <2>4. BriefsOf(cur[p][1]) = 0 => briefs[cur[p][1]] = 0
    <3>1. Cardinality({g \in Generators : gen[g] = "done"}) \in Nat
      BY AutomationAssumption, FS_Subset, FS_CardinalityType
    <3>2. briefs[cur[p][1]] \in Nat
      BY <2>1 DEF RunInv, TypeOK
    <3>3. QED BY <3>1, <3>2 DEF BriefsOf
  <2>5. QED BY <2>1, <2>2, <2>3, <2>4 DEF BriefInv, OneBriefPerKeyword
<1>2. ASSUME NEW p \in Procs, WriteBrief(p) \/ WriteFails(p)
      PROVE  BriefInv'
  <2> DEFINE k == cur[p][1]
  <2>1. /\ pc[p] = "writing" /\ cur' = cur
        /\ pc' = [pc EXCEPT ![p] = "ok"] \/ pc' = [pc EXCEPT ![p] = "error"]
        /\ \E n \in {0, 1} : briefs' = [briefs EXCEPT ![k] = briefs[k] + n]
    BY <1>2 DEF WriteBrief, WriteFails
  <2>2. k \in Keywords /\ briefs[k] = 0
    BY <2>1 DEF BriefInv
  <2>3. briefs'[k] \in {0, 1} /\ \A x \in Keywords \ {k} : briefs'[x] = briefs[x]
    BY <2>1, <2>2 DEF RunInv, TypeOK
  <2>4. pc'[p] # "writing" /\ \A q \in Procs \ {p} : pc'[q] = pc[q]
    BY <2>1 DEF RunInv, TypeOK
  <2>5. \A q \in Procs \ {p} : pc[q] = "writing" => cur[q][1] # k
    <3>1. \A q \in Procs : pc[q] = "writing" => cur[q] # None
      BY DEF RunInv, TypeOK, Executing
    <3>2. QED BY <2>1, <3>1, OneAtAKeyword
  <2>6. OneBriefPerKeyword'
    BY <2>3 DEF BriefInv, OneBriefPerKeyword
  <2>7. \A q \in Procs : pc'[q] = "writing" =>
          cur'[q][1] \in Keywords /\ briefs'[cur'[q][1]] = 0
    BY <2>1, <2>3, <2>4, <2>5 DEF BriefInv
  <2>8. QED BY <2>6, <2>7 DEF BriefInv
<1>3. CASE \A p \in Procs : ~FindBrief(p) /\ ~WriteBrief(p) /\ ~WriteFails(p)
  <2>1. briefs' = briefs
    BY <1>3 DEF Next, Plan, Execute, UpsertRule, DeleteRule, SeeNoRecommendations,
       InsertRecommendations, InsertBriefs, Midnight, LoadRules, LoadPlannerState,
       LoadRuleIds, Propose, Load, EndBatch, CheckCaps, Refuse, DryRun, RecordOutcome, Throw, Lose, Approve, Reject
  <2>2. \A q \in Procs : pc'[q] = "writing" => pc[q] = "writing" /\ cur'[q] = cur[q]
    <3>1. CASE UNCHANGED <<pc, cur>>
      BY <3>1
    <3>2. CASE \E p \in Procs :
                 Plan(p) \/ Execute(p) \/ Throw(p) \/ Lose(p) \/ \E i \in Ids : Approve(p, i)
      <4>1. PICK p \in Procs :
              Plan(p) \/ Execute(p) \/ Throw(p) \/ Lose(p) \/ \E i \in Ids : Approve(p, i)
        BY <3>2
      <4>2. pc'[p] # "writing" /\ \A q \in Procs \ {p} : UNCHANGED <<pc[q], cur[q]>>
        <5>1. CASE Plan(p)
          BY <5>1 DEF Plan, LoadRules, LoadPlannerState, LoadRuleIds, Propose, RunInv, TypeOK
        <5>2. CASE Throw(p) \/ Lose(p) \/ \E i \in Ids : Approve(p, i)
          BY <5>2 DEF Throw, Lose, Approve, RunInv, TypeOK
        <5>3. CASE Load(p)
          <6>1. pc[p] = "batch" /\ (pc' = pc \/ pc' = [pc EXCEPT ![p] = "loaded"])
            BY <5>3 DEF Load
          <6>2. cur' = cur \/ \E i : cur' = [cur EXCEPT ![p] = i]
            BY <5>3 DEF Load
          <6>3. QED BY <6>1, <6>2 DEF RunInv, TypeOK
        <5>4. CASE EndBatch(p) \/ CheckCaps(p) \/ Refuse(p) \/ DryRun(p)
                   \/ RecordOutcome(p)
          BY <5>4 DEF EndBatch, CheckCaps, Refuse, DryRun, RecordOutcome,
                      RunInv, TypeOK
        <5>5. QED BY <1>3, <4>1, <5>1, <5>2, <5>3, <5>4 DEF Execute
      <4>3. QED BY <4>2
    <3>3. QED BY <3>1, <3>2 DEF Next, UpsertRule, DeleteRule, SeeNoRecommendations,
             InsertRecommendations, InsertBriefs, Midnight, Reject
  <2>3. QED BY <2>1, <2>2 DEF BriefInv, OneBriefPerKeyword
<1>4. QED BY <1>1, <1>2, <1>3

(* content-queue.ts: "Idempotent on (workspace, keyword)".  The adapter      *)
(* looks first and writes later; a keyword's only open action keeps two of   *)
(* them apart.                                                               *)
THEOREM AutomationOneBriefPerKeyword ==
  ASSUME \A p, q \in Planners : p = q
  PROVE  Spec => []OneBriefPerKeyword
<1>1. BriefInv /\ UNCHANGED vars => BriefInv'
  BY DEF vars, writers, local, BriefInv, OneBriefPerKeyword
<1>2. RunInv /\ OneOpenPerTarget /\ BriefInv /\ [Next]_vars => BriefInv'
  BY <1>1, NextKeepsBriefs
<1>3. BriefInv => OneBriefPerKeyword
  BY DEF BriefInv
<1>4. QED BY <1>2, <1>3, InitBriefs, AutomationRunInvariant, AutomationOneOpenPerTarget,
             PTL DEF Spec

-----------------------------------------------------------------------------
(* The daily cap.                                                            *)

(* A pass adds as many rows as it chose targets, at most.                    *)
LEMMA NewIdsAreCounted ==
  ASSUME NEW chosen, chosen \subseteq Targets
  PROVE  /\ IsFiniteSet(NewIds(chosen)) /\ IsFiniteSet(chosen)
         /\ Cardinality(NewIds(chosen)) <= Cardinality(chosen)
         /\ Cardinality(NewIds(chosen)) \in Nat /\ Cardinality(chosen) \in Nat
<1>1. IsFiniteSet(chosen)
  BY IdsAreFinite, FS_Subset
<1> DEFINE f == [t \in chosen |-> <<t, Len(actions[t]) + 1>>]
<1>2. f \in Surjection(chosen, NewIds(chosen))
  BY DEF Surjection, NewIds
<1> HIDE DEF f
<1>3. /\ IsFiniteSet(NewIds(chosen))
      /\ Cardinality(NewIds(chosen)) <= Cardinality(chosen)
  BY <1>1, <1>2, FS_Surjection
<1>4. QED BY <1>1, <1>3, FS_CardinalityType

(* A rule in force that has a daily cap has a number for one.                *)
LEMMA DailyIsNumber ==
  ASSUME TypeOK, NEW p \in Procs, NEW y \in Types, InForce(view[p].rules[y]),
         view[p].rules[y].daily # None
  PROVE  view[p].rules[y].daily \in Nat
<1>1. view[p].rules[y] \in Rule
  BY DEF TypeOK, View, InForce
<1>2. QED BY <1>1, AutomationAssumption DEF Rule

(* What the planner counted, and what it adds, fit the cap it read.          *)
LEMMA InsertFitsTheDay ==
  ASSUME RunInv, PlanInv, NEW p \in Procs, NEW y \in Types, Propose(p),
         InForce(view[p].rules[y]), view[p].rules[y].daily # None,
         CreatedSince(y, day)' # CreatedSince(y, day)
  PROVE  Cardinality(CreatedSince(y, day)') <= view[p].rules[y].daily
<1> DEFINE since == view[p].since  daily == view[p].rules[y].daily
           now == CreatedSince(y, day)'  before == CreatedSince(y, since)
<1>1. PICK chosen : Inserted(p, chosen)
  BY ProposeInserts DEF RunInv
<1> DEFINE ofType == {t \in chosen : TypeOf(t) = y}
<1>2. /\ pc[p] = "ids" /\ day' = day
  BY DEF Propose, bounds
<1>3. since <= day /\ since \in Nat /\ day \in Nat
  BY <1>2, AutomationAssumption DEF PlanInv, PlannerIsCurrent, RunInv, TypeOK, View
<1>4. /\ Ids' = Ids \cup NewIds(chosen) /\ chosen \subseteq Targets
      /\ \A j \in Ids : actions'[j[1]][j[2]] = At(j)
      /\ Plannable(view[p], chosen)
  BY <1>1 DEF Inserted
<1>5. \A i \in Ids : At(i).created \in Nat
  BY IdsNameRows DEF RunInv, Row
<1>6. now \subseteq CreatedSince(y, day) \cup NewIds(ofType)
  <2> SUFFICES ASSUME NEW i \in now, i \notin Ids
               PROVE  i \in NewIds(ofType)
    <3>1. \A i \in now : i \in Ids => i \in CreatedSince(y, day)
      BY <1>2, <1>4 DEF CreatedSince, At
    <3>2. QED BY <3>1
  <2>1. TypeOf(i[1]) = y /\ i \in NewIds(chosen)
    BY <1>4 DEF CreatedSince
  <2>2. PICK t \in chosen : i = <<t, Len(actions[t]) + 1>>
    BY <2>1 DEF NewIds
  <2>3. t \in ofType
    BY <2>1, <2>2
  <2>4. QED BY <2>2, <2>3 DEF NewIds
<1>7. CreatedSince(y, day) \subseteq before /\ CreatedSince(y, day) \subseteq now
  <2>1. CreatedSince(y, day) \subseteq before
    BY <1>3, <1>5 DEF CreatedSince
  <2>2. CreatedSince(y, day) \subseteq now
    BY <1>2, <1>4 DEF CreatedSince, At
  <2>3. QED BY <2>1, <2>2
<1>8. ofType # {}
  BY <1>6, <1>7 DEF NewIds
<1>9. HasRoom(view[p].today[y], daily, Cardinality(ofType))
  BY <1>4, <1>8 DEF Plannable
<1>10. Cardinality(before) = view[p].today[y]
  BY <1>2 DEF PlanInv, PlannerIsCurrent
<1>11. Cardinality(now) <= Cardinality(before) + Cardinality(NewIds(ofType))
  <2>1. IsFiniteSet(before) /\ IsFiniteSet(NewIds(ofType)) /\ ofType \subseteq Targets
    BY <1>4, CreatedIsCounted, NewIdsAreCounted
  <2>2. /\ IsFiniteSet(before \cup NewIds(ofType))
        /\ Cardinality(before \cup NewIds(ofType)) =
             Cardinality(before) + Cardinality(NewIds(ofType))
               - Cardinality(before \cap NewIds(ofType))
    BY <2>1, FS_Union
  <2>3. now \subseteq before \cup NewIds(ofType)
    BY <1>6, <1>7
  <2>4. Cardinality(now) <= Cardinality(before \cup NewIds(ofType))
    BY <2>2, <2>3, FS_Subset
  <2>5. Cardinality(before \cap NewIds(ofType)) \in Nat
    BY <2>1, FS_Intersection, FS_CardinalityType
  <2>6. /\ Cardinality(before) \in Nat /\ Cardinality(NewIds(ofType)) \in Nat
        /\ Cardinality(now) \in Nat
    BY <2>1, CreatedIsCounted, FS_CardinalityType
  <2> HIDE DEF now, before, ofType
  <2>7. QED BY <2>2, <2>4, <2>5, <2>6
<1>12. /\ Cardinality(NewIds(ofType)) <= Cardinality(ofType)
       /\ Cardinality(NewIds(ofType)) \in Nat /\ Cardinality(ofType) \in Nat
  BY <1>4, NewIdsAreCounted
<1>13. Cardinality(before) \in Nat /\ Cardinality(now) \in Nat
  BY CreatedIsCounted
<1>14. daily \in Nat
  BY DailyIsNumber DEF RunInv
<1>15. Cardinality(before) + Cardinality(ofType) <= daily
  BY <1>9, <1>10 DEF HasRoom
<1> HIDE DEF now, before, ofType, daily
<1>16. Cardinality(now) <= daily
  BY <1>11, <1>12, <1>13, <1>14, <1>15
<1>17. QED BY <1>16 DEF now, daily

(* maxActionsPerDay, as the planner read it, bounds the actions of a type    *)
(* that the day has after the insertion, over any midnight, decision and     *)
(* lost process in between.                                                  *)
THEOREM AutomationDailyCapHolds ==
  ASSUME \A p, q \in Planners : p = q
  PROVE  Spec => DailyCapHolds
<1> DEFINE CapHolds == \A p \in Procs, y \in Types :
             LET daily == view[p].rules[y].daily
             IN  /\ pc[p] = "ids" /\ InForce(view[p].rules[y])
                 /\ daily # None
                 /\ CreatedSince(y, day)' # CreatedSince(y, day)
                 => Cardinality(CreatedSince(y, day)') <= daily
<1>1. ASSUME RunInv, PlanInv, Next
      PROVE  CapHolds
  <2> SUFFICES ASSUME NEW p \in Procs, NEW y \in Types, pc[p] = "ids",
                      InForce(view[p].rules[y]), view[p].rules[y].daily # None,
                      CreatedSince(y, day)' # CreatedSince(y, day)
               PROVE  Cardinality(CreatedSince(y, day)') <= view[p].rules[y].daily
    OBVIOUS
  <2>1. ASSUME NEW q \in Procs, Propose(q)
        PROVE  p = q
    BY <1>1, <2>1 DEF Propose, PlanInv, PlannerIsCurrent
  <2>2. CASE Propose(p)
    BY <1>1, <2>2, InsertFitsTheDay
  <2>3. CASE ~Propose(p)
    <3>1. \A q \in Procs : ~Propose(q)
      BY <2>1, <2>3
    <3>2. \A d : CreatedSince(y, d)' = CreatedSince(y, d)
      BY <1>1, <3>1, ReadsStayTrue DEF RunInv
    <3>3. PICK d : d = day'
      OBVIOUS
    <3>4. CreatedSince(y, day)' = CreatedSince(y, d)
      <4>1. CreatedSince(y, day)' = CreatedSince(y, d)'
        BY <3>3 DEF CreatedSince
      <4>2. QED BY <3>2, <4>1
    <3>5. d # day
      BY <3>4
    <3>6. Midnight
      BY <1>1, <3>3, <3>5 DEF Next, Plan, Execute, UpsertRule, DeleteRule,
         SeeNoRecommendations, InsertRecommendations, InsertBriefs, LoadRules,
         LoadPlannerState, LoadRuleIds, Propose, Load, EndBatch, CheckCaps, Refuse,
         DryRun, FindBrief, WriteBrief, WriteFails, RecordOutcome, Throw, Lose, Approve, Reject,
         bounds
    <3>7. CreatedSince(y, d) = {}
      <4>1. d = day + 1 /\ day \in Nat
        BY <1>1, <3>3, <3>6, AutomationAssumption DEF Midnight, RunInv, TypeOK
      <4>2. \A i \in Ids : At(i).created \in Nat /\ At(i).created <= day
        BY <1>1, IdsNameRows DEF RunInv, Row, PlanInv
      <4>3. QED BY <4>1, <4>2 DEF CreatedSince
    <3>8. view[p].rules[y].daily \in Nat
      BY <1>1, DailyIsNumber DEF RunInv
    <3>9. QED BY <3>4, <3>7, <3>8, FS_EmptySet
  <2>4. QED BY <2>2, <2>3
<1>2. ASSUME UNCHANGED vars
      PROVE  CapHolds
  BY <1>2 DEF vars, bounds, CreatedSince, Ids, At
<1>3. QED BY <1>1, <1>2, AutomationRunInvariant, AutomationPlanInvariant, PTL
         DEF Spec, DailyCapHolds
=============================================================================
