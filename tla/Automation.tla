----------------------------- MODULE Automation -----------------------------
(***************************************************************************)
(* Automated campaign management, for one workspace: its rules             *)
(* (apps/api/src/automation/rules.ts), the planner and the ledger of       *)
(* actions (automation/actions.ts, packages/logic automation-planner.ts),  *)
(* and the executor with its adapters (automation/executor.ts); and the    *)
(* other writer of content briefs, ensurePaidToOrganic (search-terms.ts).  *)
(*                                                                         *)
(* Two kinds of action stand for the four: adjust_budget, whose change is  *)
(* re-checked against the rule's cap before it runs and whose adapter is   *)
(* the dry run, and queue_content, which writes a content brief unless it  *)
(* finds one.  pause_campaign and refresh_creative are adjust_budget       *)
(* without the cap.                                                        *)
(*                                                                         *)
(* A process is a request or the scheduler's pass over the workspace.  It  *)
(* reads the rules, then the ledger, then inserts; each await is a step,   *)
(* and rules are edited, actions decided and processes lost in between.    *)
(* Planners says how many passes may overlap: the scheduler's own are kept *)
(* apart by its lock, POST /automation/plan takes no lock.                 *)
(***************************************************************************)
EXTENDS Naturals, Sequences, FiniteSets

CONSTANTS
  Campaigns,    \* targets of adjust_budget
  Keywords,     \* targets of queue_content
  Procs,        \* processes that decide and execute actions
  Planners,     \* those of them that may plan
  Generators,   \* requests that call ensurePaidToOrganic
  Percents,     \* values of maxChangePercent an admin sets
  Requested,    \* budgetIncreasePercent
  DefaultCap,   \* RULE_DEFAULTS.maxChangePercent
  Dailies,      \* values of maxActionsPerDay an admin sets
  None,
  MaxRows,      \* bound: rows of the ledger for one target
  MaxEdits,     \* bound: edits of rules
  MaxDay,       \* bound: midnights
  MaxFaults     \* bound: processes lost, queries that fail

ASSUME AutomationAssumption ==
  /\ IsFiniteSet(Campaigns) /\ IsFiniteSet(Keywords) /\ IsFiniteSet(Generators)
  /\ Campaigns \cap Keywords = {}
  /\ Planners \subseteq Procs
  /\ Percents \subseteq Nat /\ Dailies \subseteq Nat \ {0}
  /\ Requested \in Nat /\ DefaultCap \in Nat
  /\ MaxRows \in Nat /\ MaxEdits \in Nat /\ MaxDay \in Nat /\ MaxFaults \in Nat

VARIABLES
  rule,      \* the workspace's rule of each action type, or None
  actions,   \* the ledger: the rows of each target in the order of insertion
  briefs,    \* how many content briefs automation has written per keyword
  gen,       \* how far each call of ensurePaidToOrganic is
  pc,        \* what each process is doing
  view,      \* what each planner has read: rules, open targets, today's counts
  todo,      \* the approved actions each process has yet to run
  cur,       \* the row each process has loaded
  day,       \* the database's date
  edits, faults

bounds == <<day, edits, faults>>
local == <<pc, view, todo, cur>>
writers == <<briefs, gen>>
vars == <<rule, actions, writers, local, bounds>>

Types == {"adjust_budget", "queue_content"}
Targets == Campaigns \cup Keywords
TypeOf(t) == IF t \in Campaigns THEN "adjust_budget" ELSE "queue_content"
Open == {"proposed", "approved"}
Closed == {"executed", "failed", "rejected"}
Executing == {"loaded", "checked", "writing", "ok", "error"}

Rule == [id : 1..MaxEdits, enabled : BOOLEAN, mode : {"suggest", "auto"},
         cap : Percents \cup {None}, daily : Dailies \cup {None}]
\* runs is history: how often an adapter was called for the row.
Row == [ruleId : 1..MaxEdits \cup {None}, change : Nat, status : Open \cup Closed,
        created : 0..MaxDay, runs : Nat]
Ids == {i \in Targets \X (1..MaxRows) : i[2] <= Len(actions[i[1]])}
At(i) == actions[i[1]][i[2]]
View == [rules : [Types -> Rule \cup {None}], open : SUBSET Targets,
         today : [Types -> Nat], since : 0..MaxDay,
         ids : [Types -> 1..MaxEdits \cup {None}]]
NoView == [rules |-> [y \in Types |-> None], open |-> {},
           today |-> [y \in Types |-> 0], since |-> 0,
           ids |-> [y \in Types |-> None]]

ASSUME NoneIsNothing ==
  None \notin Rule /\ None \notin Nat /\ None \notin Targets \X (1..MaxRows)

TypeOK ==
  /\ rule \in [Types -> Rule \cup {None}]
  /\ actions \in [Targets -> Seq(Row)]
  /\ \A t \in Targets : Len(actions[t]) <= MaxRows
  /\ briefs \in [Keywords -> Nat]
  /\ gen \in [Generators -> {"idle", "unseen", "recommended", "done"}]
  /\ pc \in [Procs -> {"idle", "rules", "state", "ids", "batch"} \cup Executing]
  /\ view \in [Procs -> View]
  /\ todo \in [Procs -> SUBSET Ids]
  /\ cur \in [Procs -> Ids \cup {None}]
  /\ \A p \in Procs : /\ pc[p] \in Executing <=> cur[p] # None
                      /\ todo[p] # {} => pc[p] \in Executing \cup {"batch"}
  /\ day \in 0..MaxDay /\ edits \in 0..MaxEdits /\ faults \in 0..MaxFaults

Init ==
  /\ rule = [y \in Types |-> None]
  /\ actions = [t \in Targets |-> <<>>]
  /\ briefs = [k \in Keywords |-> 0]
  /\ gen = [g \in Generators |-> "idle"]
  /\ pc = [p \in Procs |-> "idle"]
  /\ view = [p \in Procs |-> NoView]
  /\ todo = [p \in Procs |-> {}]
  /\ cur = [p \in Procs |-> None]
  /\ day = 0 /\ edits = 0 /\ faults = 0

-----------------------------------------------------------------------------
(* Rules.                                                                  *)

\* upsertRule: the fields supplied change; a new row has an id of its own.  Only
\* adjust_budget ever reads its maxChangePercent.
UpsertRule(y) ==
  /\ edits < MaxEdits
  /\ edits' = edits + 1
  /\ \E r \in Rule :
       /\ r.id = IF rule[y] = None THEN edits + 1 ELSE rule[y].id
       /\ y # "adjust_budget" => r.cap = None
       /\ rule' = [rule EXCEPT ![y] = r]
  /\ UNCHANGED <<actions, writers, local, day, faults>>

DeleteRule(y) ==
  /\ edits < MaxEdits
  /\ edits' = edits + 1
  /\ rule[y] # None
  /\ rule' = [rule EXCEPT ![y] = None]
  /\ UNCHANGED <<actions, writers, local, day, faults>>

-----------------------------------------------------------------------------
(* Planning: planForWorkspace, then proposeActions.                        *)

InForce(r) == r # None /\ r.enabled

\* loadRules; the pass is over if none is enabled.  The day it counts from is
\* today, or the day its scheduler tick started.
LoadRules(p) ==
  /\ p \in Planners /\ pc[p] = "idle"
  /\ \E y \in Types : InForce(rule[y])
  /\ \E d \in 0..day : view' = [view EXCEPT ![p].rules = rule, ![p].since = d]
  /\ pc' = [pc EXCEPT ![p] = "rules"]
  /\ UNCHANGED <<rule, actions, writers, todo, cur, bounds>>

IdsIn(statuses) == {i \in Ids : At(i).status \in statuses}
CreatedSince(y, d) == {i \in Ids : TypeOf(i[1]) = y /\ At(i).created >= d}

AwaitingApproval == {i[1] : i \in IdsIn({"proposed"})}
OpenTargets == {i[1] : i \in IdsIn(Open)}

\* loadPlannerState.
LoadPlannerState(p) ==
  /\ pc[p] = "rules"
  /\ view' = [view EXCEPT
       ![p].open = OpenTargets,
       ![p].today = [y \in Types |-> Cardinality(CreatedSince(y, view[p].since))]]
  /\ pc' = [pc EXCEPT ![p] = "state"]
  /\ UNCHANGED <<rule, actions, writers, todo, cur, bounds>>

CapOf(r) == IF r = None \/ r.cap = None THEN DefaultCap ELSE r.cap
ChangeOf(r) == IF Requested < CapOf(r) THEN Requested ELSE CapOf(r)

\* maxActionsPerDay: n more of a type when there are k today.
PerPass(k, daily, n) == daily # None => n <= daily
HasRoom(k, daily, n) == daily # None => k + n <= daily

\* planActions: of the targets the signals point at, those of a rule in force
\* that are not open already, no more than the day has room for.
Plannable(v, chosen) ==
  /\ chosen \cap v.open = {}
  /\ \A y \in Types :
       LET ofType == {t \in chosen : TypeOf(t) = y}
       IN  ofType # {} =>
             /\ InForce(v.rules[y])
             /\ y = "adjust_budget" => ChangeOf(v.rules[y]) > 0
             /\ HasRoom(v.today[y], v.rules[y].daily, Cardinality(ofType))

\* proposeActions reads the ids of the rules once more.
LoadRuleIds(p) ==
  /\ pc[p] = "state"
  /\ view' = [view EXCEPT ![p].ids =
                 [y \in Types |-> IF rule[y] = None THEN None ELSE rule[y].id]]
  /\ pc' = [pc EXCEPT ![p] = "ids"]
  /\ UNCHANGED <<rule, actions, writers, todo, cur, bounds>>

RowFor(v, t) ==
  LET y == TypeOf(t)
  IN  [ruleId |-> v.ids[y],
       change |-> IF y = "adjust_budget" THEN ChangeOf(v.rules[y]) ELSE 0,
       status |-> IF v.rules[y].mode = "auto" THEN "approved" ELSE "proposed",
       created |-> day,
       runs |-> 0]

\* One INSERT for all proposals; the process runs the approved ones next, one
\* by one.
Propose(p) ==
  /\ pc[p] = "ids"
  /\ \E chosen \in SUBSET {t \in Targets : Len(actions[t]) < MaxRows} :
       /\ Plannable(view[p], chosen)
       /\ actions' = [t \in Targets |-> IF t \in chosen
                        THEN Append(actions[t], RowFor(view[p], t)) ELSE actions[t]]
       /\ todo' = [todo EXCEPT ![p] =
            {<<t, Len(actions[t]) + 1>> :
               t \in {u \in chosen : view[p].rules[TypeOf(u)].mode = "auto"}}]
  /\ view' = [view EXCEPT ![p] = NoView]
  /\ pc' = [pc EXCEPT ![p] = "batch"]
  /\ UNCHANGED <<rule, writers, cur, bounds>>

-----------------------------------------------------------------------------
(* Deciding: approveAction and rejectAction.                               *)

Mark(i, status) == actions' = [actions EXCEPT ![i[1]][i[2]].status = status]

\* The conditional UPDATE; the same request goes on to execute the action.
ApproveAnyOpen(p, i) ==
  /\ pc[p] = "idle"
  /\ At(i).status \in Open
  /\ Mark(i, "approved")
  /\ todo' = [todo EXCEPT ![p] = {i}]
  /\ pc' = [pc EXCEPT ![p] = "batch"]
  /\ UNCHANGED <<rule, writers, view, cur, bounds>>
Approve(p, i) ==
  /\ pc[p] = "idle"
  /\ At(i).status = "proposed"
  /\ Mark(i, "approved")
  /\ todo' = [todo EXCEPT ![p] = {i}]
  /\ pc' = [pc EXCEPT ![p] = "batch"]
  /\ UNCHANGED <<rule, writers, view, cur, bounds>>

RejectAnyOpen(i) ==
  /\ At(i).status \in Open
  /\ Mark(i, "rejected")
  /\ UNCHANGED <<rule, writers, local, bounds>>
Reject(i) ==
  /\ At(i).status = "proposed"
  /\ Mark(i, "rejected")
  /\ UNCHANGED <<rule, writers, local, bounds>>

-----------------------------------------------------------------------------
(* Executing: executeAction.                                               *)

\* loadAction, and gate 1: the status.  Gate 2 asks for a previous value, and
\* the planner gives every action that needs one.
Load(p) ==
  /\ pc[p] = "batch"
  /\ \E i \in todo[p] :
       /\ todo' = [todo EXCEPT ![p] = @ \ {i}]
       /\ IF At(i).status = "approved"
          THEN /\ cur' = [cur EXCEPT ![p] = i]
               /\ pc' = [pc EXCEPT ![p] = "loaded"]
          ELSE UNCHANGED <<cur, pc>>
  /\ UNCHANGED <<rule, actions, writers, view, bounds>>

EndBatchEarly(p) ==
  /\ pc[p] = "batch"
  /\ pc' = [pc EXCEPT ![p] = "idle"]
  /\ UNCHANGED <<rule, actions, writers, view, todo, cur, bounds>>
EndBatch(p) ==
  /\ pc[p] = "batch" /\ todo[p] = {}
  /\ pc' = [pc EXCEPT ![p] = "idle"]
  /\ UNCHANGED <<rule, actions, writers, view, todo, cur, bounds>>

\* Gate 3, assertWithinCurrentCaps: the row's own rule, read by its id.  No
\* rule id, no check; no such rule any more, the default cap.
CapNow(i) ==
  CapOf(IF rule[TypeOf(i[1])] # None /\ rule[TypeOf(i[1])].id = At(i).ruleId
        THEN rule[TypeOf(i[1])] ELSE None)
Fits(i) ==
  \/ TypeOf(i[1]) # "adjust_budget"
  \/ At(i).ruleId = None
  \/ At(i).change <= CapNow(i)

CheckCaps(p) ==
  /\ pc[p] = "loaded" /\ Fits(cur[p])
  /\ pc' = [pc EXCEPT ![p] = "checked"]
  /\ UNCHANGED <<rule, actions, writers, view, todo, cur, bounds>>

\* The refusal is thrown: the row stays approved, the batch goes on.
Refuse(p) ==
  /\ pc[p] = "loaded" /\ ~Fits(cur[p])
  /\ pc' = [pc EXCEPT ![p] = "batch"]
  /\ cur' = [cur EXCEPT ![p] = None]
  /\ UNCHANGED <<rule, actions, writers, view, todo, bounds>>

CallAdapter(p) ==
  actions' = [actions EXCEPT ![cur[p][1]][cur[p][2]].runs = @ + 1]

\* The dry run, which always succeeds.
DryRun(p) ==
  /\ pc[p] = "checked" /\ cur[p][1] \in Campaigns
  /\ CallAdapter(p)
  /\ pc' = [pc EXCEPT ![p] = "ok"]
  /\ UNCHANGED <<rule, writers, view, todo, cur, bounds>>

\* Every brief of a keyword, whoever wrote it.
BriefsOf(k) == briefs[k] + Cardinality({g \in Generators : gen[g] = "done"})

\* The content queue: look for a brief, and write one if there is none.  A query
\* of the adapter that throws is caught.
FindBrief(p) ==
  /\ pc[p] = "checked" /\ cur[p][1] \in Keywords
  /\ CallAdapter(p)
  /\ \E found \in {"error", IF BriefsOf(cur[p][1]) = 0 THEN "writing" ELSE "ok"} :
       pc' = [pc EXCEPT ![p] = found]
  /\ UNCHANGED <<rule, writers, view, todo, cur, bounds>>

WriteBrief(p) ==
  /\ pc[p] = "writing"
  /\ briefs' = [briefs EXCEPT ![cur[p][1]] = @ + 1]
  /\ pc' = [pc EXCEPT ![p] = "ok"]
  /\ UNCHANGED <<rule, actions, gen, view, todo, cur, bounds>>

\* The INSERT throws, and may have been made all the same.
WriteFails(p) ==
  /\ pc[p] = "writing"
  /\ \E n \in {0, 1} : briefs' = [briefs EXCEPT ![cur[p][1]] = @ + n]
  /\ pc' = [pc EXCEPT ![p] = "error"]
  /\ UNCHANGED <<rule, actions, gen, view, todo, cur, bounds>>

\* The outcome is recorded on the row, whatever its status is by now.
RecordOutcome(p) ==
  /\ pc[p] \in {"ok", "error"}
  /\ Mark(cur[p], IF pc[p] = "ok" THEN "executed" ELSE "failed")
  /\ cur' = [cur EXCEPT ![p] = None]
  /\ pc' = [pc EXCEPT ![p] = "batch"]
  /\ UNCHANGED <<rule, writers, view, todo, bounds>>

\* A query of executeAction throws and nothing is recorded of the row: the batch
\* catches it and goes on.
Throw(p) ==
  /\ pc[p] \in Executing /\ faults < MaxFaults
  /\ faults' = faults + 1
  /\ pc' = [pc EXCEPT ![p] = "batch"]
  /\ cur' = [cur EXCEPT ![p] = None]
  /\ UNCHANGED <<rule, actions, writers, view, todo, day, edits>>

\* The process dies, or a query outside the adapter throws out of the request.
Lose(p) ==
  /\ pc[p] # "idle" /\ faults < MaxFaults
  /\ faults' = faults + 1
  /\ pc' = [pc EXCEPT ![p] = "idle"]
  /\ view' = [view EXCEPT ![p] = NoView]
  /\ todo' = [todo EXCEPT ![p] = {}]
  /\ cur' = [cur EXCEPT ![p] = None]
  /\ UNCHANGED <<rule, actions, writers, day, edits>>

\* ensurePaidToOrganic: unless the workspace has recommendations of this type,
\* one INSERT of them, then one of a brief for every keyword.  A call that ends
\* in between leaves the recommendations.
SeeNoRecommendations(g) ==
  /\ gen[g] = "idle"
  /\ \A h \in Generators : gen[h] \in {"idle", "unseen"}
  /\ gen' = [gen EXCEPT ![g] = "unseen"]
  /\ UNCHANGED <<rule, actions, briefs, local, bounds>>

InsertRecommendations(g) ==
  /\ gen[g] = "unseen"
  /\ gen' = [gen EXCEPT ![g] = "recommended"]
  /\ UNCHANGED <<rule, actions, briefs, local, bounds>>

InsertBriefs(g) ==
  /\ gen[g] = "recommended"
  /\ gen' = [gen EXCEPT ![g] = "done"]
  /\ UNCHANGED <<rule, actions, briefs, local, bounds>>

Midnight ==
  /\ day < MaxDay
  /\ day' = day + 1
  /\ UNCHANGED <<rule, actions, writers, local, edits, faults>>

Plan(p) == LoadRules(p) \/ LoadPlannerState(p) \/ LoadRuleIds(p) \/ Propose(p)

Execute(p) ==
  \/ Load(p) \/ EndBatch(p) \/ CheckCaps(p) \/ Refuse(p) \/ DryRun(p)
  \/ FindBrief(p) \/ WriteBrief(p) \/ WriteFails(p) \/ RecordOutcome(p)

Next ==
  \/ \E y \in Types : UpsertRule(y) \/ DeleteRule(y)
  \/ \E p \in Procs : \/ Plan(p) \/ Execute(p) \/ Throw(p) \/ Lose(p)
                      \/ \E i \in Ids : Approve(p, i)
  \/ \E i \in Ids : Reject(i)
  \/ \E g \in Generators :
       SeeNoRecommendations(g) \/ InsertRecommendations(g) \/ InsertBriefs(g)
  \/ Midnight

Spec == Init /\ [][Next]_vars

\* A request that is being served is served to its end.
Fairness == \A p \in Procs : WF_vars(Execute(p))

FairSpec == Spec /\ Fairness

-----------------------------------------------------------------------------
(* Properties.                                                             *)

\* schema/automation.ts: "one open proposal per (workspace, actionType,
\* target) at a time", kept by the planner's reads alone.
OneOpenPerTarget ==
  \A i, j \in IdsIn(Open) : i[1] = j[1] => i = j

\* executor.ts: the status gate "stops a rejected action being replayed, and
\* stops an already-executed one running twice".  Over any interleaving of
\* reviewers, batches and lost processes an adapter is called for a row once
\* at most, never for one that nobody approved or somebody rejected.
RunsOnceApproved ==
  \A i \in Ids : /\ At(i).runs <= 1
                 /\ At(i).runs = 1 => At(i).status \notin {"proposed", "rejected"}

\* The ledger implements the life of an action: decided once, run once and only
\* when approved, its outcome recorded once, whoever else is at work on it.
Life(i) ==
  IF i[2] <= Len(actions[i[1]])
  THEN [status |-> At(i).status, calls |-> At(i).runs]
  ELSE [status |-> "none", calls |-> 0]
Lives == [i \in Targets \X (1..MaxRows) |-> Life(i)]
Ledger == INSTANCE ActionLife WITH Actions <- Targets \X (1..MaxRows), life <- Lives
RefinesActionLife == Ledger!Spec

\* content-queue.ts: "Idempotent on (workspace, keyword)".  The adapter looks
\* first and writes later; what keeps two of them apart is that a keyword has
\* one open action.
OneBriefPerKeyword == \A k \in Keywords : briefs[k] <= 1

\* maxActionsPerDay, as the planner read it, bounds the actions of a type that
\* the day has after the insertion, past midnight and lost processes.
DailyCapHolds ==
  [][\A p \in Procs, y \in Types :
       LET daily == view[p].rules[y].daily
       IN  /\ pc[p] = "ids" /\ InForce(view[p].rules[y])
           /\ daily # None
           /\ CreatedSince(y, day)' # CreatedSince(y, day)
           => Cardinality(CreatedSince(y, day)') <= daily]_vars

\* executor.ts: a change that no longer fits "the current policy" is refused.
\* What passes the cap check fits the rule that is in force then.
CheckedAgainstRuleInForce ==
  [][\A p \in Procs :
       /\ pc[p] = "loaded" /\ pc'[p] = "checked"
       /\ cur[p][1] \in Campaigns
       /\ rule["adjust_budget"] # None
       => At(cur[p]).change <= CapOf(rule["adjust_budget"])]_vars

\* actions.ts: an approved action that never ran "is recoverable", and a
\* refused one "surfaces in the queue for a human".  An approved action does
\* not stay approved for ever.
ApprovedSettles ==
  \A t \in Targets, n \in 1..MaxRows :
    LET approved == <<t, n>> \in Ids /\ At(<<t, n>>).status = "approved"
    IN  approved ~> ~approved
=============================================================================
