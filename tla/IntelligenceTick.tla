-------------------------- MODULE IntelligenceTick --------------------------
(***************************************************************************)
(* The hourly intelligence tick (apps/api/src/scheduler/                   *)
(* intelligence-scheduler.ts): which workspaces a tick refreshes, in what  *)
(* order, and which alerts it raises.                                      *)
(*                                                                         *)
(* A workspace was "last run" when its newest intelligence report was      *)
(* created, and the report is written by getWeeklyReport, which the tick   *)
(* calls and the report page calls too.  A tick takes the stalest due      *)
(* workspaces, a bounded number of them; refreshes each one and raises     *)
(* what has changed; plans its automation whether that went well or not.   *)
(*                                                                         *)
(* Ticks run one at a time: that is RedisLock's MutualExclusion.  A        *)
(* process that dies leaves the tick where it is.                          *)
(***************************************************************************)
EXTENDS Naturals, Sequences, FiniteSets

CONSTANTS
  Workspaces,   \* those whose refresh is enabled: the others are never chosen
  Broken,       \* workspaces whose report fails every time
  Alerts,       \* alert types, in the order refreshWorkspace raises them
  Signatures,   \* fingerprints of an alertable condition
  Quiet,        \* the empty signature: nothing to alert
  Cadence,      \* per workspace, the hours after which its report is stale
  BatchMax,     \* SCHEDULER_MAX_WORKSPACES_PER_TICK
  Watched,      \* bound: the pairs <<workspace, alert>> whose condition changes
  MaxFaults,    \* bound: what fails by accident, processes that die
  MaxReads,     \* bound: visits to the report page
  MaxChanges    \* bound: changes of a condition

\* A tick has room for one workspace, and there is a detector.
ASSUME TickAssumption ==
  /\ IsFiniteSet(Workspaces)
  /\ Cadence \in [Workspaces -> Nat]
  /\ {MaxFaults, MaxReads, MaxChanges} \subseteq Nat /\ BatchMax \in Nat \ {0}
  /\ Alerts # <<>> /\ Alerts \in Seq({Alerts[i] : i \in DOMAIN Alerts})

VARIABLES
  age,        \* hours since the last report of a workspace, up to its cadence
  lastRunAt,  \* the place of a workspace's last report among those of all, 0 if none
  cond,       \* what the data of each workspace says, per alert type
  recorded,   \* automation_alerts.signature, Quiet if there is no row
  batch,      \* the tick's due workspaces still to do
  pc,         \* where the tick is: idle, report, plan, or <<stage, alert>>
  sig,        \* the signature in hand
  faults, reads, changes,
  told,       \* history: alerts raised since the condition last changed
  lost        \* history: alerts recorded by a tick that did not come to publish them

data == <<age, lastRunAt>>
alerts == <<cond, recorded, told, lost>>
tick == <<batch, pc, sig>>
bounds == <<faults, reads, changes>>
vars == <<data, alerts, tick, bounds>>

Pairs == Workspaces \X DOMAIN Alerts
AlertStages == {"detect", "record", "publish"}
RunBefore == {w \in Workspaces : lastRunAt[w] > 0}

TypeOK ==
  /\ age \in [Workspaces -> Nat] /\ \A w \in Workspaces : age[w] <= Cadence[w]
  /\ lastRunAt \in [Workspaces -> 0..Cardinality(RunBefore)]
  /\ \A v, w \in RunBefore : lastRunAt[v] = lastRunAt[w] => v = w
  /\ cond \in [Pairs -> Signatures \cup {Quiet}]
  /\ recorded \in [Pairs -> Signatures \cup {Quiet}]
  /\ batch \in Seq(Workspaces) /\ Len(batch) <= BatchMax
  /\ pc \in {<<"idle", 0>>, <<"report", 0>>, <<"plan", 0>>} \cup (AlertStages \X DOMAIN Alerts)
  /\ sig \in Signatures \cup {Quiet}
  /\ pc # <<"idle", 0>> => batch # <<>>
  /\ faults \in 0..MaxFaults /\ reads \in 0..MaxReads /\ changes \in 0..MaxChanges
  /\ told \in [Pairs -> Nat] /\ lost \subseteq Pairs

Init ==
  /\ age = [w \in Workspaces |-> 0] /\ lastRunAt = [w \in Workspaces |-> 0]
  /\ cond = [p \in Pairs |-> Quiet] /\ recorded = [p \in Pairs |-> Quiet]
  /\ batch = <<>> /\ pc = <<"idle", 0>> /\ sig = Quiet
  /\ faults = 0 /\ reads = 0 /\ changes = 0
  /\ told = [p \in Pairs |-> 0] /\ lost = {}

-----------------------------------------------------------------------------
(* The world.                                                               *)

HourPasses ==
  /\ \E w \in RunBefore : age[w] < Cadence[w]
  /\ age' = [w \in Workspaces |-> IF w \in RunBefore /\ age[w] < Cadence[w]
                                  THEN age[w] + 1 ELSE age[w]]
  /\ UNCHANGED <<lastRunAt, alerts, tick, bounds>>

ConditionChanges(p, s) ==
  /\ changes < MaxChanges /\ cond[p] # s
  /\ changes' = changes + 1
  /\ cond' = [cond EXCEPT ![p] = s]
  /\ told' = [told EXCEPT ![p] = 0]
  /\ UNCHANGED <<data, recorded, lost, tick, faults, reads>>

-----------------------------------------------------------------------------
(* Choosing the workspaces.                                                 *)

isDue(w) == lastRunAt[w] = 0 \/ age[w] = Cadence[w]
Due == {w \in Workspaces : isDue(w)}

\* The orders the due workspaces can be listed in.
Listings == {q \in [1..Cardinality(Due) -> Due] : \A w \in Due : \E i \in DOMAIN q : q[i] = w}

\* Mutant: the workspaces served last come first.
FreshestFirst ==
  {q \in Listings : \A i, j \in DOMAIN q : i < j => lastRunAt[q[i]] >= lastRunAt[q[j]]}

\* Mutant: the bound is taken of the due workspaces in any order.
AsListed == Listings

\* Those the sort can leave them in: by lastRunAt, where none counts as 0.
StalestFirst ==
  {q \in Listings : \A i, j \in DOMAIN q : i < j => lastRunAt[q[i]] <= lastRunAt[q[j]]}

\* listWorkspacesWithLastRun and selectDueWorkspaces.
StartTick ==
  /\ pc = <<"idle", 0>>
  /\ \E due \in StalestFirst :
       /\ due # <<>>
       /\ batch' = SubSeq(due, 1, IF Len(due) < BatchMax THEN Len(due) ELSE BatchMax)
  /\ pc' = <<"report", 0>>
  /\ UNCHANGED <<data, alerts, sig, bounds>>

-----------------------------------------------------------------------------
(* getWeeklyReport: an upsert that makes the workspace the freshest.       *)

Reported(w) ==
  /\ age' = [age EXCEPT ![w] = 0]
  /\ lastRunAt' = [v \in Workspaces |->
       CASE v = w -> Cardinality(RunBefore \cup {w})
         [] v # w /\ w \in RunBefore /\ lastRunAt[v] > lastRunAt[w] -> lastRunAt[v] - 1
         [] OTHER -> lastRunAt[v]]

\* The report page, or the public API, asks for the current report.
ReadReport(w) ==
  /\ reads < MaxReads /\ w \notin Broken
  /\ reads' = reads + 1
  /\ Reported(w)
  /\ UNCHANGED <<alerts, tick, faults, changes>>

-----------------------------------------------------------------------------
(* refreshWorkspace, and the planning that follows it.                     *)

Cur == Head(batch)
Alert == <<Cur, pc[2]>>

RefreshReport ==
  /\ pc = <<"report", 0>> /\ Cur \notin Broken
  /\ Reported(Cur)
  /\ pc' = <<"detect", 1>>
  /\ UNCHANGED <<alerts, batch, sig, bounds>>

\* The error is logged and the tick goes on to the planning.
ReportFails ==
  /\ pc = <<"report", 0>>
  /\ Cur \in Broken \/ faults < MaxFaults
  /\ faults' = IF Cur \in Broken THEN faults ELSE faults + 1
  /\ pc' = <<"plan", 0>>
  /\ UNCHANGED <<data, alerts, batch, sig, reads, changes>>

\* Mutant: the second detector is never reached.
StopAfterOne == <<"plan", 0>>

NextStage ==
  IF pc[2] < Len(Alerts) THEN <<"detect", pc[2] + 1>> ELSE <<"plan", 0>>

\* Mutant: a standing condition fires at every refresh.
AnyCondition(prev, next) == next # Quiet

\* shouldEmitAlert.
shouldEmitAlert(prev, next) == next # Quiet /\ next # prev

\* The signature of the data as it is now, and emitIfChanged's SELECT.
Detect ==
  /\ pc[1] = "detect"
  /\ IF shouldEmitAlert(recorded[Alert], cond[Alert])
     THEN sig' = cond[Alert] /\ pc' = <<"record", pc[2]>>
     ELSE sig' = sig /\ pc' = NextStage
  /\ UNCHANGED <<data, alerts, batch, bounds>>

\* emitIfChanged's upsert.
Record ==
  /\ pc[1] = "record"
  /\ recorded' = [recorded EXCEPT ![Alert] = sig]
  /\ pc' = <<"publish", pc[2]>>
  /\ UNCHANGED <<data, cond, told, lost, batch, sig, bounds>>

\* The alert goes out.
Publish ==
  /\ pc[1] = "publish"
  /\ told' = IF sig = cond[Alert] THEN [told EXCEPT ![Alert] = @ + 1] ELSE told
  /\ sig' = Quiet
  /\ pc' = NextStage
  /\ UNCHANGED <<data, cond, recorded, lost, batch, bounds>>

\* A detector, the SELECT or the upsert throws, and the workspace's other alerts
\* are not looked at; an upsert that threw may have been made.
StageFails ==
  /\ pc[1] \in AlertStages /\ faults < MaxFaults
  /\ faults' = faults + 1
  /\ lost' = IF pc[1] = "publish" THEN lost \cup {Alert} ELSE lost
  /\ pc' = <<"plan", 0>> /\ sig' = Quiet
  /\ UNCHANGED <<data, cond, recorded, told, batch, reads, changes>>

\* runAutomationForWorkspace (module Automation), then the next workspace.
PlanNext ==
  /\ pc = <<"plan", 0>>
  /\ batch' = Tail(batch)
  /\ pc' = IF Len(batch) = 1 THEN <<"idle", 0>> ELSE <<"report", 0>>
  /\ UNCHANGED <<data, alerts, sig, bounds>>

\* The process dies.
TickDies ==
  /\ pc # <<"idle", 0>> /\ faults < MaxFaults
  /\ faults' = faults + 1
  /\ lost' = IF pc[1] = "publish" THEN lost \cup {Alert} ELSE lost
  /\ batch' = <<>> /\ pc' = <<"idle", 0>> /\ sig' = Quiet
  /\ UNCHANGED <<data, cond, recorded, told, reads, changes>>

TickStep ==
  StartTick \/ RefreshReport \/ ReportFails \/ Detect \/ Record \/ Publish \/ PlanNext

Next ==
  \/ TickStep \/ StageFails \/ TickDies \/ HourPasses
  \/ \E w \in Workspaces : ReadReport(w)
  \/ \E p \in Watched, s \in Signatures \cup {Quiet} : ConditionChanges(p, s)

Spec == Init /\ [][Next]_vars

-----------------------------------------------------------------------------
(* Properties.                                                              *)

\* A standing, unchanged condition is alerted once (shouldEmitAlert),
\* whatever ticks die and whatever is read and published around it.
StandingIsSilent == \A p \in Pairs : told[p] <= 1

\* No step puts a workspace behind another that was behind it, but the report
\* of that workspace itself, which puts it behind everybody; and a tick that
\* begins leaves a due workspace out only for a full batch of workspaces that
\* waited no less.
KeepsTurns ==
  /\ \A v, w \in Workspaces :
       lastRunAt[w] < lastRunAt[v] =>
         \/ lastRunAt'[w] < lastRunAt'[v]
         \/ \A u \in Workspaces : lastRunAt'[u] <= lastRunAt'[w]
  /\ \A w \in Due : pc = <<"idle", 0>> /\ batch' # batch =>
       \/ \E i \in DOMAIN batch' : batch'[i] = w
       \/ /\ Len(batch') = BatchMax
          /\ \A i \in DOMAIN batch' : lastRunAt[batch'[i]] <= lastRunAt[w]

\* "The workspaces waiting longest are always served first"
\* (selectDueWorkspaces): nobody's turn is taken by one that waited less,
\* with readers who have reports made and ticks that die in between.
NobodyIsOvertaken == [][KeepsTurns]_vars

\* However small the batch, every workspace whose report can be made is
\* served again and again: nothing starves behind a busy neighbour
\* (selectDueWorkspaces).
EveryoneServed == \A w \in Workspaces \ Broken : isDue(w) ~> ~isDue(w)

\* A condition that is new, or differs from the one last recorded, is
\* alerted unless it goes away first, or the tick dies or fails just after
\* recording it: the tick that records and the one that was cut short leave
\* no gap.
NewIsAlerted ==
  \A p \in Watched, s \in Signatures :
    cond[p] = s /\ recorded[p] # s ~> told[p] > 0 \/ cond[p] # s \/ p \in lost

=============================================================================
