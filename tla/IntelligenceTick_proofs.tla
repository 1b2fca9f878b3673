----------------------- MODULE IntelligenceTick_proofs -----------------------
(***************************************************************************)
(* That a standing condition is alerted once, for any workspaces, alert    *)
(* types and signatures, whatever the ticks' order and wherever they die:  *)
(* that needs nothing of the batch but that it stays while an alert is on  *)
(* its way.  Then, with the sort and the bound, that a tick's types are    *)
(* kept and no workspace is overtaken by one that waited less.             *)
(***************************************************************************)
EXTENDS IntelligenceTick, FiniteSetTheorems, SequenceTheorems, TLAPS

OnItsWay == pc[1] \in {"record", "publish"} /\ Alert \in Pairs

(* An alert that was raised is of the condition as it was recorded and still *)
(* is; one on its way has not been raised since the condition last changed,  *)
(* and is published as it was recorded.                                      *)
AlertInv ==
  /\ told \in [Pairs -> Nat]
  /\ cond \in [Pairs -> Signatures \cup {Quiet}]
  /\ recorded \in [Pairs -> Signatures \cup {Quiet}]
  /\ \A p \in Pairs : told[p] = 0 \/ (told[p] = 1 /\ recorded[p] = cond[p])
  /\ OnItsWay => sig \in Signatures \cup {Quiet} /\ told[Alert] = 0
  /\ OnItsWay /\ pc[1] = "publish" => recorded[Alert] = sig

-----------------------------------------------------------------------------
(* After an alert the tick looks at the next type, or plans.                 *)
LEMMA NextStageIsNew == NextStage[1] \in {"detect", "plan"}
BY DEF NextStage

(* The world: reading, hours and conditions that change.                     *)
LEMMA WorldKeeps ==
  ASSUME AlertInv,
         \/ HourPasses
         \/ \E w \in Workspaces : ReadReport(w)
         \/ \E p \in Watched, s \in Signatures \cup {Quiet} : ConditionChanges(p, s)
  PROVE  AlertInv'
<1>1. CASE HourPasses \/ \E w \in Workspaces : ReadReport(w)
  <2>1. UNCHANGED <<alerts, tick>>
    BY <1>1 DEF HourPasses, ReadReport
  <2>2. QED BY <2>1 DEF AlertInv, OnItsWay, Alert, Cur, alerts, tick
<1>2. ASSUME NEW p \in Watched, NEW s \in Signatures \cup {Quiet}, ConditionChanges(p, s)
      PROVE  AlertInv'
  <2>1. /\ cond' = [cond EXCEPT ![p] = s] /\ told' = [told EXCEPT ![p] = 0]
        /\ recorded' = recorded /\ UNCHANGED <<batch, pc, sig>>
    BY <1>2 DEF ConditionChanges, tick
  <2>2. /\ told' \in [Pairs -> Nat] /\ cond' \in [Pairs -> Signatures \cup {Quiet}]
        /\ \A q \in Pairs : told'[q] = (IF q = p THEN 0 ELSE told[q])
        /\ \A q \in Pairs : q # p => cond'[q] = cond[q]
    BY <2>1 DEF AlertInv
  <2>3. QED BY <2>1, <2>2 DEF AlertInv, OnItsWay, Alert, Cur
<1>3. QED BY <1>1, <1>2

(* The statements of emitIfChanged.                                          *)
LEMMA EmitKeeps ==
  ASSUME AlertInv, Detect \/ Record \/ Publish
  PROVE  AlertInv'
<1>0. batch' = batch
  BY DEF Detect, Record, Publish
<1>1. CASE Detect
  <2>1. UNCHANGED <<cond, recorded, told>>
    BY <1>1 DEF Detect, alerts
  <2>2. CASE shouldEmitAlert(recorded[Alert], cond[Alert])
    <3>1. sig' = cond[Alert] /\ pc' = <<"record", pc[2]>>
      BY <1>1, <2>2 DEF Detect
    <3>2. Alert' = Alert /\ pc'[1] = "record"
      BY <1>0, <3>1 DEF Alert, Cur
    <3>3. Alert \in Pairs => told[Alert] = 0 /\ sig' \in Signatures \cup {Quiet}
      BY <2>2, <3>1 DEF AlertInv, shouldEmitAlert
    <3>4. QED BY <2>1, <3>2, <3>3 DEF AlertInv, OnItsWay
  <2>3. CASE ~shouldEmitAlert(recorded[Alert], cond[Alert])
    <3>1. sig' = sig /\ pc'[1] \in {"detect", "plan"}
      BY <1>1, <2>3, NextStageIsNew DEF Detect
    <3>2. QED BY <2>1, <3>1 DEF AlertInv, OnItsWay
  <2>4. QED BY <2>2, <2>3
<1>2. CASE Record
  <2>1. /\ recorded' = [recorded EXCEPT ![Alert] = sig] /\ pc' = <<"publish", pc[2]>>
        /\ UNCHANGED <<cond, told, sig>> /\ pc[1] = "record"
    BY <1>2 DEF Record
  <2>2. Alert' = Alert /\ pc'[1] = "publish"
    BY <1>0, <2>1 DEF Alert, Cur
  <2>3. /\ recorded' \in [Pairs -> Signatures \cup {Quiet}]
        /\ \A p \in Pairs : recorded'[p] = (IF p = Alert THEN sig ELSE recorded[p])
    <3> DEFINE a == Alert
    <3>1. recorded' = [recorded EXCEPT ![a] = sig] /\ (a \in Pairs => sig \in Signatures \cup {Quiet})
      BY <2>1 DEF AlertInv, OnItsWay
    <3> HIDE DEF a
    <3>2. /\ recorded' \in [Pairs -> Signatures \cup {Quiet}]
          /\ \A p \in Pairs : recorded'[p] = (IF p = a THEN sig ELSE recorded[p])
      BY <3>1 DEF AlertInv
    <3>3. QED BY <3>2 DEF a
  <2>4. QED BY <2>1, <2>2, <2>3 DEF AlertInv, OnItsWay
<1>3. CASE Publish
  <2>1. /\ told' = (IF sig = cond[Alert] THEN [told EXCEPT ![Alert] = @ + 1] ELSE told)
        /\ UNCHANGED <<cond, recorded>> /\ sig' = Quiet /\ pc[1] = "publish"
    BY <1>3 DEF Publish
  <2>2. pc'[1] \in {"detect", "plan"}
    BY <1>3, NextStageIsNew DEF Publish
  <2>3. /\ told' \in [Pairs -> Nat]
        /\ \A p \in Pairs : told'[p] = (IF p = Alert /\ sig = cond[Alert] THEN told[p] + 1
                                       ELSE told[p])
    <3> DEFINE a == Alert
    <3>1. told' = (IF sig = cond[a] THEN [told EXCEPT ![a] = told[a] + 1] ELSE told)
      BY <2>1
    <3> HIDE DEF a
    <3>2. told \in [Pairs -> Nat]
      BY DEF AlertInv
    <3>3. /\ told' \in [Pairs -> Nat]
          /\ \A p \in Pairs : told'[p] = (IF p = a /\ sig = cond[a] THEN told[p] + 1
                                         ELSE told[p])
      <4>1. CASE sig = cond[a]
        <5>1. told' = [told EXCEPT ![a] = told[a] + 1]
          BY <3>1, <4>1
        <5>2. /\ told' \in [Pairs -> Nat]
              /\ \A p \in Pairs : told'[p] = (IF p = a THEN told[p] + 1 ELSE told[p])
          <6>1. a \in Pairs => told[a] + 1 \in Nat
            BY <3>2
          <6> DEFINE n == told[a] + 1
          <6>2. told' = [told EXCEPT ![a] = n] /\ (a \in Pairs => n \in Nat)
            BY <5>1, <6>1
          <6> HIDE DEF n
          <6>3. /\ told' \in [Pairs -> Nat]
                /\ \A p \in Pairs : told'[p] = (IF p = a THEN n ELSE told[p])
            BY <3>2, <6>2
          <6>4. QED BY <6>3 DEF n
        <5>3. QED BY <4>1, <5>2
      <4>2. CASE sig # cond[a]
        BY <3>1, <3>2, <4>2
      <4>3. QED BY <4>1, <4>2
    <3>4. QED BY <3>3 DEF a
  <2>4. QED BY <2>1, <2>2, <2>3 DEF AlertInv, OnItsWay
<1>4. QED BY <1>1, <1>2, <1>3

(* The rest of a tick writes no alert, and leaves none on its way.           *)
LEMMA OtherStagesKeep ==
  ASSUME AlertInv,
         StartTick \/ RefreshReport \/ ReportFails \/ PlanNext \/ StageFails \/ TickDies
  PROVE  AlertInv'
<1>1. UNCHANGED <<cond, recorded, told>>
  BY DEF StartTick, RefreshReport, ReportFails, PlanNext, StageFails, TickDies, alerts
<1>2. pc'[1] \in {"idle", "report", "detect", "plan"}
  BY DEF StartTick, RefreshReport, ReportFails, PlanNext, StageFails, TickDies
<1>3. QED BY <1>1, <1>2 DEF AlertInv, OnItsWay

-----------------------------------------------------------------------------
(* AlertInv holds in every state: of the workspaces, the alert types and the *)
(* signatures nothing is assumed.                                            *)
THEOREM TickAlertInvariant == Spec => []AlertInv
<1>1. Init => AlertInv
  BY DEF Init, AlertInv, OnItsWay
<1>2. ASSUME AlertInv, [Next]_vars PROVE AlertInv'
  <2>1. CASE TickStep \/ StageFails \/ TickDies
    BY <1>2, <2>1, EmitKeeps, OtherStagesKeep DEF TickStep
  <2>2. CASE \/ HourPasses
             \/ \E w \in Workspaces : ReadReport(w)
             \/ \E p \in Watched, s \in Signatures \cup {Quiet} : ConditionChanges(p, s)
    BY <1>2, <2>2, WorldKeeps
  <2>3. CASE UNCHANGED vars
    BY <1>2, <2>3 DEF AlertInv, OnItsWay, Alert, Cur, vars, alerts, tick
  <2>4. QED BY <1>2, <2>1, <2>2, <2>3 DEF Next
<1>3. QED BY <1>1, <1>2, PTL DEF Spec

(* StandingIsSilent: a condition that stands unchanged is alerted at most    *)
(* once (shouldEmitAlert in emitIfChanged), whichever ticks die, whatever    *)
(* order the workspaces are served in and whoever reads reports meanwhile.   *)
THEOREM TickStandingIsSilent == Spec => []StandingIsSilent
<1>1. AlertInv => StandingIsSilent
  BY DEF AlertInv, StandingIsSilent
<1>2. QED BY <1>1, TickAlertInvariant, PTL

-----------------------------------------------------------------------------
(***************************************************************************)
(* Type correctness, one part per group of variables, and that nobody is   *)
(* overtaken.                                                              *)
(***************************************************************************)

DataOK ==
  /\ age \in [Workspaces -> Nat] /\ \A w \in Workspaces : age[w] <= Cadence[w]
  /\ lastRunAt \in [Workspaces -> 0..Cardinality(RunBefore)]
  /\ \A v, w \in RunBefore : lastRunAt[v] = lastRunAt[w] => v = w

AlertsOK ==
  /\ cond \in [Pairs -> Signatures \cup {Quiet}]
  /\ recorded \in [Pairs -> Signatures \cup {Quiet}]
  /\ told \in [Pairs -> Nat] /\ lost \subseteq Pairs

TickOK ==
  /\ batch \in Seq(Workspaces) /\ Len(batch) <= BatchMax
  /\ pc \in {<<"idle", 0>>, <<"report", 0>>, <<"plan", 0>>} \cup (AlertStages \X DOMAIN Alerts)
  /\ sig \in Signatures \cup {Quiet}
  /\ pc # <<"idle", 0>> => batch # <<>>

BoundsOK == faults \in 0..MaxFaults /\ reads \in 0..MaxReads /\ changes \in 0..MaxChanges

\* Of a tick that is not idle, the workspace it is at and the alert it is at.
Here ==
  /\ pc # <<"idle", 0>> => Cur \in Workspaces
  /\ pc[1] \in AlertStages => pc[2] \in DOMAIN Alerts /\ Alert \in Pairs

-----------------------------------------------------------------------------
(* The four parts are the type.                                              *)
LEMMA TypeHasParts ==
  /\ TypeOK <=> DataOK /\ AlertsOK /\ TickOK /\ BoundsOK
  /\ TypeOK' <=> DataOK' /\ AlertsOK' /\ TickOK' /\ BoundsOK'
BY DEF TypeOK, DataOK, AlertsOK, TickOK, BoundsOK

(* There is a first alert type, and each but the last has a next one.        *)
LEMMA AlertsInOrder ==
  /\ Len(Alerts) \in Nat /\ DOMAIN Alerts = 1..Len(Alerts) /\ 1 \in DOMAIN Alerts
  /\ \A n \in DOMAIN Alerts : n < Len(Alerts) => n + 1 \in DOMAIN Alerts
<1>1. Len(Alerts) \in Nat /\ DOMAIN Alerts = 1..Len(Alerts)
  BY TickAssumption, LenProperties
<1>2. Len(Alerts) # 0
  BY TickAssumption, EmptySeq
<1>3. QED BY <1>1, <1>2

(* The tick is at a workspace, and at one of its alerts.                     *)
LEMMA TickIsSomewhere == ASSUME TickOK PROVE Here
<1>1. ASSUME pc # <<"idle", 0>> PROVE Cur \in Workspaces
  BY <1>1, HeadTailProperties DEF TickOK, Cur
<1>2. ASSUME pc[1] \in AlertStages PROVE pc[2] \in DOMAIN Alerts /\ Alert \in Pairs
  <2>1. pc \in AlertStages \X DOMAIN Alerts
    BY <1>2 DEF TickOK, AlertStages
  <2>2. pc[2] \in DOMAIN Alerts
    BY <2>1
  <2>3. pc # <<"idle", 0>>
    BY <1>2 DEF AlertStages
  <2>4. QED BY <1>1, <2>2, <2>3 DEF Alert, Pairs
<1>3. QED BY <1>1, <1>2 DEF Here

(* From an alert the tick goes on to the next type, or to the planning.      *)
LEMMA NextStageIsStage ==
  ASSUME TickOK, pc[1] \in AlertStages
  PROVE  NextStage \in {<<"plan", 0>>} \cup (AlertStages \X DOMAIN Alerts)
<1>1. pc[2] \in DOMAIN Alerts
  BY TickIsSomewhere DEF Here
<1>2. CASE pc[2] < Len(Alerts)
  <2>1. pc[2] + 1 \in DOMAIN Alerts
    BY <1>1, <1>2, AlertsInOrder
  <2>2. QED BY <1>2, <2>1 DEF NextStage, AlertStages
<1>3. CASE ~(pc[2] < Len(Alerts))
  BY <1>3 DEF NextStage
<1>4. QED BY <1>2, <1>3

(* The workspaces with a report, and those that are due, can be counted.     *)
LEMMA CountsAreNumbers ==
  /\ IsFiniteSet(RunBefore) /\ Cardinality(RunBefore) \in Nat
  /\ IsFiniteSet(Due) /\ Cardinality(Due) \in Nat
BY TickAssumption, FS_Subset, FS_CardinalityType DEF RunBefore, Due

-----------------------------------------------------------------------------
(* A report takes the latest place, and whoever was behind the workspace's   *)
(* former one closes up: nobody shares a place, and the places are no more   *)
(* than the workspaces that have one.                                        *)
LEMMA ReportTakesLastPlace ==
  ASSUME DataOK, NEW w \in Workspaces, Reported(w)
  PROVE  /\ DataOK'
         /\ \A v \in Workspaces : lastRunAt'[v] <= lastRunAt'[w]
         /\ \A u, v \in Workspaces : u # w /\ lastRunAt[u] < lastRunAt[v] =>
              lastRunAt'[u] < lastRunAt'[v]
<1> DEFINE N == Cardinality(RunBefore)
           M == Cardinality(RunBefore \cup {w})
<1>1. N \in Nat /\ M = IF w \in RunBefore THEN N ELSE N + 1
  <2>1. w \in RunBefore => RunBefore \cup {w} = RunBefore
    OBVIOUS
  <2>2. QED BY <2>1, CountsAreNumbers, FS_AddElement
<1>2. /\ \A v \in Workspaces : lastRunAt[v] \in 0..N
      /\ \A v \in Workspaces : v \in RunBefore <=> lastRunAt[v] > 0
      /\ \A u, v \in RunBefore : lastRunAt[u] = lastRunAt[v] => u = v
  BY DEF DataOK, RunBefore
<1>3. /\ lastRunAt'[w] = M
      /\ \A v \in Workspaces \ {w} :
           lastRunAt'[v] = IF w \in RunBefore /\ lastRunAt[v] > lastRunAt[w]
                           THEN lastRunAt[v] - 1 ELSE lastRunAt[v]
      /\ DOMAIN lastRunAt' = Workspaces
      /\ lastRunAt' = [v \in Workspaces |-> lastRunAt'[v]]
  BY DEF Reported
<1> HIDE DEF N, M
<1>4. M \in Nat /\ M > 0 /\ N <= M
  BY <1>1, <1>2
<1>5. ASSUME NEW v \in Workspaces \ {w}
      PROVE  /\ lastRunAt'[v] \in 0..M /\ lastRunAt'[v] < M
             /\ lastRunAt'[v] > 0 <=> lastRunAt[v] > 0
  <2>1. CASE w \in RunBefore /\ lastRunAt[v] > lastRunAt[w]
    BY <1>1, <1>2, <1>3, <2>1
  <2>2. CASE w \in RunBefore /\ ~(lastRunAt[v] > lastRunAt[w])
    <3>1. lastRunAt[v] # lastRunAt[w]
      <4>1. SUFFICES ASSUME lastRunAt[v] = lastRunAt[w] PROVE FALSE
        OBVIOUS
      <4>2. v \in RunBefore
        BY <1>2, <2>2, <4>1
      <4>3. QED BY <1>2, <2>2, <4>1, <4>2
    <3>2. QED BY <1>1, <1>2, <1>3, <2>2, <3>1
  <2>3. CASE w \notin RunBefore
    BY <1>1, <1>2, <1>3, <2>3
  <2>4. QED BY <2>1, <2>2, <2>3
<1>6. RunBefore' = RunBefore \cup {w}
  BY <1>2, <1>3, <1>4, <1>5 DEF RunBefore
<1>7. lastRunAt' \in [Workspaces -> 0..Cardinality(RunBefore')]
  <2>1. \A v \in Workspaces : lastRunAt'[v] \in 0..M
    BY <1>3, <1>4, <1>5
  <2>2. Cardinality(RunBefore') = M
    BY <1>6 DEF M
  <2>3. QED BY <1>3, <2>1, <2>2
<1>8. ASSUME NEW u \in RunBefore', NEW v \in RunBefore', lastRunAt'[u] = lastRunAt'[v]
      PROVE  u = v
  <2>1. CASE u = w \/ v = w
    BY <1>3, <1>5, <1>6, <1>8, <2>1 DEF RunBefore
  <2>2. CASE u # w /\ v # w
    <3>1. /\ u \in RunBefore /\ v \in RunBefore /\ u \in Workspaces \ {w} /\ v \in Workspaces \ {w}
          /\ lastRunAt[u] \in 0..N /\ lastRunAt[v] \in 0..N /\ lastRunAt[w] \in 0..N
          /\ w \in RunBefore => lastRunAt[u] # lastRunAt[w] /\ lastRunAt[v] # lastRunAt[w]
      BY <1>2, <1>6, <2>2 DEF RunBefore
    <3>2. lastRunAt[u] = lastRunAt[v]
      BY <1>1, <1>3, <1>8, <3>1
    <3>3. QED BY <1>2, <3>1, <3>2
  <2>3. QED BY <2>1, <2>2
<1>9. age' \in [Workspaces -> Nat] /\ \A v \in Workspaces : age'[v] <= Cadence[v]
  <2>1. age' = [age EXCEPT ![w] = 0] /\ age \in [Workspaces -> Nat]
    BY DEF Reported, DataOK
  <2>2. \A v \in Workspaces : Cadence[v] \in Nat /\ age[v] <= Cadence[v]
    BY TickAssumption DEF DataOK
  <2>3. age' \in [Workspaces -> Nat] /\ \A v \in Workspaces : age'[v] = IF v = w THEN 0 ELSE age[v]
    BY <2>1
  <2>4. QED BY <2>2, <2>3
<1>10. \A v \in Workspaces : lastRunAt'[v] <= lastRunAt'[w]
  BY <1>3, <1>4, <1>5
<1>11. ASSUME NEW u \in Workspaces, NEW v \in Workspaces, u # w, lastRunAt[u] < lastRunAt[v]
       PROVE  lastRunAt'[u] < lastRunAt'[v]
  <2>1. CASE v = w
    BY <1>3, <1>5, <1>11, <2>1
  <2>2. CASE v # w
    <3>1. /\ lastRunAt[u] \in 0..N /\ lastRunAt[v] \in 0..N /\ lastRunAt[w] \in 0..N
          /\ w \in RunBefore /\ u \in RunBefore => lastRunAt[u] # lastRunAt[w]
          /\ w \in RunBefore => lastRunAt[w] > 0
          /\ u \notin RunBefore => lastRunAt[u] = 0
      BY <1>1, <1>2, <1>11
    <3>2. QED BY <1>1, <1>3, <1>11, <2>2, <3>1
  <2>3. QED BY <2>1, <2>2
<1>12. QED BY <1>7, <1>8, <1>9, <1>10, <1>11 DEF DataOK

(* A tick takes the first of the due workspaces in the order of the sort:    *)
(* at least one, no more than it has room for, and whoever is left out is    *)
(* so for a full batch of workspaces that waited no less.                    *)
LEMMA BatchIsStalest ==
  ASSUME DataOK, StartTick
  PROVE  /\ batch' \in Seq(Workspaces) /\ batch' # <<>> /\ Len(batch') <= BatchMax
         /\ \A w \in Due :
              \/ \E i \in DOMAIN batch' : batch'[i] = w
              \/ /\ Len(batch') = BatchMax
                 /\ \A i \in DOMAIN batch' : lastRunAt[batch'[i]] <= lastRunAt[w]
<1> DEFINE n == Cardinality(Due)
<1>1. n \in Nat
  BY CountsAreNumbers
<1>2. PICK due \in StalestFirst :
        /\ due # <<>>
        /\ batch' = SubSeq(due, 1, IF Len(due) < BatchMax THEN Len(due) ELSE BatchMax)
  BY DEF StartTick
<1>3. /\ due \in [1..n -> Due]
      /\ \A w \in Due : \E i \in DOMAIN due : due[i] = w
      /\ \A i, j \in DOMAIN due : i < j => lastRunAt[due[i]] <= lastRunAt[due[j]]
  BY DEF StalestFirst, Listings
<1> HIDE DEF n
<1>4. due \in Seq(Due) /\ Len(due) = n /\ DOMAIN due = 1..n
  <2>1. due \in Seq(Due)
    BY <1>1, <1>3, SeqDef
  <2>2. DOMAIN due = 1..n /\ DOMAIN due = 1..Len(due) /\ Len(due) \in Nat
    BY <1>3, <2>1, LenProperties
  <2>3. QED BY <1>1, <2>1, <2>2
<1>5. n > 0
  BY <1>1, <1>2, <1>4, EmptySeq
<1> DEFINE k == IF n < BatchMax THEN n ELSE BatchMax
<1>6. k \in Nat /\ 1 <= k /\ k <= n /\ k <= BatchMax /\ (k < n => k = BatchMax)
  BY <1>1, <1>5, TickAssumption
<1>7. batch' = SubSeq(due, 1, k)
  BY <1>2, <1>4
<1> HIDE DEF k
<1>8. /\ batch' \in Seq(Workspaces) /\ Len(batch') = k
      /\ \A i \in 1..k : batch'[i] = due[i]
  <2>1. \A i \in 1..k : due[i] \in Workspaces
    BY <1>1, <1>3, <1>6 DEF Due
  <2>2. /\ SubSeq(due, 1, k) \in Seq(Workspaces)
        /\ Len(SubSeq(due, 1, k)) = IF 1 <= k THEN k - 1 + 1 ELSE 0
        /\ \A i \in 1..(k - 1 + 1) : SubSeq(due, 1, k)[i] = due[1 + i - 1]
    BY <1>6, <2>1, SubSeqProperties
  <2>3. \A i \in 1..k : SubSeq(due, 1, k)[i] = due[i]
    <3>1. k - 1 + 1 = k /\ \A i \in 1..k : 1 + i - 1 = i
      BY <1>6
    <3>2. QED BY <2>2, <3>1
  <2>4. QED BY <1>6, <1>7, <2>2, <2>3
<1>9. DOMAIN batch' = 1..k
  BY <1>8, LenProperties
<1>10. ASSUME NEW w \in Due, \A i \in DOMAIN batch' : batch'[i] # w
       PROVE  /\ Len(batch') = BatchMax
              /\ \A i \in DOMAIN batch' : lastRunAt[batch'[i]] <= lastRunAt[w]
  <2>1. PICK j \in 1..n : due[j] = w
    BY <1>3, <1>4
  <2>2. ~(j \in 1..k)
    BY <1>8, <1>9, <1>10, <2>1
  <2>3. k < j /\ k < n
    BY <1>1, <1>6, <2>2
  <2>4. ASSUME NEW i \in 1..k PROVE lastRunAt[batch'[i]] <= lastRunAt[w]
    <3>1. i \in DOMAIN due /\ j \in DOMAIN due /\ i < j
      BY <1>1, <1>4, <1>6, <2>1, <2>3
    <3>2. QED BY <1>3, <1>8, <2>1, <3>1
  <2>5. QED BY <1>6, <1>8, <1>9, <2>3, <2>4
<1>11. batch' # <<>>
  BY <1>6, <1>8, EmptySeq
<1>12. QED BY <1>6, <1>8, <1>10, <1>11

(* Every variable of the tick keeps its type, and no two workspaces share a  *)
(* place among the reports, whatever is read, fails or dies.                 *)
THEOREM TickTypeOK == Spec => []TypeOK
<1>1. Init => TypeOK
  <2> SUFFICES ASSUME Init PROVE TypeOK
    OBVIOUS
  <2>1. DataOK
    <3>1. RunBefore = {} /\ Cardinality(RunBefore) = 0
      <4>1. RunBefore = {}
        BY DEF Init, RunBefore
      <4>2. QED BY <4>1, FS_EmptySet
    <3>2. QED BY <3>1, TickAssumption DEF Init, DataOK
  <2>2. AlertsOK
    BY DEF Init, AlertsOK
  <2>3. TickOK
    <3>1. batch \in Seq(Workspaces) /\ Len(batch) = 0
      BY EmptySeq DEF Init
    <3>2. QED BY <3>1, TickAssumption DEF Init, TickOK
  <2>4. BoundsOK
    BY TickAssumption DEF Init, BoundsOK
  <2>5. QED BY <2>1, <2>2, <2>3, <2>4, TypeHasParts
<1>2. TypeOK /\ [Next]_vars => TypeOK'
  <2> SUFFICES ASSUME DataOK, AlertsOK, TickOK, BoundsOK, [Next]_vars
               PROVE  DataOK' /\ AlertsOK' /\ TickOK' /\ BoundsOK'
    BY TypeHasParts
  <2>0. /\ UNCHANGED data => DataOK'
        /\ UNCHANGED alerts => AlertsOK'
        /\ UNCHANGED tick => TickOK'
        /\ UNCHANGED bounds => BoundsOK'
    BY DEF data, alerts, tick, bounds, DataOK, RunBefore, AlertsOK, TickOK, BoundsOK
  <2> USE DEF data, alerts, tick, bounds
  <2>1. CASE UNCHANGED vars
    BY <2>0, <2>1 DEF vars
  <2>2. CASE HourPasses
    <3>1. /\ age' \in [Workspaces -> Nat] /\ \A v \in Workspaces : age'[v] <= Cadence[v]
          /\ lastRunAt' = lastRunAt
      BY <2>2, TickAssumption DEF HourPasses, DataOK
    <3>2. DataOK'
      BY <3>1 DEF DataOK, RunBefore
    <3>3. QED BY <2>0, <2>2, <3>2 DEF HourPasses
  <2>3. ASSUME NEW p \in Watched, NEW s \in Signatures \cup {Quiet}, ConditionChanges(p, s)
        PROVE  DataOK' /\ AlertsOK' /\ TickOK' /\ BoundsOK'
    <3>1. AlertsOK'
      BY <2>3 DEF ConditionChanges, AlertsOK
    <3>2. BoundsOK'
      BY <2>3, TickAssumption DEF ConditionChanges, BoundsOK
    <3>3. QED BY <2>0, <2>3, <3>1, <3>2 DEF ConditionChanges
  <2>4. ASSUME NEW w \in Workspaces, ReadReport(w)
        PROVE  DataOK' /\ AlertsOK' /\ TickOK' /\ BoundsOK'
    <3>1. DataOK'
      BY <2>4, ReportTakesLastPlace DEF ReadReport
    <3>2. BoundsOK'
      BY <2>4, TickAssumption DEF ReadReport, BoundsOK
    <3>3. QED BY <2>0, <2>4, <3>1, <3>2 DEF ReadReport
  <2>5. CASE StartTick
    <3>1. batch' \in Seq(Workspaces) /\ batch' # <<>> /\ Len(batch') <= BatchMax
      BY <2>5, BatchIsStalest
    <3>2. TickOK'
      BY <2>5, <3>1 DEF StartTick, TickOK
    <3>3. QED BY <2>0, <2>5, <3>2 DEF StartTick
  <2>6. CASE RefreshReport
    <3>1. pc # <<"idle", 0>> /\ pc' = <<"detect", 1>> /\ UNCHANGED <<batch, sig>>
      BY <2>6 DEF RefreshReport
    <3>2. DataOK'
      BY <2>6, <3>1, TickIsSomewhere, ReportTakesLastPlace DEF RefreshReport, Here
    <3>3. TickOK'
      BY <3>1, AlertsInOrder DEF TickOK, AlertStages
    <3>4. QED BY <2>0, <2>6, <3>2, <3>3 DEF RefreshReport
  <2>7. CASE ReportFails
    <3>1. TickOK'
      BY <2>7 DEF ReportFails, TickOK
    <3>2. BoundsOK'
      BY <2>7, TickAssumption DEF ReportFails, BoundsOK
    <3>3. QED BY <2>0, <2>7, <3>1, <3>2 DEF ReportFails
  <2>8. CASE Detect
    <3>1. pc[1] \in AlertStages /\ pc # <<"idle", 0>> /\ pc[2] \in DOMAIN Alerts /\ Alert \in Pairs
      BY <2>8, TickIsSomewhere DEF Detect, AlertStages, Here
    <3>2. cond[Alert] \in Signatures \cup {Quiet}
      BY <3>1 DEF AlertsOK
    <3>3. /\ sig' \in Signatures \cup {Quiet} /\ batch' = batch
          /\ pc' \in {<<"plan", 0>>} \cup (AlertStages \X DOMAIN Alerts)
      BY <2>8, <3>1, <3>2, NextStageIsStage DEF Detect, AlertStages, TickOK
    <3>4. TickOK'
      BY <3>1, <3>3 DEF TickOK
    <3>5. QED BY <2>0, <2>8, <3>4 DEF Detect
  <2>9. CASE Record
    <3>1. pc[1] \in AlertStages /\ pc # <<"idle", 0>> /\ pc[2] \in DOMAIN Alerts /\ Alert \in Pairs
      BY <2>9, TickIsSomewhere DEF Record, AlertStages, Here
    <3>2. AlertsOK'
      BY <2>9, <3>1 DEF Record, AlertsOK, TickOK
    <3>3. TickOK'
      BY <2>9, <3>1 DEF Record, TickOK, AlertStages
    <3>4. QED BY <2>0, <2>9, <3>2, <3>3 DEF Record
  <2>10. CASE Publish
    <3>1. pc[1] \in AlertStages /\ pc # <<"idle", 0>> /\ Alert \in Pairs
      BY <2>10, TickIsSomewhere DEF Publish, AlertStages, Here
    <3>2. AlertsOK'
      BY <2>10, <3>1 DEF Publish, AlertsOK
    <3>3. pc' \in {<<"plan", 0>>} \cup (AlertStages \X DOMAIN Alerts) /\ sig' = Quiet
          /\ batch' = batch
      BY <2>10, <3>1, NextStageIsStage DEF Publish
    <3>4. TickOK'
      BY <3>1, <3>3 DEF TickOK
    <3>5. QED BY <2>0, <2>10, <3>2, <3>4 DEF Publish
  <2>11. CASE PlanNext
    <3>1. batch # <<>> /\ batch \in Seq(Workspaces)
      BY <2>11 DEF PlanNext, TickOK
    <3>2. batch' \in Seq(Workspaces) /\ Len(batch') = Len(batch) - 1 /\ Len(batch) \in Nat
      BY <2>11, <3>1, HeadTailProperties, LenProperties DEF PlanNext
    <3>3. Len(batch) # 1 => batch' # <<>>
      BY <3>2, EmptySeq
    <3>4. pc' = (IF Len(batch) = 1 THEN <<"idle", 0>> ELSE <<"report", 0>>) /\ sig' = sig
      BY <2>11 DEF PlanNext
    <3>5. TickOK'
      BY <3>2, <3>3, <3>4, TickAssumption DEF TickOK
    <3>6. QED BY <2>0, <2>11, <3>5 DEF PlanNext
  <2>12. CASE TickDies
    <3>1. AlertsOK'
      BY <2>12, TickIsSomewhere DEF TickDies, AlertsOK, AlertStages, Here
    <3>2. batch' \in Seq(Workspaces) /\ Len(batch') = 0
      BY <2>12, EmptySeq DEF TickDies
    <3>3. TickOK'
      BY <2>12, <3>2, TickAssumption DEF TickDies, TickOK
    <3>4. BoundsOK'
      BY <2>12, TickAssumption DEF TickDies, BoundsOK
    <3>5. QED BY <2>0, <2>12, <3>1, <3>3, <3>4 DEF TickDies
  <2>13. CASE StageFails
    <3>1. AlertsOK'
      BY <2>13, TickIsSomewhere DEF StageFails, AlertsOK, AlertStages, Here
    <3>2. pc # <<"idle", 0>>
      BY <2>13 DEF StageFails, AlertStages
    <3>3. TickOK'
      BY <2>13, <3>2 DEF StageFails, TickOK
    <3>4. BoundsOK'
      BY <2>13, TickAssumption DEF StageFails, BoundsOK
    <3>5. QED BY <2>0, <2>13, <3>1, <3>3, <3>4 DEF StageFails
  <2>14. QED BY <2>1, <2>2, <2>3, <2>4, <2>5, <2>6, <2>7, <2>8, <2>9, <2>10, <2>11,
           <2>12, <2>13 DEF Next, TickStep
<1>3. QED BY <1>1, <1>2, PTL DEF Spec

-----------------------------------------------------------------------------
(* "The workspaces waiting longest are always served first, so nothing        *)
(* starves behind a busy neighbour when the ceiling bites": what              *)
(* selectDueWorkspaces says of its order and its bound, of every step, with   *)
(* readers who refresh reports and ticks that die in between.  That a         *)
(* workspace is then served is EveryoneServed.                                *)
THEOREM TickServesStalest == Spec => NobodyIsOvertaken
<1>1. TypeOK /\ [Next]_vars => [KeepsTurns]_vars
  <2> SUFFICES ASSUME DataOK, TickOK, Next PROVE KeepsTurns
    BY TypeHasParts
  <2>1. ASSUME NEW w \in Workspaces, Reported(w), UNCHANGED batch PROVE KeepsTurns
    <3>1. /\ \A v \in Workspaces : lastRunAt'[v] <= lastRunAt'[w]
          /\ \A u, v \in Workspaces : u # w /\ lastRunAt[u] < lastRunAt[v] =>
               lastRunAt'[u] < lastRunAt'[v]
      BY <2>1, ReportTakesLastPlace
    <3>2. QED BY <2>1, <3>1 DEF KeepsTurns
  <2>2. CASE StartTick
    <3>1. lastRunAt' = lastRunAt
      BY <2>2 DEF StartTick, data
    <3>2. \A w \in Due :
            \/ \E i \in DOMAIN batch' : batch'[i] = w
            \/ /\ Len(batch') = BatchMax
               /\ \A i \in DOMAIN batch' : lastRunAt[batch'[i]] <= lastRunAt[w]
      BY <2>2, BatchIsStalest
    <3>3. QED BY <3>1, <3>2 DEF KeepsTurns
  <2>3. CASE RefreshReport
    <3>1. Cur \in Workspaces /\ Reported(Cur) /\ UNCHANGED batch
      BY <2>3, TickIsSomewhere DEF RefreshReport, Here
    <3>2. QED BY <2>1, <3>1
  <2>4. ASSUME NEW w \in Workspaces, ReadReport(w) PROVE KeepsTurns
    BY <2>1, <2>4 DEF ReadReport, tick
  <2>5. CASE \/ ReportFails \/ Detect \/ Record \/ Publish \/ PlanNext \/ StageFails
             \/ TickDies \/ HourPasses
             \/ \E p \in Watched, s \in Signatures \cup {Quiet} : ConditionChanges(p, s)
    <3>1. lastRunAt' = lastRunAt /\ (pc = <<"idle", 0>> => batch' = batch)
      BY <2>5 DEF ReportFails, Detect, Record, Publish, PlanNext, StageFails, TickDies, HourPasses,
                  ConditionChanges, data, tick
    <3>2. QED BY <3>1 DEF KeepsTurns
  <2>6. QED BY <2>2, <2>3, <2>4, <2>5 DEF Next, TickStep
<1>2. QED BY <1>1, TickTypeOK, PTL DEF Spec, NobodyIsOvertaken
=============================================================================
