----------------------- MODULE WebhookDelivery_proofs -----------------------
(***************************************************************************)
(* Safety of the webhook sweep for any events, endpoints and limits.  The  *)
(* sweep writes to rows by id alone, so what it may do to a row rests on   *)
(* the snapshot being true still: SweepInv.                                *)
(***************************************************************************)
EXTENDS WebhookDelivery, FiniteSetTheorems, TLAPS

(* The columns of a row the sweep has read. *)
LEMMA SnapshotFields ==
  ASSUME NEW r \in Snapshot
  PROVE  /\ r.id \in Deliveries /\ r.attempts \in Nat /\ r.enabled \in BOOLEAN
         /\ Endpoint(r.id) \in Endpoints
BY DEF Snapshot, Deliveries, Endpoint

(* A row in hand is a row. *)
LEMMA RowInHand ==
  ASSUME TypeOK, pc \in Busy
  PROVE  cur \in Snapshot
BY DEF TypeOK

(* The initial state satisfies the invariant. *)
LEMMA InitSweepInv == Init => SweepInv
<1> SUFFICES ASSUME Init PROVE SweepInv
  OBVIOUS
<1> USE WebhookAssumption DEF Init
<1>1. TypeOK
  BY DEF TypeOK, Busy
<1>2. SnapshotIsFresh
  BY DEF SnapshotIsFresh, Busy
<1>3. AttemptsAreCounted
  BY DEF AttemptsAreCounted, InHand, Settled
<1>4. QED BY <1>1, <1>2, <1>3 DEF SweepInv

-----------------------------------------------------------------------------
(* Steps of customers, of publish and of time: no row in hand is touched.    *)

(* Endpoints, the SELECT of publish, and the clock.                          *)
LEMMA OutsideKeepsInv ==
  ASSUME SweepInv,
         \/ \E e \in Endpoints : CreateEndpoint(e) \/ DeleteEndpoint(e) \/ EnableEndpoint(e)
         \/ \E v \in Events : FindTargets(v)
         \/ \E d \in Deliveries : BackoffElapses(d)
  PROVE  SweepInv'
<1> USE WebhookAssumption DEF SweepInv, rows, hooks, sweep, bounds, history
<1>1. UNCHANGED <<status, attempts, pc, batch, cur, faults, posts>>
  BY DEF CreateEndpoint, DeleteEndpoint, EnableEndpoint, FindTargets, BackoffElapses
<1>2. TypeOK'
  <2>1. CASE \E e \in Endpoints : CreateEndpoint(e) \/ DeleteEndpoint(e) \/ EnableEndpoint(e)
    BY <2>1 DEF TypeOK, CreateEndpoint, DeleteEndpoint, EnableEndpoint
  <2>2. CASE \E v \in Events : FindTargets(v)
    BY <2>2 DEF TypeOK, FindTargets
  <2>3. CASE \E d \in Deliveries : BackoffElapses(d)
    BY <2>3 DEF TypeOK, BackoffElapses
  <2>4. QED BY <2>1, <2>2, <2>3
<1>3. SnapshotIsFresh'
  BY <1>1 DEF SnapshotIsFresh, Fresh
<1>4. AttemptsAreCounted'
  BY <1>1 DEF AttemptsAreCounted, InHand
<1>5. QED BY <1>2, <1>3, <1>4

(* The rows publish inserts were not there before, so no snapshot has them. *)
LEMMA InsertKeepsInv ==
  ASSUME SweepInv, NEW v \in Events, InsertRows(v)
  PROVE  SweepInv'
<1> USE WebhookAssumption DEF SweepInv, rows, hooks, sweep, bounds, history
<1>1. PICK new \in SUBSET Deliveries :
        /\ \A d \in new : status[d] = "none"
        /\ status' = [d \in Deliveries |-> IF d \in new THEN "pending" ELSE status[d]]
        /\ due' = [d \in Deliveries |-> d \in new \/ due[d]]
        /\ UNCHANGED <<targets, attempts, hooks, sweep, bounds, history>>
  <2> DEFINE new == IF targets[v] = None THEN {} ELSE {v} \X targets[v]
  <2>1. new \in SUBSET Deliveries
    BY DEF TypeOK, InsertRows, Deliveries
  <2>2. QED BY <2>1 DEF InsertRows
<1>2. TypeOK'
  BY <1>1 DEF TypeOK, Open
<1>3. \A r \in Snapshot : Fresh(r) => Fresh(r)'
  BY <1>1, SnapshotFields DEF Fresh, Open
<1>4. SnapshotIsFresh'
  BY <1>1, <1>3, RowInHand DEF SnapshotIsFresh, TypeOK, Busy
<1>5. AttemptsAreCounted'
  BY <1>1 DEF AttemptsAreCounted, InHand, Settled, TypeOK
<1>6. QED BY <1>2, <1>4, <1>5

-----------------------------------------------------------------------------
(* Steps of the sweep.                                                       *)

(* Reading the snapshot, moving to its next row, and the end of a sweep.     *)
LEMMA StartKeepsInv ==
  ASSUME SweepInv, StartSweep
  PROVE  SweepInv'
<1> USE WebhookAssumption DEF SweepInv, rows, hooks, sweep, bounds, history
<1>1. PICK taken \in SUBSET Due : batch' = {SnapshotOf(d) : d \in taken}
  BY DEF StartSweep
<1>2. \A d \in taken : /\ SnapshotOf(d) \in Snapshot
                       /\ SnapshotOf(d).id = d
                       /\ SnapshotOf(d).attempts = attempts[d]
                       /\ status[d] \in Open
  BY DEF SnapshotOf, Snapshot, Due, TypeOK
<1>3. /\ pc = "idle" /\ pc' = "next"
      /\ UNCHANGED <<targets, rows, hooks, cur, bounds, history>>
  BY DEF StartSweep
<1>4. TypeOK'
  BY <1>1, <1>2, <1>3 DEF TypeOK, Busy
<1>5. \A r \in batch' : \E d \in taken : r = SnapshotOf(d)
  BY <1>1
<1>6. SnapshotIsFresh'
  <2>1. \A r \in batch' : Fresh(r)'
    BY <1>2, <1>3, <1>5 DEF Fresh
  <2>2. \A r, q \in batch' : r.id = q.id => r = q
    BY <1>2, <1>5
  <2>3. QED BY <1>3, <2>1, <2>2 DEF SnapshotIsFresh, Busy
<1>7. AttemptsAreCounted'
  BY <1>3 DEF AttemptsAreCounted, InHand
<1>8. QED BY <1>4, <1>6, <1>7

(* Taking the next row, and the end of a sweep, planned or not.              *)
LEMMA WalkKeepsInv ==
  ASSUME SweepInv, NextRow \/ EndSweep \/ Abandon
  PROVE  SweepInv'
<1> USE WebhookAssumption, NoneIsNoSnapshot
    DEF SweepInv, rows, hooks, sweep, bounds, history
<1>1. CASE NextRow
  <2>1. PICK r \in batch : cur' = r /\ batch' = batch \ {r}
    BY <1>1 DEF NextRow
  <2>2. TypeOK'
    BY <1>1, <2>1 DEF NextRow, TypeOK, Busy
  <2>3. SnapshotIsFresh'
    BY <1>1, <2>1 DEF NextRow, SnapshotIsFresh, Fresh, Busy
  <2>4. AttemptsAreCounted'
    BY <1>1 DEF NextRow, AttemptsAreCounted, InHand
  <2>5. QED BY <2>2, <2>3, <2>4
<1>2. CASE EndSweep
  <2>1. TypeOK'
    BY <1>2 DEF EndSweep, TypeOK, Busy
  <2>2. SnapshotIsFresh'
    BY <1>2 DEF EndSweep, SnapshotIsFresh, Busy
  <2>3. AttemptsAreCounted'
    BY <1>2 DEF EndSweep, AttemptsAreCounted, InHand
  <2>4. QED BY <2>1, <2>2, <2>3
<1>3. CASE Abandon
  <2>1. TypeOK'
    BY <1>3 DEF Abandon, TypeOK, Busy
  <2>2. SnapshotIsFresh'
    BY <1>3 DEF Abandon, SnapshotIsFresh, Busy
  <2>3. AttemptsAreCounted'
    BY <1>3 DEF Abandon, AttemptsAreCounted, InHand, TypeOK
  <2>4. QED BY <2>1, <2>2, <2>3
<1>4. QED BY <1>1, <1>2, <1>3

(* What a step does to the row in hand leaves the other rows fresh.          *)
LEMMA OtherRowsStayFresh ==
  ASSUME SweepInv, pc \in Busy,
         \A d \in Deliveries \ {cur.id} :
           status'[d] = status[d] /\ attempts'[d] = attempts[d]
  PROVE  \A r \in batch : Fresh(r)'
BY SnapshotFields DEF SweepInv, SnapshotIsFresh, TypeOK, Fresh

(* The row in hand is retired, or its POST is made.                          *)
LEMMA RowKeepsInv ==
  ASSUME SweepInv, Retire \/ Attempt
  PROVE  SweepInv'
<1> USE WebhookAssumption, NoneIsNoSnapshot
    DEF SweepInv, rows, hooks, sweep, bounds, history
<1>0. cur \in Snapshot /\ cur.id \in Deliveries /\ cur.attempts \in Nat
      /\ pc = "row" /\ pc \in Busy /\ Fresh(cur)
  BY RowInHand, SnapshotFields DEF Retire, Attempt, Busy, SnapshotIsFresh
<1>1. CASE Retire
  <2>1. TypeOK'
    BY <1>0, <1>1 DEF Retire, RowDone, TypeOK, Busy, Settled
  <2>2. SnapshotIsFresh'
    BY <1>0, <1>1, OtherRowsStayFresh DEF Retire, RowDone, SnapshotIsFresh, TypeOK, Busy
  <2>3. AttemptsAreCounted'
    BY <1>0, <1>1 DEF Retire, RowDone, AttemptsAreCounted, InHand, TypeOK, Settled
  <2>4. QED BY <2>1, <2>2, <2>3
<1>2. CASE Attempt
  <2>1. TypeOK'
    BY <1>0, <1>2 DEF Attempt, TypeOK, Busy
  <2>2. SnapshotIsFresh'
    BY <1>0, <1>2 DEF Attempt, SnapshotIsFresh, Fresh, Busy
  <2>3. AttemptsAreCounted'
    BY <1>0, <1>2 DEF Attempt, AttemptsAreCounted, InHand, TypeOK
  <2>4. QED BY <2>1, <2>2, <2>3
<1>3. QED BY <1>1, <1>2

(* Recording an outcome: one more attempt, and no more than MaxAttempts.     *)
LEMMA RecordKeepsInv ==
  ASSUME SweepInv, RecordDelivered \/ RetryLater \/ GiveUp
  PROVE  SweepInv'
<1> USE WebhookAssumption, NoneIsNoSnapshot
    DEF SweepInv, rows, hooks, sweep, bounds, history
<1>1. /\ cur \in Snapshot /\ cur.id \in Deliveries /\ cur.attempts \in Nat
      /\ Endpoint(cur.id) \in Endpoints
      /\ pc \in {"ok", "error"} /\ pc \in Busy /\ Fresh(cur)
  BY RowInHand, SnapshotFields
     DEF RecordDelivered, RetryLater, GiveUp, Busy, SnapshotIsFresh
<1>2. cur.attempts = attempts[cur.id] /\ cur.attempts + 1 <= MaxAttempts
  BY <1>1 DEF Fresh, AttemptsAreCounted, TypeOK, Open, Settled
<1>3. CASE RecordDelivered
  <2>1. TypeOK'
    BY <1>1, <1>2, <1>3 DEF RecordDelivered, TypeOK, Busy, Settled
  <2>2. SnapshotIsFresh'
    BY <1>1, <1>3, OtherRowsStayFresh DEF RecordDelivered, SnapshotIsFresh, TypeOK, Busy
  <2>3. AttemptsAreCounted'
    BY <1>1, <1>2, <1>3 DEF RecordDelivered, AttemptsAreCounted, InHand, TypeOK, Settled
  <2>4. QED BY <2>1, <2>2, <2>3
<1>4. CASE RetryLater
  <2>1. TypeOK'
    BY <1>1, <1>2, <1>4 DEF RetryLater, RowDone, TypeOK, Busy, Open
  <2>2. SnapshotIsFresh'
    BY <1>1, <1>4, OtherRowsStayFresh DEF RetryLater, RowDone, SnapshotIsFresh, TypeOK, Busy
  <2>3. AttemptsAreCounted'
    BY <1>1, <1>2, <1>4
       DEF RetryLater, LastAttempt, RowDone, AttemptsAreCounted, InHand, TypeOK
  <2>4. QED BY <2>1, <2>2, <2>3
<1>5. CASE GiveUp
  <2>1. TypeOK'
    BY <1>1, <1>2, <1>5 DEF GiveUp, TypeOK, Busy, Settled
  <2>2. SnapshotIsFresh'
    BY <1>1, <1>5, OtherRowsStayFresh DEF GiveUp, SnapshotIsFresh, TypeOK, Busy
  <2>3. AttemptsAreCounted'
    BY <1>1, <1>2, <1>5 DEF GiveUp, AttemptsAreCounted, InHand, TypeOK, Settled
  <2>4. QED BY <2>1, <2>2, <2>3
<1>6. QED BY <1>3, <1>4, <1>5

(* The UPDATEs of the endpoint touch no row.                                 *)
LEMMA EndpointKeepsInv ==
  ASSUME SweepInv, ClearStreak \/ CountFailure \/ Disable
  PROVE  SweepInv'
<1> USE WebhookAssumption, NoneIsNoSnapshot
    DEF SweepInv, rows, hooks, sweep, bounds, history
<1>1. /\ cur \in Snapshot /\ Endpoint(cur.id) \in Endpoints
      /\ pc \in {"clearing", "counting", "disabling"} /\ pc \in Busy
  BY RowInHand, SnapshotFields DEF ClearStreak, CountFailure, Disable, Busy
<1>2. UNCHANGED <<targets, status, attempts, due, batch, faults, enables, posts, streak>>
  BY DEF ClearStreak, CountFailure, Disable, RowDone
<1>3. \/ pc' = "next" /\ cur' = None
      \/ pc' = "disabling" /\ cur' = cur
  BY DEF ClearStreak, CountFailure, Disable, RowDone
<1>4. TypeOK'
  <2>1. hook' \in [Endpoints -> {"absent", "enabled", "disabled", "deleted"}]
    BY <1>1 DEF ClearStreak, CountFailure, Disable, TypeOK
  <2>2. failures' \in [Endpoints -> Nat]
    BY <1>1 DEF ClearStreak, CountFailure, Disable, TypeOK
  <2>3. QED BY <1>1, <1>2, <1>3, <2>1, <2>2 DEF TypeOK, Busy
<1>5. SnapshotIsFresh'
  BY <1>1, <1>2, <1>3 DEF SnapshotIsFresh, Fresh, Busy
<1>6. AttemptsAreCounted'
  BY <1>1, <1>2, <1>3 DEF AttemptsAreCounted, InHand
<1>7. QED BY <1>4, <1>5, <1>6

-----------------------------------------------------------------------------
(* The theorems.                                                             *)

(* The snapshot a sweep works from is true of the rows it has yet to do,     *)
(* whatever customers, publishers and lost sweeps do in between.             *)
THEOREM SweepInvariant == Spec => []SweepInv
<1>1. SweepInv /\ [Next]_vars => SweepInv'
  <2>1. ASSUME SweepInv, Next
        PROVE  SweepInv'
    BY <2>1, OutsideKeepsInv, InsertKeepsInv, StartKeepsInv, WalkKeepsInv,
       RowKeepsInv, RecordKeepsInv, EndpointKeepsInv
       DEF Next, SweepStep
  <2>2. ASSUME SweepInv, UNCHANGED vars
        PROVE  SweepInv'
    BY <2>2 DEF vars, rows, hooks, sweep, bounds, history, SweepInv, TypeOK,
                SnapshotIsFresh, Fresh, AttemptsAreCounted, InHand
  <2>3. QED BY <2>1, <2>2
<1>2. QED BY <1>1, InitSweepInv, PTL DEF Spec

(* A customer gets no delivery more than MaxAttempts times, and once more    *)
(* for each sweep that was cut short: attemptDelivery and its record.        *)
THEOREM SweepAttemptsBounded == Spec => []AttemptsBounded
<1>1. SweepInv => AttemptsBounded
  <2> SUFFICES ASSUME SweepInv, NEW d \in Deliveries
               PROVE  posts[d] <= MaxAttempts + faults
    BY DEF AttemptsBounded
  <2> USE WebhookAssumption DEF SweepInv, TypeOK
  <2>1. CASE InHand(d)
    <3>1. status[d] \notin Settled
      BY <2>1 DEF InHand, SnapshotIsFresh, Fresh, Open, Settled
    <3>2. QED BY <2>1, <3>1 DEF AttemptsAreCounted
  <2>2. CASE ~InHand(d)
    BY <2>2 DEF AttemptsAreCounted
  <2>3. QED BY <2>1, <2>2
<1>2. QED BY <1>1, SweepInvariant, PTL

-----------------------------------------------------------------------------
(* The life of a delivery.                                                   *)

(* A row that is not there has no attempts to its name.                      *)
Blank == \A d \in Deliveries : status[d] = "none" => attempts[d] = 0

(* The row in hand is what the sweep believes it to be.                      *)
LEMMA HandIsFresh ==
  ASSUME SweepInv, pc \in {"row", "ok", "error"}
  PROVE  /\ cur \in Snapshot /\ cur.id \in Deliveries
         /\ status[cur.id] \in Open
         /\ cur.attempts = attempts[cur.id] /\ attempts[cur.id] \in Nat
BY RowInHand, SnapshotFields, WebhookAssumption
   DEF SweepInv, SnapshotIsFresh, Fresh, TypeOK, Busy

(* What the sweep counts are attempts at rows that are there.                *)
LEMMA NextKeepsBlank ==
  ASSUME SweepInv, Blank, Next
  PROVE  Blank'
<1> USE DEF rows, hooks, sweep, bounds, history
<1>1. CASE \/ \E e \in Endpoints : CreateEndpoint(e) \/ DeleteEndpoint(e) \/ EnableEndpoint(e)
           \/ \E v \in Events : FindTargets(v)
           \/ \E d \in Deliveries : BackoffElapses(d)
           \/ StartSweep \/ NextRow \/ EndSweep \/ Abandon \/ Attempt
           \/ ClearStreak \/ CountFailure \/ Disable
  <2>1. UNCHANGED <<status, attempts>>
    BY <1>1 DEF CreateEndpoint, DeleteEndpoint, EnableEndpoint, FindTargets, BackoffElapses,
       StartSweep, NextRow, EndSweep, Abandon, Attempt, ClearStreak, CountFailure, Disable
  <2>2. QED BY <2>1 DEF Blank
<1>2. CASE \E v \in Events : InsertRows(v)
  BY <1>2 DEF InsertRows, Blank
<1>3. CASE Retire \/ RecordDelivered \/ RetryLater \/ GiveUp
  <2>1. cur.id \in Deliveries
    BY <1>3, HandIsFresh DEF Retire, RecordDelivered, RetryLater, GiveUp
  <2>2. status'[cur.id] # "none"
    BY <1>3, <2>1 DEF Retire, RecordDelivered, RetryLater, GiveUp, SweepInv, TypeOK
  <2>3. \A d \in Deliveries \ {cur.id} : status'[d] = status[d] /\ attempts'[d] = attempts[d]
    BY <1>3, <2>1 DEF Retire, RecordDelivered, RetryLater, GiveUp, SweepInv, TypeOK
  <2>4. QED BY <2>2, <2>3 DEF Blank
<1>4. QED BY <1>1, <1>2, <1>3 DEF Next, SweepStep

(* What the ledger shows of the deliveries, before and after a step.         *)
LEMMA LivesShow ==
  /\ \A d \in Deliveries : Lives[d] = Life!Stage(status[d], attempts[d])
  /\ \A d \in Deliveries : Lives'[d] = Life!Stage(status'[d], attempts'[d])
  /\ Lives = [d \in Deliveries |-> Lives[d]]
  /\ Lives' = [d \in Deliveries |-> Lives'[d]]
BY DEF Lives, Life!Stage

(* At most the row in hand is on its way to a customer.                      *)
LEMMA FlightShows ==
  /\ pc \notin {"ok", "error"} => Flight = {}
  /\ pc' \notin {"ok", "error"} => Flight' = {}
  /\ pc \in {"ok", "error"} /\ cur.id \in Deliveries => Flight = {cur.id}
  /\ pc' \in {"ok", "error"} /\ cur'.id \in Deliveries => Flight' = {cur'.id}
BY DEF Flight, InHand

(* One row changes: one life goes on.                                        *)
LEMMA OneLifeGoes ==
  ASSUME NEW d \in Deliveries,
         \A c \in Deliveries \ {d} : status'[c] = status[c] /\ attempts'[c] = attempts[c]
  PROVE  Lives' = [Lives EXCEPT ![d] = Life!Stage(status'[d], attempts'[d])]
<1>1. \A c \in Deliveries \ {d} : Lives'[c] = Lives[c]
  BY LivesShow
<1>2. QED BY <1>1, LivesShow

(* The steps of the sweep, and publish, as steps in the life of deliveries.  *)
LEMMA OtherStepsStutter ==
  ASSUME SweepInv,
         \/ \E e \in Endpoints : CreateEndpoint(e) \/ DeleteEndpoint(e) \/ EnableEndpoint(e)
         \/ \E v \in Events : FindTargets(v)
         \/ \E d \in Deliveries : BackoffElapses(d)
         \/ StartSweep \/ NextRow \/ EndSweep \/ ClearStreak \/ CountFailure \/ Disable
  PROVE  UNCHANGED <<Lives, Flight>>
<1> USE DEF rows, hooks, sweep, bounds, history
<1>1. UNCHANGED <<status, attempts>>
  BY DEF CreateEndpoint, DeleteEndpoint, EnableEndpoint, FindTargets, BackoffElapses,
         StartSweep, NextRow, EndSweep, ClearStreak, CountFailure, Disable
<1>2. \/ UNCHANGED <<pc, cur>>
      \/ pc \notin {"ok", "error"} /\ pc' \notin {"ok", "error"}
  BY DEF CreateEndpoint, DeleteEndpoint, EnableEndpoint, FindTargets, BackoffElapses,
         StartSweep, NextRow, EndSweep, ClearStreak, CountFailure, Disable, RowDone
<1>3. UNCHANGED Lives
  BY <1>1 DEF Lives
<1>4. UNCHANGED Flight
  BY <1>2 DEF Flight, InHand
<1>5. QED BY <1>3, <1>4

(* A sweep cut short may lose the POST it had made.                          *)
LEMMA AbandonLoses ==
  ASSUME Abandon
  PROVE  Life!Lose
<1>1. pc' = "idle" /\ UNCHANGED <<status, attempts>>
  BY DEF Abandon, rows
<1>2. UNCHANGED Lives
  BY <1>1 DEF Lives
<1>3. QED BY <1>1, <1>2, FlightShows DEF Life!Lose

(* Publish records deliveries that were not there.                           *)
LEMMA InsertRecords ==
  ASSUME SweepInv, Blank, NEW v \in Events, InsertRows(v)
  PROVE  \E new \in SUBSET Deliveries : Life!Record(new)
<1> USE DEF rows, hooks, sweep, bounds, history
<1>1. PICK new \in SUBSET Deliveries :
        /\ \A d \in new : status[d] = "none"
        /\ status' = [d \in Deliveries |-> IF d \in new THEN "pending" ELSE status[d]]
        /\ UNCHANGED <<attempts, pc, cur>>
  <2> DEFINE new == IF targets[v] = None THEN {} ELSE {v} \X targets[v]
  <2>1. new \in SUBSET Deliveries
    BY DEF SweepInv, TypeOK, InsertRows, Deliveries
  <2>2. QED BY <2>1 DEF InsertRows
<1>2. \A d \in new : attempts[d] = 0 /\ Lives[d] = Life!Unrecorded
  BY <1>1, LivesShow DEF Blank, Life!Unrecorded
<1>3. Lives' = [d \in Deliveries |-> IF d \in new THEN Life!Stage("pending", 0) ELSE Lives[d]]
  <2>1. \A d \in Deliveries :
          Lives'[d] = IF d \in new THEN Life!Stage("pending", 0) ELSE Lives[d]
    BY <1>1, <1>2, LivesShow
  <2>2. QED BY <2>1, LivesShow
<1>4. UNCHANGED Flight
  BY <1>1 DEF Flight, InHand
<1>5. QED BY <1>2, <1>3, <1>4 DEF Life!Record

(* The row a sweep POSTs is not settled, and nothing else is in flight.      *)
LEMMA AttemptPosts ==
  ASSUME SweepInv, Attempt
  PROVE  \E d \in Deliveries : Life!Post(d)
<1>1. /\ pc = "row" /\ pc' \in {"ok", "error"} /\ cur' = cur
      /\ UNCHANGED <<status, attempts>>
  BY DEF Attempt, rows
<1>2. cur.id \in Deliveries /\ status[cur.id] \in Open
  BY <1>1, HandIsFresh
<1>3. Flight = {} /\ Flight' = {cur.id}
  BY <1>1, <1>2, FlightShows
<1>4. UNCHANGED Lives
  BY <1>1 DEF Lives
<1>5. Lives[cur.id].status \in Life!Unsettled
  BY <1>2, LivesShow DEF Life!Stage, Life!Unsettled, Open
<1>6. QED BY <1>2, <1>3, <1>4, <1>5 DEF Life!Post

(* Nor is the row it retires.                                                *)
LEMMA RetireRetires ==
  ASSUME SweepInv, Retire
  PROVE  \E d \in Deliveries : Life!Retire(d)
<1>1. /\ pc = "row" /\ pc' = "next"
      /\ status' = [status EXCEPT ![cur.id] = "exhausted"] /\ attempts' = attempts
  BY DEF Retire, RowDone
<1>2. cur.id \in Deliveries /\ status[cur.id] \in Open
  BY <1>1, HandIsFresh
<1>3. Flight = {} /\ Flight' = {}
  BY <1>1, FlightShows
<1>4. Lives[cur.id].status \in Life!Unsettled /\ Lives[cur.id].attempts = attempts[cur.id]
  BY <1>2, LivesShow DEF Life!Stage, Life!Unsettled, Open
<1>5. /\ status'[cur.id] = "exhausted"
      /\ \A c \in Deliveries \ {cur.id} : status'[c] = status[c] /\ attempts'[c] = attempts[c]
  BY <1>1, <1>2 DEF SweepInv, TypeOK
<1>6. Lives' = [Lives EXCEPT ![cur.id] = Life!Stage("exhausted", attempts[cur.id])]
  BY <1>1, <1>2, <1>5, OneLifeGoes
<1>7. QED BY <1>2, <1>3, <1>4, <1>6 DEF Life!Retire

(* The verdict on a POST is what the count of attempts makes of the answer.  *)
LEMMA RecordAnswers ==
  ASSUME SweepInv, RecordDelivered \/ RetryLater \/ GiveUp
  PROVE  \E d \in Deliveries : Life!Answer(d)
<1>1. pc \in {"ok", "error"} /\ pc' \notin {"ok", "error"}
  BY DEF RecordDelivered, RetryLater, GiveUp, RowDone
<1>2. /\ cur.id \in Deliveries
      /\ cur.attempts = attempts[cur.id] /\ attempts[cur.id] \in Nat
  BY <1>1, HandIsFresh
<1>3. Flight = {cur.id} /\ Flight' = {}
  BY <1>1, <1>2, FlightShows
<1>4. Lives[cur.id].attempts = attempts[cur.id]
  BY <1>2, LivesShow DEF Life!Stage
<1>5. /\ attempts'[cur.id] = attempts[cur.id] + 1
      /\ status'[cur.id] \in Life!Verdicts(attempts[cur.id] + 1)
  BY <1>2, WebhookAssumption
     DEF RecordDelivered, RetryLater, GiveUp, LastAttempt, SweepInv, TypeOK, Life!Verdicts
<1>6. \A c \in Deliveries \ {cur.id} : status'[c] = status[c] /\ attempts'[c] = attempts[c]
  BY <1>2 DEF RecordDelivered, RetryLater, GiveUp, SweepInv, TypeOK
<1>7. Lives' = [Lives EXCEPT ![cur.id] = Life!Stage(status'[cur.id], attempts[cur.id] + 1)]
  BY <1>2, <1>5, <1>6, OneLifeGoes
<1>8. QED BY <1>2, <1>3, <1>4, <1>5, <1>7 DEF Life!Answer

(* schema/webhooks.ts: over sweeps that die, endpoints that come and go and  *)
(* statements that fail, the ledger is what a customer is promised of each   *)
(* delivery.  One POST is made at a time, every answer is counted, and no    *)
(* sweep touches or POSTs a delivered or exhausted row, although its UPDATEs *)
(* name the row by id alone.                                                 *)
THEOREM SweepRefinesDeliveryLife == Spec => RefinesDeliveryLife
<1>1. Init => Blank /\ Life!Init
  <2> SUFFICES ASSUME Init PROVE Blank /\ Life!Init
    OBVIOUS
  <2>1. Blank
    BY DEF Init, Blank
  <2>2. Lives = [d \in Deliveries |-> Life!Unrecorded]
    BY DEF Init, Lives, Life!Unrecorded, Life!Stage
  <2>3. Flight = {}
    BY FlightShows DEF Init
  <2>4. QED BY <2>1, <2>2, <2>3 DEF Life!Init
<1>2. SweepInv /\ Blank /\ [Next]_vars => Blank'
  <2>1. UNCHANGED vars /\ Blank => Blank'
    BY DEF vars, rows, Blank
  <2>2. QED BY <2>1, NextKeepsBlank
<1>3. ASSUME SweepInv, Blank, Next
      PROVE  Life!Next \/ UNCHANGED <<Lives, Flight>>
  <2>1. CASE \E v \in Events : InsertRows(v)
    BY <1>3, <2>1, InsertRecords DEF Life!Next
  <2>2. CASE Abandon
    BY <2>2, AbandonLoses DEF Life!Next
  <2>3. CASE Attempt
    BY <1>3, <2>3, AttemptPosts DEF Life!Next
  <2>4. CASE Retire
    BY <1>3, <2>4, RetireRetires DEF Life!Next
  <2>5. CASE RecordDelivered \/ RetryLater \/ GiveUp
    BY <1>3, <2>5, RecordAnswers DEF Life!Next
  <2>6. QED BY <1>3, <2>1, <2>2, <2>3, <2>4, <2>5, OtherStepsStutter DEF Next, SweepStep
<1>4. UNCHANGED vars => UNCHANGED <<Lives, Flight>>
  BY DEF vars, rows, sweep, Lives, Flight, InHand
<1>5. SweepInv /\ Blank /\ [Next]_vars => [Life!Next]_<<Lives, Flight>>
  BY <1>3, <1>4
<1>6. QED BY <1>1, <1>2, <1>5, SweepInvariant, PTL
          DEF Spec, RefinesDeliveryLife, Life!Spec

-----------------------------------------------------------------------------
(* Why an endpoint is switched off.                                          *)

(* The row in hand is given up, and its endpoint does not know yet.          *)
Uncounted(e) == IF pc = "counting" /\ Endpoint(cur.id) = e THEN 1 ELSE 0

(* consecutive_failures counts no more than the deliveries that used up      *)
(* their attempts, one of which may still be on its way to the counter.      *)
CauseInv ==
  /\ \A e \in Endpoints : failures[e] + Uncounted(e) <= Cardinality(GivenUp(e))
  /\ pc = "disabling" => Cardinality(GivenUp(Endpoint(cur.id))) >= FailureLimit
  /\ DisabledForCause

(* The same since the last success, while no sweep was cut short.  Between   *)
(* the record of a success and the clearing UPDATE the counter lags.         *)
StreakInv ==
  faults = 0 =>
    \A e \in Endpoints :
      /\ ~(pc = "clearing" /\ Endpoint(cur.id) = e) =>
           failures[e] + Uncounted(e) <= streak[e]
      /\ pc = "disabling" /\ Endpoint(cur.id) = e => streak[e] >= FailureLimit

(* There are finitely many deliveries, so they can be counted.               *)
LEMMA GivenUpIsFinite ==
  ASSUME NEW e \in Endpoints
  PROVE  /\ IsFiniteSet(GivenUp(e)) /\ Cardinality(GivenUp(e)) \in Nat
         /\ IsFiniteSet(GivenUp(e)') /\ Cardinality(GivenUp(e)') \in Nat
<1>1. IsFiniteSet(Deliveries)
  BY WebhookAssumption, FS_Product DEF Deliveries
<1>2. GivenUp(e) \subseteq Deliveries /\ GivenUp(e)' \subseteq Deliveries
  BY DEF GivenUp
<1>3. QED BY <1>1, <1>2, FS_Subset, FS_CardinalityType

(* A step that leaves the given-up rows as they are loses none of them.      *)
LEMMA GivenUpGrows ==
  ASSUME \A d \in Deliveries :
           status[d] = "exhausted" => status'[d] = status[d] /\ attempts'[d] = attempts[d]
  PROVE  \A e \in Endpoints : Cardinality(GivenUp(e)) <= Cardinality(GivenUp(e)')
<1> SUFFICES ASSUME NEW e \in Endpoints
             PROVE  Cardinality(GivenUp(e)) <= Cardinality(GivenUp(e)')
  OBVIOUS
<1>1. GivenUp(e) \subseteq GivenUp(e)'
  BY DEF GivenUp
<1>2. QED BY <1>1, GivenUpIsFinite, FS_Subset

(* No endpoint has failed yet.                                               *)
LEMMA InitCauseInv == Init => CauseInv
<1> SUFFICES ASSUME Init PROVE CauseInv
  OBVIOUS
<1>1. \A e \in Endpoints : failures[e] = 0 /\ Uncounted(e) = 0 /\ hook[e] = "absent"
  BY DEF Init, Uncounted
<1>2. \A e \in Endpoints : Cardinality(GivenUp(e)) \in Nat
  BY GivenUpIsFinite
<1>3. QED BY <1>1, <1>2 DEF Init, CauseInv, DisabledForCause

(* No step touches a row that is given up.                                   *)
LEMMA GivenUpStays ==
  ASSUME SweepInv, Next
  PROVE  \A d \in Deliveries :
           status[d] = "exhausted" => status'[d] = status[d] /\ attempts'[d] = attempts[d]
<1> USE DEF rows, hooks, sweep, bounds, history
<1>1. CASE \E e \in Endpoints : CreateEndpoint(e) \/ DeleteEndpoint(e) \/ EnableEndpoint(e)
  BY <1>1 DEF CreateEndpoint, DeleteEndpoint, EnableEndpoint
<1>2. CASE \E v \in Events : FindTargets(v) \/ InsertRows(v)
  BY <1>2 DEF FindTargets, InsertRows
<1>3. CASE \E d \in Deliveries : BackoffElapses(d)
  BY <1>3 DEF BackoffElapses
<1>4. CASE StartSweep \/ NextRow \/ EndSweep \/ Abandon \/ Attempt
  BY <1>4 DEF StartSweep, NextRow, EndSweep, Abandon, Attempt
<1>5. CASE ClearStreak \/ CountFailure \/ Disable
  BY <1>5 DEF ClearStreak, CountFailure, Disable
<1>6. CASE Retire \/ RecordDelivered \/ RetryLater \/ GiveUp
  <2>1. status[cur.id] # "exhausted"
    BY <1>6 DEF SweepInv, SnapshotIsFresh, Fresh, Open, Retire, RecordDelivered,
                RetryLater, GiveUp
  <2>2. \A d \in Deliveries \ {cur.id} :
          status'[d] = status[d] /\ attempts'[d] = attempts[d]
    BY <1>6 DEF SweepInv, TypeOK, Retire, RecordDelivered, RetryLater, GiveUp
  <2>3. QED BY <2>1, <2>2
<1>7. QED BY <1>1, <1>2, <1>3, <1>4, <1>5, <1>6 DEF Next, SweepStep

(* What the steps other than GiveUp do to an endpoint's counter, and to what *)
(* is still to be counted.                                                   *)
LEMMA CounterFollows ==
  ASSUME SweepInv, Next, ~GiveUp, NEW e \in Endpoints
  PROVE  failures'[e] + Uncounted(e)' <= failures[e] + Uncounted(e)
<1> USE DEF rows, hooks, sweep, bounds, history
<1>0. failures[e] \in Nat
  BY DEF SweepInv, TypeOK
<1>1. CASE \E x \in Endpoints : CreateEndpoint(x) \/ DeleteEndpoint(x) \/ EnableEndpoint(x)
  BY <1>0, <1>1 DEF CreateEndpoint, DeleteEndpoint, EnableEndpoint, Uncounted, SweepInv, TypeOK
<1>2. CASE \E v \in Events : FindTargets(v) \/ InsertRows(v)
  BY <1>0, <1>2 DEF FindTargets, InsertRows, Uncounted
<1>3. CASE \E d \in Deliveries : BackoffElapses(d)
  BY <1>0, <1>3 DEF BackoffElapses, Uncounted
<1>4. CASE StartSweep \/ NextRow \/ EndSweep \/ Abandon \/ Attempt
  BY <1>0, <1>4 DEF StartSweep, NextRow, EndSweep, Abandon, Attempt, Uncounted
<1>5. CASE Retire \/ RecordDelivered \/ RetryLater
  BY <1>0, <1>5 DEF Retire, RecordDelivered, RetryLater, RowDone, Uncounted
<1>6. CASE ClearStreak \/ Disable
  BY <1>0, <1>6 DEF ClearStreak, Disable, RowDone, Uncounted, SweepInv, TypeOK
<1>7. CASE CountFailure
  <2>1. pc = "counting" /\ pc' # "counting"
    BY <1>7 DEF CountFailure, RowDone
  <2>2. \/ failures' = failures
        \/ failures' = [failures EXCEPT ![Endpoint(cur.id)] = @ + 1]
    BY <1>7 DEF CountFailure
  <2>3. QED BY <1>0, <2>1, <2>2 DEF Uncounted, SweepInv, TypeOK
<1>8. QED BY <1>1, <1>2, <1>3, <1>4, <1>5, <1>6, <1>7 DEF Next, SweepStep

(* Giving up a row adds it to the given-up rows of its endpoint, and leaves  *)
(* its endpoint one more to count.                                           *)
LEMMA GiveUpIsCounted ==
  ASSUME SweepInv, GiveUp, NEW e \in Endpoints,
         failures[e] + Uncounted(e) <= Cardinality(GivenUp(e))
  PROVE  failures'[e] + Uncounted(e)' <= Cardinality(GivenUp(e)')
<1> USE DEF rows, hooks, sweep, bounds, history
<1>1. /\ failures[e] \in Nat /\ failures' = failures
      /\ Uncounted(e) = 0 /\ cur' = cur /\ pc' = "counting"
  BY DEF SweepInv, TypeOK, GiveUp, Uncounted
<1>2. /\ cur.id \in Deliveries /\ cur.attempts \in Nat
      /\ status[cur.id] \in Open /\ attempts[cur.id] = cur.attempts
      /\ attempts[cur.id] < MaxAttempts
  BY RowInHand, SnapshotFields
     DEF SweepInv, GiveUp, Busy, SnapshotIsFresh, Fresh, AttemptsAreCounted, Open, Settled
<1>3. cur.attempts + 1 = MaxAttempts
  BY <1>2, WebhookAssumption DEF GiveUp, LastAttempt
<1>4. CASE Endpoint(cur.id) = e
  <2>1. GivenUp(e)' = GivenUp(e) \cup {cur.id}
    BY <1>2, <1>3, <1>4 DEF GivenUp, GiveUp, SweepInv, TypeOK
  <2>2. cur.id \notin GivenUp(e)
    BY <1>2 DEF GivenUp, Open
  <2>3. Cardinality(GivenUp(e)') = Cardinality(GivenUp(e)) + 1
    BY <2>1, <2>2, GivenUpIsFinite, FS_AddElement
  <2>4. Uncounted(e)' = 1
    BY <1>1, <1>4 DEF Uncounted
  <2>5. QED BY <1>1, <2>3, <2>4, GivenUpIsFinite
<1>5. CASE Endpoint(cur.id) # e
  <2>1. GivenUp(e)' = GivenUp(e)
    BY <1>2, <1>5 DEF GivenUp, GiveUp, SweepInv, TypeOK
  <2>2. Uncounted(e)' = 0
    BY <1>1, <1>5 DEF Uncounted
  <2>3. QED BY <1>1, <2>1, <2>2
<1>6. QED BY <1>4, <1>5

(* Only Disable switches an endpoint off: that of the row in hand.           *)
LEMMA SweepDisablesOnly ==
  ASSUME SweepInv, Next, NEW e \in Endpoints, hook[e] # "disabled", hook'[e] = "disabled"
  PROVE  pc = "disabling" /\ e = Endpoint(cur.id)
<1> USE DEF rows, hooks, sweep, bounds, history
<1>1. hook \in [Endpoints -> {"absent", "enabled", "disabled", "deleted"}]
  BY DEF SweepInv, TypeOK
<1>2. ~\E x \in Endpoints : CreateEndpoint(x) \/ DeleteEndpoint(x) \/ EnableEndpoint(x)
  BY <1>1 DEF CreateEndpoint, DeleteEndpoint, EnableEndpoint
<1>3. Disable
  BY <1>2 DEF Next, SweepStep, FindTargets, InsertRows, BackoffElapses, StartSweep,
     NextRow, EndSweep, Retire, Attempt, RecordDelivered, ClearStreak, RetryLater,
     GiveUp, CountFailure, Abandon
<1>4. QED BY <1>1, <1>3 DEF Disable

(* Every step keeps the account of failures.                                 *)
LEMMA NextKeepsCause ==
  ASSUME SweepInv, CauseInv, Next
  PROVE  CauseInv'
<1> USE DEF rows, hooks, sweep, bounds, history
<1>1. \A e \in Endpoints : /\ Cardinality(GivenUp(e)) <= Cardinality(GivenUp(e)')
                           /\ Cardinality(GivenUp(e)) \in Nat
                           /\ Cardinality(GivenUp(e)') \in Nat
  BY GivenUpStays, GivenUpGrows, GivenUpIsFinite
<1>2. \A e \in Endpoints : failures[e] \in Nat /\ failures'[e] \in Nat
                           /\ Uncounted(e) \in Nat /\ Uncounted(e)' \in Nat
  <2>1. SweepInv'
    BY OutsideKeepsInv, InsertKeepsInv, StartKeepsInv, WalkKeepsInv, RowKeepsInv,
       RecordKeepsInv, EndpointKeepsInv DEF Next, SweepStep
  <2>2. QED BY <2>1 DEF SweepInv, TypeOK, Uncounted
<1>3. \A e \in Endpoints : failures'[e] + Uncounted(e)' <= Cardinality(GivenUp(e)')
  <2>1. CASE GiveUp
    BY <2>1, GiveUpIsCounted DEF CauseInv
  <2>2. CASE ~GiveUp
    BY <1>1, <1>2, <2>2, CounterFollows DEF CauseInv
  <2>3. QED BY <2>1, <2>2
<1>4. (pc = "disabling" => Cardinality(GivenUp(Endpoint(cur.id))) >= FailureLimit)'
  <2> SUFFICES ASSUME pc' = "disabling"
               PROVE  Cardinality(GivenUp(Endpoint(cur.id)))' >= FailureLimit
    OBVIOUS
  <2>1. CASE CountFailure
    <3> DEFINE e == Endpoint(cur.id)
    <3>1. e \in Endpoints /\ cur' = cur
      BY <2>1, RowInHand, SnapshotFields DEF CountFailure, SweepInv, Busy, RowDone
    <3>2. failures'[e] >= FailureLimit
      BY <2>1 DEF CountFailure, RowDone
    <3>3. Cardinality(GivenUp(e)') >= FailureLimit
      BY <1>1, <1>2, <1>3, <3>1, <3>2, WebhookAssumption
    <3>4. Endpoint(cur.id)' = e
      BY <3>1 DEF Endpoint
    <3>5. QED BY <3>1, <3>3 DEF GivenUp, Endpoint
  <2>2. CASE ~CountFailure
    <3>1. pc = "disabling" /\ cur' = cur
      BY <2>2 DEF Next, SweepStep, CreateEndpoint, DeleteEndpoint, EnableEndpoint,
         FindTargets, InsertRows, BackoffElapses, StartSweep, NextRow, EndSweep, Retire,
         Attempt, RecordDelivered, ClearStreak, RetryLater, GiveUp, Disable, Abandon, RowDone
    <3>2. Endpoint(cur.id) \in Endpoints
      BY <3>1, RowInHand, SnapshotFields DEF SweepInv, Busy
    <3>3. Cardinality(GivenUp(Endpoint(cur.id))') >= FailureLimit
      BY <1>1, <3>1, <3>2, WebhookAssumption DEF CauseInv
    <3>4. QED BY <3>1, <3>3 DEF GivenUp, Endpoint
  <2>3. QED BY <2>1, <2>2
<1>5. DisabledForCause'
  <2> SUFFICES ASSUME NEW e \in Endpoints, hook'[e] = "disabled"
               PROVE  Cardinality(GivenUp(e)') >= FailureLimit
    BY DEF DisabledForCause
  <2>1. CASE hook[e] = "disabled"
    BY <1>1, <2>1, WebhookAssumption DEF CauseInv, DisabledForCause
  <2>2. CASE hook[e] # "disabled"
    <3>1. pc = "disabling" /\ e = Endpoint(cur.id)
      BY <2>2, SweepDisablesOnly
    <3>2. QED BY <1>1, <3>1, WebhookAssumption DEF CauseInv
  <2>3. QED BY <2>1, <2>2
<1>6. QED BY <1>3, <1>4, <1>5 DEF CauseInv

(* dispatch.ts: "Only a fully exhausted delivery counts against the          *)
(* endpoint".  Whatever is retired, enabled by hand, or abandoned between    *)
(* two UPDATEs, a disabled endpoint has FailureLimit deliveries that used    *)
(* up all their attempts.                                                    *)
THEOREM SweepDisabledForCause == Spec => []DisabledForCause
<1>1. CauseInv /\ SweepInv /\ [Next]_vars => CauseInv'
  <2>1. ASSUME CauseInv, UNCHANGED vars
        PROVE  CauseInv'
    BY <2>1 DEF vars, rows, hooks, sweep, bounds, history, CauseInv, DisabledForCause,
                Uncounted, GivenUp
  <2>2. QED BY <2>1, NextKeepsCause
<1>2. CauseInv => DisabledForCause
  BY DEF CauseInv
<1>3. QED BY <1>1, <1>2, InitCauseInv, SweepInvariant, PTL DEF Spec

(* Every step keeps the account of the streak.                               *)
LEMMA NextKeepsStreak ==
  ASSUME SweepInv, StreakInv, Next
  PROVE  StreakInv'
<1> USE DEF rows, hooks, sweep, bounds, history
<1>0. /\ faults \in Nat
      /\ \A e \in Endpoints : /\ failures[e] \in Nat /\ streak[e] \in Nat
                              /\ Uncounted(e) \in Nat /\ Uncounted(e)' \in Nat
      /\ failures \in [Endpoints -> Nat] /\ streak \in [Endpoints -> Nat]
  BY DEF SweepInv, TypeOK, Uncounted
<1> SUFFICES ASSUME faults' = 0, NEW e \in Endpoints
             PROVE  /\ ~(pc' = "clearing" /\ Endpoint(cur'.id) = e) =>
                         failures'[e] + Uncounted(e)' <= streak'[e]
                    /\ pc' = "disabling" /\ Endpoint(cur'.id) = e => streak'[e] >= FailureLimit
  BY DEF StreakInv, Endpoint
<1>1. ~Abandon /\ faults = 0
  BY <1>0 DEF Next, SweepStep, CreateEndpoint, DeleteEndpoint, EnableEndpoint,
     FindTargets, InsertRows, BackoffElapses, StartSweep, NextRow, EndSweep, Retire,
     Attempt, RecordDelivered, ClearStreak, RetryLater, GiveUp, CountFailure, Disable, Abandon
<1>2. /\ ~(pc = "clearing" /\ Endpoint(cur.id) = e) => failures[e] + Uncounted(e) <= streak[e]
      /\ pc = "disabling" /\ Endpoint(cur.id) = e => streak[e] >= FailureLimit
  BY <1>1 DEF StreakInv
<1>3. CASE GiveUp
  BY <1>0, <1>2, <1>3 DEF GiveUp, Uncounted
<1>4. CASE RecordDelivered
  BY <1>0, <1>2, <1>4 DEF RecordDelivered, Uncounted
<1>5. CASE ClearStreak
  BY <1>0, <1>2, <1>5 DEF ClearStreak, RowDone, Uncounted
<1>6. CASE CountFailure
  <2>1. failures'[e] + Uncounted(e)' <= failures[e] + Uncounted(e)
    BY <1>3, <1>6, CounterFollows DEF CountFailure, GiveUp
  <2>2. pc = "counting" /\ pc' # "clearing" /\ streak' = streak /\ Uncounted(e)' = 0
    BY <1>6 DEF CountFailure, RowDone, Uncounted
  <2>3. pc' = "disabling" /\ Endpoint(cur'.id) = e => failures'[e] >= FailureLimit
    BY <1>6 DEF CountFailure, RowDone
  <2>4. failures'[e] \in Nat
    BY <1>0, <1>6 DEF CountFailure
  <2>5. QED BY <1>0, <1>2, <2>1, <2>2, <2>3, <2>4, WebhookAssumption
<1>7. CASE Disable \/ Retire \/ RetryLater \/ Attempt
  BY <1>0, <1>2, <1>7 DEF Disable, Retire, RetryLater, Attempt, RowDone, Uncounted
<1>8. CASE StartSweep \/ NextRow \/ EndSweep
  BY <1>0, <1>2, <1>8 DEF StartSweep, NextRow, EndSweep, Uncounted
<1>9. CASE \E x \in Endpoints : CreateEndpoint(x) \/ DeleteEndpoint(x) \/ EnableEndpoint(x)
  BY <1>0, <1>2, <1>9 DEF CreateEndpoint, DeleteEndpoint, EnableEndpoint, Uncounted
<1>10. CASE \/ \E v \in Events : FindTargets(v) \/ InsertRows(v)
            \/ \E d \in Deliveries : BackoffElapses(d)
  BY <1>0, <1>2, <1>10 DEF FindTargets, InsertRows, BackoffElapses, Uncounted
<1>11. QED BY <1>1, <1>3, <1>4, <1>5, <1>6, <1>7, <1>8, <1>9, <1>10 DEF Next, SweepStep

(* dispatch.ts: "an endpoint with intermittent trouble is never disabled by  *)
(* an accumulating total".  As long as no sweep has been cut short, an       *)
(* endpoint is switched off only after FailureLimit given-up deliveries      *)
(* since its last success; of a behaviour after a cut it says nothing.       *)
THEOREM SweepDisabledAfterStreak == Spec => DisabledAfterStreak
<1> DEFINE AfterStreak == \A e \in Endpoints :
             hook[e] = "enabled" /\ hook'[e] = "disabled"
               => streak[e] >= FailureLimit \/ faults > 0
<1>1. Init => StreakInv
  BY DEF Init, StreakInv, Uncounted
<1>2. StreakInv /\ SweepInv /\ [Next]_vars => StreakInv'
  <2>1. ASSUME StreakInv, UNCHANGED vars
        PROVE  StreakInv'
    BY <2>1 DEF vars, rows, hooks, sweep, bounds, history, StreakInv, Uncounted, Endpoint
  <2>2. QED BY <2>1, NextKeepsStreak
<1>3. ASSUME SweepInv, StreakInv, Next
      PROVE  AfterStreak
  <2> SUFFICES ASSUME NEW e \in Endpoints, hook[e] = "enabled", hook'[e] = "disabled",
                      ~(faults > 0)
               PROVE  streak[e] >= FailureLimit
    OBVIOUS
  <2>1. faults = 0
    BY <1>3 DEF SweepInv, TypeOK
  <2>2. pc = "disabling" /\ e = Endpoint(cur.id)
    BY <1>3, SweepDisablesOnly
  <2>3. QED BY <1>3, <2>1, <2>2 DEF StreakInv
<1>4. UNCHANGED vars => AfterStreak
  BY DEF vars, hooks
<1>5. QED BY <1>1, <1>2, <1>3, <1>4, SweepInvariant, PTL DEF Spec, DisabledAfterStreak
=============================================================================
