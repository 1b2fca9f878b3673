-------------------------- MODULE WebhookDelivery --------------------------
(***************************************************************************)
(* Outbound webhooks: the delivery ledger and its sweep                    *)
(* (apps/api/src/webhooks/dispatch.ts), the endpoints a customer manages   *)
(* (apps/api/src/webhooks/endpoints.ts), and publish, which feeds them     *)
(* (apps/api/src/ws.ts).                                                   *)
(*                                                                         *)
(* An event becomes one row per endpoint subscribed to it.  A sweep reads  *)
(* the due rows once, with their endpoints, and then works through that    *)
(* snapshot: a POST, an UPDATE of the row, and, where the outcome touches  *)
(* the endpoint, one or two UPDATEs of the endpoint, each a statement of   *)
(* its own.  Customers delete and enable endpoints in between; a crash or  *)
(* an UPDATE that throws ends the sweep between any two statements.        *)
(*                                                                         *)
(* Sweeps run one at a time: that is RedisLock's MutualExclusion, whose    *)
(* TTL of 20 minutes covers 100 attempts of 10 seconds.                    *)
(***************************************************************************)
EXTENDS Naturals, FiniteSets

CONSTANTS
  Events,         \* events that are published
  Endpoints,      \* webhook_endpoints ids
  Subscribed,     \* pairs <<v, e>>: endpoint e subscribes to the type of v
  MaxAttempts,    \* MAX_ATTEMPTS
  FailureLimit,   \* FAILURE_LIMIT
  SweepBatch,     \* SWEEP_BATCH
  None,           \* no row in hand
  MaxFaults,      \* bound: sweeps that end early in a behaviour
  MaxEnables      \* bound: calls of enableWebhookEndpoint in a behaviour

ASSUME WebhookAssumption ==
  /\ IsFiniteSet(Events) /\ IsFiniteSet(Endpoints)
  /\ Subscribed \subseteq Events \X Endpoints
  /\ MaxAttempts \in Nat \ {0} /\ FailureLimit \in Nat \ {0}
  /\ SweepBatch \in Nat \ {0}
  /\ MaxFaults \in Nat /\ MaxEnables \in Nat

\* A webhook_deliveries row: one per event and endpoint.
Deliveries == Events \X Endpoints

\* What the sweep's SELECT returns of a row and its endpoint.
Snapshot == [id : Deliveries, attempts : Nat, enabled : BOOLEAN]

ASSUME NoneIsNoSnapshot == None \notin Snapshot

VARIABLES
  targets,    \* what publish has found for each event, if it has looked
  status, attempts, due,     \* columns of the rows; due: next_attempt_at <= now()
  hook,       \* each endpoint: absent, enabled, disabled or deleted
  failures,   \* consecutive_failures of each endpoint
  pc,         \* where the sweep is
  batch,      \* the rows of its snapshot still to do
  cur,        \* the row in hand
  faults, enables,
  posts,      \* history: attempts made at each delivery
  streak      \* history: deliveries given up since the endpoint's last success

rows == <<status, attempts, due>>
hooks == <<hook, failures>>
sweep == <<pc, batch, cur>>
bounds == <<faults, enables>>
history == <<posts, streak>>
vars == <<targets, rows, hooks, sweep, bounds, history>>

Endpoint(d) == d[2]
Open == {"pending", "failed"}
Settled == {"delivered", "exhausted"}
\* The stages in which the sweep has a row in hand.
Busy == {"row", "ok", "error", "clearing", "counting", "disabling"}

TypeOK ==
  /\ targets \in [Events -> {None} \cup SUBSET Endpoints]
  /\ status \in [Deliveries -> {"none"} \cup Open \cup Settled]
  /\ attempts \in [Deliveries -> 0..MaxAttempts]
  /\ due \in [Deliveries -> BOOLEAN]
  /\ hook \in [Endpoints -> {"absent", "enabled", "disabled", "deleted"}]
  /\ failures \in [Endpoints -> Nat]
  /\ pc \in {"idle", "next"} \cup Busy
  /\ batch \subseteq Snapshot
  /\ cur \in Snapshot \cup {None}
  /\ pc \in Busy <=> cur # None
  /\ faults \in 0..MaxFaults /\ enables \in 0..MaxEnables
  /\ posts \in [Deliveries -> Nat]
  /\ streak \in [Endpoints -> Nat]

Init ==
  /\ targets = [v \in Events |-> None]
  /\ status = [d \in Deliveries |-> "none"]
  /\ attempts = [d \in Deliveries |-> 0]
  /\ due = [d \in Deliveries |-> FALSE]
  /\ hook = [e \in Endpoints |-> "absent"]
  /\ failures = [e \in Endpoints |-> 0]
  /\ pc = "idle" /\ batch = {} /\ cur = None
  /\ faults = 0 /\ enables = 0
  /\ posts = [d \in Deliveries |-> 0]
  /\ streak = [e \in Endpoints |-> 0]

-----------------------------------------------------------------------------
(* Endpoints.                                                              *)

CreateEndpoint(e) ==
  /\ hook[e] = "absent"
  /\ hook' = [hook EXCEPT ![e] = "enabled"]
  /\ UNCHANGED <<targets, rows, failures, sweep, bounds, history>>

\* The rows of a deleted endpoint stay: they have no foreign key to it.
DeleteEndpoint(e) ==
  /\ hook[e] \in {"enabled", "disabled"}
  /\ hook' = [hook EXCEPT ![e] = "deleted"]
  /\ UNCHANGED <<targets, rows, failures, sweep, bounds, history>>

\* Whatever the endpoint's state was.
EnableEndpoint(e) ==
  /\ enables < MaxEnables
  /\ hook[e] \in {"enabled", "disabled"}
  /\ hook' = [hook EXCEPT ![e] = "enabled"]
  /\ failures' = [failures EXCEPT ![e] = 0]
  /\ enables' = enables + 1
  /\ UNCHANGED <<targets, rows, sweep, faults, history>>

-----------------------------------------------------------------------------
(* publish: enqueueWebhookDeliveries.                                      *)

\* The SELECT of enabled endpoints, and the filter by event type.
FindTargets(v) ==
  /\ targets[v] = None
  /\ targets' = [targets EXCEPT ![v] =
                   {e \in Endpoints : hook[e] = "enabled" /\ <<v, e>> \in Subscribed}]
  /\ UNCHANGED <<rows, hooks, sweep, bounds, history>>

\* One INSERT for all of them.  If it fails, or the process dies first, the
\* event goes unrecorded: the action need not happen.
InsertRows(v) ==
  LET new == IF targets[v] = None THEN {} ELSE {v} \X targets[v]
  IN  /\ new # {} /\ \A d \in new : status[d] = "none"
      /\ status' = [d \in Deliveries |-> IF d \in new THEN "pending" ELSE status[d]]
      /\ due' = [d \in Deliveries |-> d \in new \/ due[d]]
      /\ UNCHANGED <<targets, attempts, hooks, sweep, bounds, history>>

\* A row's next_attempt_at comes.
BackoffElapses(d) ==
  /\ status[d] \in Open /\ ~due[d]
  /\ due' = [due EXCEPT ![d] = TRUE]
  /\ UNCHANGED <<targets, status, attempts, hooks, sweep, bounds, history>>

-----------------------------------------------------------------------------
(* runWebhookDeliverySweep.                                                *)

\* status IN (pending, failed), next_attempt_at <= now(), and an inner join
\* that drops the rows of a deleted endpoint.
DueOfAnyStatus == {d \in Deliveries : due[d] /\ hook[Endpoint(d)] # "deleted"}
DueNeverRetried ==
  {d \in Deliveries : status[d] = "pending" /\ due[d] /\ hook[Endpoint(d)] # "deleted"}
Due == {d \in Deliveries : status[d] \in Open /\ due[d] /\ hook[Endpoint(d)] # "deleted"}

SnapshotOf(d) ==
  [id |-> d, attempts |-> attempts[d], enabled |-> hook[Endpoint(d)] = "enabled"]

\* The SELECT: all due rows, or SweepBatch of them.
StartSweep ==
  /\ pc = "idle"
  /\ \E taken \in SUBSET Due :
       /\ taken # {}
       /\ Cardinality(taken) <= SweepBatch
       /\ taken = Due \/ Cardinality(taken) = SweepBatch
       /\ batch' = {SnapshotOf(d) : d \in taken}
  /\ pc' = "next"
  /\ UNCHANGED <<targets, rows, hooks, cur, bounds, history>>

NextRow ==
  /\ pc = "next"
  /\ \E r \in batch : cur' = r /\ batch' = batch \ {r}
  /\ pc' = "row"
  /\ UNCHANGED <<targets, rows, hooks, bounds, history>>

EndSweep ==
  /\ pc = "next" /\ batch = {}
  /\ pc' = "idle"
  /\ UNCHANGED <<targets, rows, hooks, batch, cur, bounds, history>>

RowDone == pc' = "next" /\ cur' = None /\ UNCHANGED batch

\* The snapshot says the endpoint is disabled, or its secret cannot be
\* decrypted: exhausted without an attempt.
Retire ==
  /\ pc = "row"
  /\ status' = [status EXCEPT ![cur.id] = "exhausted"]
  /\ RowDone
  /\ UNCHANGED <<targets, attempts, due, hooks, bounds, history>>

\* attemptDelivery: a 2xx, or any other outcome (another status, a redirect,
\* a timeout, a URL that is not deliverable any more).
Attempt ==
  /\ pc = "row" /\ cur.enabled
  /\ pc' \in {"ok", "error"}
  /\ posts' = [posts EXCEPT ![cur.id] = @ + 1]
  /\ UNCHANGED <<targets, rows, hooks, batch, cur, bounds, streak>>

RecordDelivered ==
  /\ pc = "ok"
  /\ status' = [status EXCEPT ![cur.id] = "delivered"]
  /\ attempts' = [attempts EXCEPT ![cur.id] = cur.attempts + 1]
  /\ streak' = [streak EXCEPT ![Endpoint(cur.id)] = 0]
  /\ pc' = "clearing"
  /\ UNCHANGED <<targets, due, hooks, batch, cur, bounds, posts>>

\* Any success clears the endpoint's failures.
KeepStreak ==
  /\ pc = "clearing"
  /\ RowDone
  /\ UNCHANGED <<targets, rows, hooks, bounds, history>>
ClearStreak ==
  /\ pc = "clearing"
  /\ failures' = [failures EXCEPT ![Endpoint(cur.id)] = 0]
  /\ RowDone
  /\ UNCHANGED <<targets, rows, hook, bounds, history>>

\* A failed attempt: again later, or exhausted.
OneTooMany == cur.attempts >= MaxAttempts
LastAttempt == cur.attempts + 1 >= MaxAttempts

RetryUncounted ==
  /\ pc = "error" /\ ~LastAttempt
  /\ status' = [status EXCEPT ![cur.id] = "failed"]
  /\ due' = [due EXCEPT ![cur.id] = FALSE]
  /\ RowDone
  /\ UNCHANGED <<targets, attempts, hooks, bounds, history>>
RetryLater ==
  /\ pc = "error" /\ ~LastAttempt
  /\ status' = [status EXCEPT ![cur.id] = "failed"]
  /\ attempts' = [attempts EXCEPT ![cur.id] = cur.attempts + 1]
  /\ due' = [due EXCEPT ![cur.id] = FALSE]
  /\ RowDone
  /\ UNCHANGED <<targets, hooks, bounds, history>>

CountEveryAttempt ==
  /\ pc = "error"
  /\ status' = [status EXCEPT ![cur.id] = IF LastAttempt THEN "exhausted" ELSE "failed"]
  /\ attempts' = [attempts EXCEPT ![cur.id] = cur.attempts + 1]
  /\ due' = [due EXCEPT ![cur.id] = FALSE]
  /\ pc' = "counting"
  /\ UNCHANGED <<targets, hooks, batch, cur, bounds, history>>
GiveUp ==
  /\ pc = "error" /\ LastAttempt
  /\ status' = [status EXCEPT ![cur.id] = "exhausted"]
  /\ attempts' = [attempts EXCEPT ![cur.id] = cur.attempts + 1]
  /\ due' = [due EXCEPT ![cur.id] = FALSE]
  /\ streak' = [streak EXCEPT ![Endpoint(cur.id)] = @ + 1]
  /\ pc' = "counting"
  /\ UNCHANGED <<targets, hooks, batch, cur, bounds, posts>>

\* consecutive_failures + 1, RETURNING it; nothing is returned, and the row is
\* done, if the endpoint is gone.
CountFailure ==
  LET e == Endpoint(cur.id)
  IN  /\ pc = "counting"
      /\ IF hook[e] = "deleted" THEN RowDone /\ UNCHANGED failures
         ELSE /\ failures' = [failures EXCEPT ![e] = @ + 1]
              /\ IF failures'[e] >= FailureLimit
                 THEN pc' = "disabling" /\ UNCHANGED <<batch, cur>>
                 ELSE RowDone
      /\ UNCHANGED <<targets, rows, hook, bounds, history>>

\* enabled := false, whatever has happened to the endpoint since.
Disable ==
  LET e == Endpoint(cur.id)
  IN  /\ pc = "disabling"
      /\ hook' = [hook EXCEPT ![e] = IF @ = "deleted" THEN @ ELSE "disabled"]
      /\ RowDone
      /\ UNCHANGED <<targets, rows, failures, bounds, history>>

\* The instance dies, or a statement throws out of the loop: the rest of the
\* batch waits for a later sweep.
Abandon ==
  /\ pc # "idle" /\ faults < MaxFaults
  /\ pc' = "idle" /\ batch' = {} /\ cur' = None
  /\ faults' = faults + 1
  /\ UNCHANGED <<targets, rows, hooks, enables, history>>

SweepStep ==
  \/ StartSweep \/ NextRow \/ EndSweep \/ Retire \/ Attempt
  \/ RecordDelivered \/ ClearStreak \/ RetryLater \/ GiveUp \/ CountFailure
  \/ Disable

Next ==
  \/ \E e \in Endpoints : CreateEndpoint(e) \/ DeleteEndpoint(e) \/ EnableEndpoint(e)
  \/ \E v \in Events : FindTargets(v) \/ InsertRows(v)
  \/ \E d \in Deliveries : BackoffElapses(d)
  \/ SweepStep \/ Abandon

Spec == Init /\ [][Next]_vars

\* The cron keeps firing, a started sweep goes on (every attempt has its own
\* timeout), and time passes.  Nothing is assumed of publish or of customers.
Fairness ==
  /\ WF_vars(SweepStep)
  /\ \A d \in Deliveries : WF_vars(BackoffElapses(d))

FairSpec == Spec /\ Fairness

-----------------------------------------------------------------------------
(* Properties.                                                             *)

\* The row still is as the sweep read it.
Fresh(r) == status[r.id] \in Open /\ attempts[r.id] = r.attempts

\* The rows of the batch, and the row in hand until its outcome is recorded, are
\* fresh; no row is in the batch twice, or in the batch and in hand.
SnapshotIsFresh ==
  /\ \A r \in batch : Fresh(r)
  /\ pc \in {"row", "ok", "error"} => Fresh(cur)
  /\ \A r, q \in batch : r.id = q.id => r = q
  /\ pc \in Busy => \A r \in batch : r.id # cur.id
  /\ pc = "idle" => batch = {}

\* An attempt is counted, or in hand, or was lost with its sweep; a row that is
\* not settled has attempts left.
InHand(d) == pc \in {"ok", "error"} /\ cur.id = d
AttemptsAreCounted ==
  \A d \in Deliveries :
    /\ posts[d] <= attempts[d] + faults + (IF InHand(d) THEN 1 ELSE 0)
    /\ status[d] \notin Settled => attempts[d] < MaxAttempts

\* What a sweep may rely on while it works through its snapshot: nothing else
\* has touched the rows it has yet to do.  The inductive invariant.
SweepInv == TypeOK /\ SnapshotIsFresh /\ AttemptsAreCounted

\* The deliveries of an endpoint that used up their attempts.
GivenUp(e) ==
  {d \in Deliveries : Endpoint(d) = e /\ status[d] = "exhausted" /\ attempts[d] = MaxAttempts}

\* dispatch.ts: "Only a fully exhausted delivery counts against the endpoint".
\* A disabled endpoint has FailureLimit deliveries that used up all their
\* attempts, whatever was retired, retried, enabled or abandoned meanwhile.
DisabledForCause ==
  \A e \in Endpoints :
    hook[e] = "disabled" => Cardinality(GivenUp(e)) >= FailureLimit

\* dispatch.ts: "an endpoint with intermittent trouble is never disabled by an
\* accumulating total".  As long as no sweep is cut short, an endpoint is
\* switched off only after FailureLimit given-up deliveries since its last
\* success, also when it was enabled by hand in between.
DisabledAfterStreak ==
  [][\A e \in Endpoints :
       hook[e] = "enabled" /\ hook'[e] = "disabled"
         => streak[e] >= FailureLimit \/ faults > 0]_vars

\* A customer sees one delivery MaxAttempts times at most, and once more for
\* each sweep that died between the POST and its record.
AttemptsBounded == \A d \in Deliveries : posts[d] <= MaxAttempts + faults

\* schema/webhooks.ts: the life of a row.  Whatever becomes of sweeps and
\* endpoints, one row is POSTed at a time, each answer is counted, and a
\* delivered or exhausted row is never touched or POSTed by a later sweep.
Lives == [d \in Deliveries |-> [status |-> status[d], attempts |-> attempts[d]]]
Flight == {d \in Deliveries : InHand(d)}
Life == INSTANCE DeliveryLife WITH life <- Lives, flight <- Flight
RefinesDeliveryLife == Life!Spec

\* "A dead endpoint cannot block others", and a crash loses no recorded event:
\* every row is delivered or exhausted in the end, unless its endpoint is
\* deleted.
EveryRowSettles ==
  \A d \in Deliveries :
    status[d] \in Open ~> status[d] \in Settled \/ hook[Endpoint(d)] = "deleted"

\* dispatch.ts: a delivery is retired "rather than retrying against a URL its
\* owner has been told is switched off".  No attempt is made at a disabled
\* endpoint.
NoAttemptAtDisabled ==
  [][\A d \in Deliveries :
       posts'[d] > posts[d] => hook[Endpoint(d)] # "disabled"]_vars
=============================================================================
