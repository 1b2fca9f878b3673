------------------------------ MODULE JobQueue ------------------------------
(***************************************************************************)
(* The background-job pipeline: enqueue (apps/api/src/jobs/enqueue.ts),    *)
(* the Python worker's reliable queue (apps/worker/app/consumer.py and     *)
(* jobs.py) and the stuck-job reaper (apps/api/src/jobs/reaper.ts).        *)
(*                                                                         *)
(* A job is a background_jobs row, "the source of truth", and an envelope  *)
(* that travels over two Redis lists, "only the pickup channel".  A worker *)
(* moves an envelope from the queue to the processing list, records the    *)
(* row's progress, and removes the envelope when it is through; whatever   *)
(* is in the processing list when a worker boots is queued again.  The     *)
(* reaper fails rows that have been in flight for too long.                *)
(*                                                                         *)
(* Each await of the code is a step, so a crash, another worker or the     *)
(* reaper can come in between any two of them.  Handlers are left abstract *)
(* but for their outcome.  The API's client holds an LPUSH for as long as  *)
(* Redis is unreachable, and sends it anew when the connection was lost    *)
(* before the answer: it takes effect late, never, or several times.  A    *)
(* list then holds copies of one envelope; the code cannot tell them       *)
(* apart, and here the n-th LPUSH of job j is the copy <<j, n>>.           *)
(***************************************************************************)
EXTENDS Naturals, Sequences, SequencesExt

CONSTANTS
  Jobs,         \* background_jobs ids
  Workers,      \* worker processes
  None,         \* no job
  MaxFaults     \* bound: crashes, and commands failed or resent, in a behaviour

ASSUME JobQueueAssumption ==
  /\ None \notin Jobs
  /\ MaxFaults \in Nat

VARIABLES
  row,       \* status column of each background_jobs row
  old,       \* rows whose coalesce(started_at, queued_at) is past the cutoff
  pushed,    \* how often each job's LPUSH has landed
  queue,     \* the list jobs:queue, head on the left
  inflight,  \* the processing list, head on the left
  pc,        \* what each worker is doing
  job,       \* the job each worker has in hand
  faults,    \* crashes, and failed or resent commands, so far
  told,      \* history: jobs for which job:failed was published
  handled,   \* history: jobs some worker has recorded an outcome of
  acked,     \* history: jobs an envelope of which a worker has removed
  stolen,    \* history: jobs re-queued while a live worker had them in hand
  dropped,   \* history: jobs some worker had in hand when it died or stopped
  escaped    \* history: jobs whose handling ended in a failed UPDATE

redis == <<pushed, queue, inflight>>
db == <<row, old>>
history == <<told, handled, acked, stolen, dropped, escaped>>
vars == <<db, redis, pc, job, faults, history>>

Terminal == {"complete", "failed"}
InFlight == {"queued", "processing"}
Busy == {"taken", "running", "acking", "escaping"}

TypeOK ==
  /\ row \in [Jobs -> {"none"} \cup InFlight \cup Terminal]
  /\ old \subseteq Jobs
  /\ pushed \in [Jobs -> Nat]
  /\ queue \in Seq(Jobs \X Nat) /\ inflight \in Seq(Jobs \X Nat)
  /\ pc \in [Workers -> {"down", "reclaim", "ready", "stopped"} \cup Busy]
  /\ job \in [Workers -> Jobs \cup {None}]
  /\ \A w \in Workers : job[w] \in Jobs <=> pc[w] \in Busy
  /\ faults \in 0..MaxFaults
  /\ told \subseteq Jobs /\ handled \subseteq Jobs /\ acked \subseteq Jobs
  /\ stolen \subseteq Jobs /\ dropped \subseteq Jobs /\ escaped \subseteq Jobs

Init ==
  /\ row = [j \in Jobs |-> "none"]
  /\ old = {} /\ queue = <<>> /\ inflight = <<>>
  /\ pushed = [j \in Jobs |-> 0]
  /\ pc = [w \in Workers |-> "down"]
  /\ job = [w \in Workers |-> None]
  /\ faults = 0
  /\ told = {} /\ handled = {} /\ acked = {} /\ stolen = {} /\ dropped = {} /\ escaped = {}

\* The jobs with more than one copy of their envelope.
Resent == {j \in Jobs : pushed[j] > 1}

-----------------------------------------------------------------------------
(* The API: enqueue, the passing of time, and the reaper.                  *)

\* The authoritative row first.
InsertRow(j) ==
  /\ row[j] = "none"
  /\ row' = [row EXCEPT ![j] = "queued"]
  /\ UNCHANGED <<old, redis, pc, job, faults, history>>

\* LPUSH lands.
LPush(j) ==
  /\ pushed' = [pushed EXCEPT ![j] = @ + 1]
  /\ queue' = <<<<j, pushed'[j]>>>> \o queue
  /\ UNCHANGED inflight

\* Then the envelope: late, or never if the API dies first.
PushEnvelope(j) ==
  /\ row[j] # "none" /\ pushed[j] = 0
  /\ LPush(j)
  /\ UNCHANGED <<db, pc, job, faults, history>>

\* It landed, but its answer was lost: the client sends it again.
ResendEnvelope(j) ==
  /\ pushed[j] > 0 /\ faults < MaxFaults
  /\ LPush(j)
  /\ faults' = faults + 1
  /\ UNCHANGED <<db, pc, job, history>>

\* The row's timestamp passes the reaper's cutoff.
GrowOld(j) ==
  /\ row[j] \in InFlight /\ j \notin old
  /\ old' = old \cup {j}
  /\ UNCHANGED <<row, redis, pc, job, faults, history>>

ReapOnlyProcessing == {j \in old : row[j] = "processing"}
Stuck == {j \in old : row[j] \in InFlight}

\* failStuckJobs: one conditional UPDATE, then job:failed for every row of it.
Reap ==
  /\ Stuck # {}
  /\ row' = [j \in Jobs |-> IF j \in Stuck THEN "failed" ELSE row[j]]
  /\ told' = told \cup Stuck
  /\ UNCHANGED <<old, redis, pc, job, faults, handled, acked, stolen, dropped, escaped>>

-----------------------------------------------------------------------------
(* The worker.                                                             *)

Goto(w, from, to) == pc[w] = from /\ pc' = [pc EXCEPT ![w] = to]

Boot(w) ==
  /\ Goto(w, "down", "reclaim")
  /\ UNCHANGED <<db, redis, job, faults, history>>

\* reclaim_orphans, one RPOPLPUSH: from the tail of the processing list to the
\* head of the queue, whoever put the envelope there.
ReclaimByCopying(w) ==
  /\ pc[w] = "reclaim" /\ inflight # <<>>
  /\ queue' = <<Last(inflight)>> \o queue
  /\ UNCHANGED <<db, pushed, inflight, pc, job, faults, history>>
Reclaim(w) ==
  /\ pc[w] = "reclaim" /\ inflight # <<>>
  /\ inflight' = Front(inflight)
  /\ queue' = <<Last(inflight)>> \o queue
  /\ stolen' = IF \E v \in Workers : job[v] = Last(inflight)[1]
               THEN stolen \cup {Last(inflight)[1]} ELSE stolen
  /\ UNCHANGED <<db, pushed, pc, job, faults, told, handled, acked, dropped, escaped>>

SkipReclaim(w) ==
  /\ Goto(w, "reclaim", "ready")
  /\ UNCHANGED <<db, redis, job, faults, history>>
Reclaimed(w) ==
  /\ inflight = <<>>
  /\ Goto(w, "reclaim", "ready")
  /\ UNCHANGED <<db, redis, job, faults, history>>

\* BLMOVE queue RIGHT -> processing LEFT.
TakeLikeBlpop(w) ==
  /\ queue # <<>>
  /\ Goto(w, "ready", "taken")
  /\ job' = [job EXCEPT ![w] = Last(queue)[1]]
  /\ queue' = Front(queue)
  /\ UNCHANGED <<db, pushed, inflight, faults, history>>
TakeUnchecked(w) ==
  /\ Goto(w, "ready", "taken")
  /\ queue = <<>>
  /\ UNCHANGED <<db, redis, job, faults, history>>
Take(w) ==
  /\ queue # <<>>
  /\ Goto(w, "ready", "taken")
  /\ job' = [job EXCEPT ![w] = Last(queue)[1]]
  /\ queue' = Front(queue)
  /\ inflight' = <<Last(queue)>> \o inflight
  /\ UNCHANGED <<db, pushed, faults, history>>

\* mark_processing: whatever the status was; started_at = now().
MarkProcessing(w) ==
  /\ Goto(w, "taken", "running")
  /\ row' = [row EXCEPT ![job[w]] = "processing"]
  /\ old' = old \ {job[w]}
  /\ UNCHANGED <<redis, job, faults, history>>

\* The handler returns and mark_complete runs, or it raises (an unknown type,
\* an error of its own, or of mark_complete) and mark_failed runs.  Neither
\* looks at the status it replaces.
Record(w, outcome) ==
  /\ Goto(w, "running", "acking")
  /\ row' = [row EXCEPT ![job[w]] = outcome]
  /\ told' = IF outcome = "failed" THEN told \cup {job[w]} ELSE told
  /\ handled' = handled \cup {job[w]}
  /\ UNCHANGED <<old, redis, job, faults, acked, stolen, dropped, escaped>>

MarkComplete(w) == Record(w, "complete")
MarkFailed(w) == Record(w, "failed")

\* mark_processing, or mark_failed itself, raises: the exception leaves
\* process_one, through the finally clause that removes the envelope.
DbError(w) ==
  /\ faults < MaxFaults
  /\ pc[w] \in {"taken", "running"}
  /\ pc' = [pc EXCEPT ![w] = "escaping"]
  /\ escaped' = escaped \cup {job[w]}
  /\ faults' = faults + 1
  /\ UNCHANGED <<db, redis, job, told, handled, acked, stolen, dropped>>

\* LREM processing 1 envelope, from the head: the first copy it finds.  The
\* loop goes on, or ends with the exception while the process lives.
LRem(list, j) == RemoveFirstMatch(list, LAMBDA e : e[1] = j)

AckWhileRunning(w) ==
  /\ Goto(w, "running", "ready")
  /\ inflight' = LRem(inflight, job[w])
  /\ acked' = acked \cup {job[w]}
  /\ job' = [job EXCEPT ![w] = None]
  /\ UNCHANGED <<db, pushed, queue, faults, told, handled, stolen, dropped, escaped>>
Ack(w) ==
  /\ Goto(w, "acking", "ready") \/ Goto(w, "escaping", "stopped")
  /\ inflight' = LRem(inflight, job[w])
  /\ acked' = acked \cup {job[w]}
  /\ job' = [job EXCEPT ![w] = None]
  /\ UNCHANGED <<db, pushed, queue, faults, told, handled, stolen, dropped, escaped>>

\* Whatever the worker has in hand it leaves where it is.
Drop(w) ==
  /\ job' = [job EXCEPT ![w] = None]
  /\ dropped' = dropped \cup ({job[w]} \ {None})
  /\ faults' = faults + 1

\* A Redis command of the loop raises, or a BLMOVE that took effect does: the
\* loop ends while the process lives, and what is in the lists stays there.
RedisError(w) ==
  /\ faults < MaxFaults
  /\ pc[w] \in {"reclaim", "ready", "taken", "acking", "escaping"}
  /\ pc' = [pc EXCEPT ![w] = "stopped"]
  /\ Drop(w)
  /\ UNCHANGED <<db, redis, told, handled, acked, stolen, escaped>>

\* The process dies between any two steps, or is shut down.
Crash(w) ==
  /\ pc[w] # "down" /\ faults < MaxFaults
  /\ pc' = [pc EXCEPT ![w] = "down"]
  /\ Drop(w)
  /\ UNCHANGED <<db, redis, told, handled, acked, stolen, escaped>>

WorkerStep(w) ==
  \/ Boot(w) \/ Reclaim(w) \/ Reclaimed(w) \/ Take(w) \/ MarkProcessing(w)
  \/ MarkComplete(w) \/ MarkFailed(w) \/ Ack(w)

Next ==
  \/ \E j \in Jobs : InsertRow(j) \/ PushEnvelope(j) \/ ResendEnvelope(j) \/ GrowOld(j)
  \/ Reap
  \/ \E w \in Workers : WorkerStep(w) \/ DbError(w) \/ RedisError(w) \/ Crash(w)

Spec == Init /\ [][Next]_vars

\* A worker that is up makes progress and one that is down is started again;
\* time passes and the reaper's cron keeps firing.  Nothing is assumed of the
\* API between INSERT and LPUSH.
Fairness ==
  /\ \A w \in Workers : WF_vars(WorkerStep(w))
  /\ WF_vars(Reap)
  /\ \A j \in Jobs : WF_vars(GrowOld(j))

FairSpec == Spec /\ Fairness

-----------------------------------------------------------------------------
(* Properties.                                                             *)

Envelopes == Range(queue) \cup Range(inflight)
JobsQueued == {e[1] : e \in Envelopes}
BeingRun(j) == \E w \in Workers : job[w] = j /\ pc[w] = "running"

\* No move, reclaim or removal ever duplicates an envelope: each LPUSH that
\* landed has at most one in the two lists together, and there are no others.
OneEnvelope ==
  /\ IsInjective(queue) /\ IsInjective(inflight)
  /\ Range(queue) \cap Range(inflight) = {}
  /\ \A e \in Envelopes : e[2] \in 1..pushed[e[1]]

\* consumer.py: "the envelope lives in the processing list until it completes
\* or fails".  A pushed job without a recorded outcome is in one of the lists,
\* however many workers crash, boot and reclaim each other's work; a failed
\* UPDATE is the one exception.
WorkIsKept ==
  \A j \in Jobs \ (handled \cup escaped) : pushed[j] > 0 => j \in JobsQueued

\* consumer.py: process_one "already records failures as terminal", so the
\* removal of an envelope ends the job: its row is terminal and stays so.  Only
\* a job handled again, re-queued under a live worker's hands or pushed twice,
\* leaves that status, for as long as a worker runs it; it stays out of it only
\* if that worker is cut off.  A failed UPDATE is the other exception.
AckedIsSettled ==
  \A j \in acked \ escaped :
    \/ row[j] \in Terminal
    \/ j \in stolen \cup Resent /\ (BeingRun(j) \/ j \in dropped)

\* The same without the exceptions.
AckedIsTerminal == \A j \in acked : row[j] \in Terminal

\* reaper.ts: "the job:failed event closes out any client waiting on the
\* socket".  A job reported failed stays failed.
ReportedFailedIsFinal ==
  \A j \in told : row[j] = "failed"

\* consumer.py: "the work resumes rather than vanishing".  Every pushed job
\* gets an outcome from a worker, whatever crashes before, unless an exception
\* has ended the loop of a worker whose process goes on: nothing boots then to
\* reclaim what that worker had in hand.
PushedIsHandled ==
  \A j \in Jobs : pushed[j] > 0 ~> \/ j \in handled \cup escaped
                                   \/ \E w \in Workers : pc[w] = "stopped"

\* reaper.ts: a terminal state rather than an eternal spinner.  Every row
\* reaches a terminal status, also when its envelope was never pushed.
RowsSettle == \A j \in Jobs : row[j] # "none" ~> row[j] \in Terminal

-----------------------------------------------------------------------------
(* What makes the safety properties inductive.                             *)

\* A worker whose job has one envelope that nobody has stolen is the only one
\* with that job, and the envelope is in the processing list.
HandsOff ==
  \A w \in Workers : job[w] \in Jobs \ (stolen \cup Resent) =>
    /\ <<job[w], 1>> \in Range(inflight)
    /\ \A v \in Workers : job[v] = job[w] => v = w

\* Before it removes an envelope a worker has recorded why.
AckIsDue ==
  \A w \in Workers :
    /\ pc[w] = "acking" => /\ job[w] \in handled
                           /\ job[w] \notin stolen \cup Resent => row[job[w]] \in Terminal
    /\ pc[w] = "escaping" => job[w] \in escaped

\* The only envelope of a job was removed, with no exception: nothing is left
\* behind.
AckedIsGone ==
  \A j \in acked \ (stolen \cup Resent \cup escaped) :
    j \notin JobsQueued /\ \A w \in Workers : job[w] # j

\* A recorded outcome stands until a worker begins again.
HandledIsSettled ==
  \A j \in handled \ escaped : row[j] \in Terminal \/ BeingRun(j) \/ j \in dropped

\* Nothing happens to a job before its row is there and its envelope pushed.
RowFirst ==
  /\ \A j \in Jobs : pushed[j] > 0 => row[j] # "none"
  /\ \A w \in Workers : job[w] \in Jobs => pushed[job[w]] > 0
  /\ \A j \in acked \cup handled : pushed[j] > 0
  /\ acked \subseteq handled \cup escaped

QueueInv ==
  /\ TypeOK /\ OneEnvelope
  /\ WorkIsKept /\ AckedIsSettled /\ HandledIsSettled
  /\ HandsOff /\ AckIsDue /\ AckedIsGone /\ RowFirst
=============================================================================
