# GrowthOS: TLA+ models, model checking and proofs

GrowthOS is a multi-tenant marketing SaaS: a Fastify API in TypeScript
(`apps/api`), a Python worker (`apps/worker`), Postgres (Neon, over HTTP, with
no multi-statement transactions), Redis (locks, the job queue, pub/sub) and
ClickHouse (analytics).  Several API instances and several workers run at once.
Most of the code serves one request with one or two statements.  What is hard is
where state is shared between processes, or between overlapping requests, and
outlives a statement.  That is what is modelled here.

Paths below are relative to the repository.  `PROJECT.json` lists, for every
definition that models code, the lines it stands for.

## 1. Inventory

### 1.1 Components

| component | state it keeps | operations | interacts with | what makes it correct |
|---|---|---|---|---|
| scheduled-task lock, `apps/api/src/scheduler/lock.ts` | one Redis key per task | `withRedisLock`: SET NX PX, body, DEL | every cron task of every API instance | one body at a time; a tick is skipped rather than run unguarded; no caller hangs; a dead holder's key goes away |
| scheduler, `apps/api/src/scheduler.ts` | none | trial reminders, intelligence tick, stuck-job sweep, webhook sweep | the lock, the components below | one run of a task at a time over all instances |
| background jobs, `apps/api/src/jobs/`, `apps/worker/app/` | `background_jobs`, lists `jobs:queue` and its processing list | `enqueue`, take, `mark_*`, ack, `reclaim_orphans`, `failStuckJobs` | the lock (reaper), the event bus, the handlers | no job lost, none duplicated, every row ends, what is reported is true |
| webhooks, `apps/api/src/webhooks/` | `webhook_endpoints`, `webhook_deliveries` | create, delete, enable; `enqueueWebhookDeliveries`; `runWebhookDeliverySweep` | the event bus feeds it, the lock guards it, customers' servers | every recorded event is delivered or given up; endpoints are disabled for cause only |
| automation, `apps/api/src/automation/`, `packages/logic/.../automation-planner.ts` | `automation_rules`, `automation_actions`, `content_briefs` | plan, propose, approve, reject, execute; rule edits | the intelligence tick and `POST /automation/plan` start it | nothing runs unapproved or twice; caps hold; proposals do not stack |
| billing, `apps/api/src/billing.ts`, parts of `admin.ts` | `subscriptions`, `workspaces.plan` | trial, Stripe events, daily reminder, override and extension | Stripe, the lock, plan limits | the row follows Stripe; the two copies of the plan agree; a mail goes out once; every event is acknowledged |
| intelligence tick, `apps/api/src/scheduler/` | `intelligence_reports`, `automation_alerts`, `scheduler_runs` | select due workspaces, refresh, alert, plan | runs automation per workspace, under the lock | nothing starves; an alert is raised once per change, and is raised |
| recommendations, `recommendations.ts`, `fatigue.ts`, `search-terms.ts`, `organic-to-paid.ts` | `recommendations`, `usage_records` | generate, dedupe, wake, meter; status, assignment | plan limits, content pipeline | no job listed twice; snoozes end; usage is no more than was generated |
| content pipeline, `search-terms.ts`, `organic-to-paid.ts` | `recommendations`, `content_briefs` | `ensurePaidToOrganic`, status changes | shares `content_briefs` with automation | one-shot generators stay one-shot |
| invitations and limits, `invitations.ts`, `plan-limits.ts` | `workspace_invitations`, `workspace_members` | create, resend, revoke, expire, accept | billing | seats within the plan; an invitation gives one seat |
| OAuth connections and Search Console, `oauth/`, `gsc-sync.ts` | `platform_connections`, two ClickHouse tables | connect, disconnect, refresh, sync | Google | the newest refresh token is kept; a snapshot is whole or marked |
| creative experiments, `experiments.ts` | `creative_experiments` | create, launch, un-launch, conclude, delete | none | concluded is terminal; a start time is not rewritten |
| admin console, `admin.ts`, `admin-audit.ts`, `routes/admin.ts` | `users.platformRole`, `admin_audit_log` | change access (with step-up), views, override, extension | billing | somebody can always restore access; the log is the history |
| database retry, `packages/db/src/retry.ts` | attempts of one request | retrying fetch | every statement of every component | a write takes effect once at most, and its caller is told the truth |
| event bus, `apps/api/src/ws.ts`, `routes/ws.ts` | rooms of sockets per process, a Redis channel | join, leave, `publish`, local and Redis delivery | everybody | an event reaches whom it was broadcast to, once; a Redis outage delays nobody, the durable half is not skipped |
| recommendation screen, `apps/web/lib/hooks/` | a cached list in the browser | click (optimistic), roll back, read again | recommendations, the event bus | at rest the screen shows the table |
| blog, `apps/api/src/blog.ts`, `routes/admin.ts` | `blog_posts`, cached public pages | create, save, publish, unpublish, pin, delete | the web application's cache | a published post is not deleted; the pin stays; the public pages follow the table |
| blog editor, `apps/web/app/(admin)/admin/blog/[id]/page.tsx` | a draft in the browser, an autosave timer | edit, autosave, save | blog | what it calls saved is stored |
| auth, guards, API keys, collaboration, analytics, logic engines, the other screens of `apps/web` | rows of their own | one statement per request, or pure computation | | no protocol between steps: not modelled |

### 1.2 What is hard

`PROJECT.json` "hazards" lists each at its line.  They are of six kinds:

* commands that take effect late.  The shared Redis client queues commands while
  Redis is unreachable and sends one again whose answer was lost, so a SET its
  caller has given up still takes the lock later, a DEL nobody waits for may hit
  the next holder's key, and an LPUSH or a PUBLISH may count twice; ClickHouse
  queues its deletes; a database answer may be lost after the statement ran;
* statements that are not in one transaction: INSERT then LPUSH, POST then
  UPDATE, subscription row then workspace plan, seat then status, four
  statements to replace a snapshot, a change and its audit record;
* checks apart from the writes they guard: seats, duplicates, transitions and
  usage are counted or read first, and the write names its row by id alone;
* snapshots that go stale: a sweep of a hundred rows, a planning pass, a
  connection row handed to a sync, a proposal that outlives its rule;
* events of others, repeated and out of order: Stripe's, and overlapping loads,
  requests and cron runs;
* two copies of one state, a browser's and the table's, which both change while a
  request is under way.

## 2. The modules

| module | models | checked and proved by |
|---|---|---|
| `TaskMutex` | what the scheduler promises of a task: one invocation inside the body | refined by `RedisLock` |
| `RedisLock` | `withRedisLock` around one task, with the Redis side of SET and DEL | `MCRedisLock`, `RedisLock_proofs` |
| `JobQueue` | enqueue, worker loop, reclaim, reaper | `MCJobQueue`, `JobQueue_proofs` |
| `DeliveryLife` | what a customer is promised of each delivery | refined by `WebhookDelivery` |
| `WebhookDelivery` | endpoints, ledger, sweep | `MCWebhookDelivery`, `WebhookDelivery_proofs` |
| `ActionLife` | what the ledger of automation promises of each action | refined by `Automation` |
| `Automation` | rules, planner, ledger, executor, adapters, and the second writer of briefs | `MCAutomation`, `Automation_proofs` |
| `Billing` | one workspace's subscription row and plan, Stripe's events, reminder, trial, administrator | `MCBilling`, `Billing_proofs` |
| `IntelligenceTick` | whom a tick serves, in what order, and what it alerts | `MCIntelligenceTick`, `IntelligenceTick_proofs` |
| `Recommendations` | loads of one workspace's queue, and managers | `Workspace`, `Requests_proofs` |
| `Invitations` | seats of one workspace | `Workspace`, `Access_proofs` |
| `Connections` | one workspace's Google connections and their syncs | `Workspace`, `Requests_proofs` |
| `Experiments` | the creative experiment log | `Workspace`, `Requests_proofs` |
| `AdminConsole` | platform access and the audit log | `Workspace`, `Access_proofs` |
| `EventBus` | sockets, subscribers and `publish` in several processes | `Workspace`, `Requests_proofs` |
| `RecommendationScreen` | one browser tab's list of recommendations over the table | `Workspace`, `Requests_proofs` |
| `BlogPosts` | the writes of the blog's posts, the unique indexes, the hints | `Workspace`, `Requests_proofs` |
| `BlogEditor` | one post in the editor, its saves under way and the stored version | `Workspace`, `Requests_proofs` |
| `RetryingFetch` | the retry wrapper over a database that may have run what it did not answer | `Workspace`, `Requests_proofs` |
| `Workspace` | the ten components above, one at a time | `MCWorkspace`, `Access_proofs`, `Requests_proofs` |

`MC*` modules give values to constants, symmetry and the scenarios of a run.
Operators in the modules that no action uses and whose comment begins with
"Mutant" (`GiveUpAndRelease`, `TakeLikeBlpop`, `AlwaysFirst`, ...) are each a
plausible bug of the operator that follows, and `PROJECT.json` "mutants" says
which property it breaks.  Variables marked "history" are the model's own: they
remember what a property is about, and no code-side guard reads them.

**RedisLock.**  `pc`, `reply` and `orphans` say how far each call and its SET is;
`ttl` is the key.  `Call` is cron firing the task, `LandSet` the SET taking effect,
`RepeatSet` the same with its answer lost, so that the client sends it again;
`Start`/`Skip`/`GiveUp` are the three ways `Promise.race` ends, `Finish` the
`finally` clause.  `LandOrphan` is a SET whose caller has gone.  The value `'1'`
names no owner, so a DEL removes whatever key is there when it lands.  The model
tells two kinds apart: `del[c]` is a DEL on its way while the key it was sent for
is there; once that key has expired or been removed, any DEL still queued, or sent
again, is one of the `strays`, and may land at any later time and any number of
times (`LandStray`).  `robbed` remembers the callers from under whom a stray took
the key.  Nothing bounds how long a command is on its way.  `Crash` is possible
anywhere.  Time is discrete and passes by `Tick`, which is what lets the model say
"the lease is longer than the run".

**JobQueue.**  `row` is `background_jobs.status`; `queue` and `inflight` are the
two Redis lists with their order (LPUSH on the left, BLMOVE right to left,
RPOPLPUSH).  An envelope is a pair of a job and a number: each LPUSH of the job
that lands puts a copy in the queue (`PushEnvelope`; `ResendEnvelope` is the
client's, when the answer to the first was lost), and LREM removes the first copy
of the job.  A worker's `pc` walks through `run_consumer`: `reclaim`, `ready`,
`taken`, `running`, `acking`.  `DbError` is a failing UPDATE (through the
`finally` that removes the envelope), `RedisError` a failing list command; both
end the loop while the process lives (`stopped`).  `old` stands for the reaper's
one-hour cutoff, and `mark_processing` takes a row out of it by setting
`started_at`.  The branch for a malformed envelope (consumer.py:15-17) is left out:
`enqueue` pushes none, and dropping one changes no row.

**WebhookDelivery.**  One row per event and endpoint.  `StartSweep` reads
`batch`, with the attempts and the `enabled` flag of that moment; `Retire`,
`Attempt`, `RecordDelivered`, `ClearStreak`, `RetryLater`, `GiveUp`,
`CountFailure` and `Disable` are the statements of the loop, one action each.
`Abandon` ends the sweep between any two.  The sweep is one at a time: that is
`RedisLock`'s `MutualExclusion` with the task's TTL of 20 minutes against 100
attempts of 10 seconds.

**Automation.**  A process is a request or the scheduler's pass.  A pass reads
the rules (`LoadRules`), then the ledger (`LoadPlannerState`), then the rule ids
(`LoadRuleIds`), then inserts (`Propose`) and executes what is approved.
`Approve` and `Reject` are the conditional UPDATEs; `Load`, `CheckCaps` or
`Refuse`, the adapter and `RecordOutcome` are `executeAction`.  A query of it that
throws is caught, and the batch goes on with the next row (`Throw`); a brief may
have been written although its answer was lost (`WriteFails`); `Lose` is the death
of the process.  Two action types
stand for the four: `pause_campaign` and `refresh_creative` are `adjust_budget`
without the cap.  The targets one pass proposes are distinct, as campaign ids
(grouped by id), creatives and search terms are in the planner's inputs; the
planner itself does not remove duplicates.  `gen` is `ensurePaidToOrganic`.

**Billing.**  Stripe is `stripe` (the subscriptions as it has them), `log` (the
events it emitted) and `acked` (what a 2xx came back for); `Deliver` hands any
unacknowledged event to any idle handler, so events repeat, overlap and overtake
each other.  A completed checkout reads the live subscription at that moment and
then walks `ReadBefore`, `SelectRow`, `WriteRow`, `WritePlan`, `SendConverted`;
an update skips the first and the last, or is one UPDATE by subscription id if
its metadata is gone (`UpdateBySubscription`), as a deletion is.  `TrialInsert`
and `TrialPlan` are `startTrial`, whose errors are swallowed; the administrator's
`overrideWorkspacePlan` and `extendTrial` read whether there is a row and write
later; `FindTrials`, the claim and the mail are `checkTrialsEndingSoon`.  `torn` (history) names what may have
parted the two copies of the plan: `overlap`, `trial`, `override`, `cut`; a sync
that writes both copies with nobody else between its or their own two writes
(`WritesAlone`) empties it.

**IntelligenceTick.**  `lastRunAt` and `age` are the newest report of each
workspace: its place among all, 0 for none, and whether it is older than the
workspace's own cadence (`Cadence`; a disabled workspace is in no tick and is left
out).  `StartTick` is `selectDueWorkspaces`: the due ones (`Due`), sorted by
`lastRunAt` (`StalestFirst`; equal ones in any order), and of these the first
`BatchMax`.  Per workspace: `RefreshReport` or
`ReportFails`, then `Detect`, `Record`, `Publish` per alert type, then
`PlanNext`.  A detector, SELECT or upsert that throws, also one that took effect
and whose answer was lost, leaves the workspace's remaining detectors undone
(`StageFails`).  `ReadReport` is the report page making the same report.

**Recommendations.**  A load (`ensureGenerated`) goes through the stages of
`pc`; what `Promise.all` runs in parallel is `branch`, one entry per generator
and per maintenance statement.  A branch that fails ends the load in an error
when the last of the others has ended (`EndFailed`).  Generators look
(`CheckType`) and insert later (`InsertBatch`).

**Invitations.**  `creating` and `accepting` are the chains of statements of
`createInvitation` and `acceptInvitation`; `inv` and `rows` the two tables.
`MarkAccepted` is an UPDATE by id, whatever the status has become.

**Connections.**  The callback of a consent is three steps: `Exchange` is
`exchangeCode` with `listAccounts`, `Upsert` the row, `FirstSync` the sync it
starts without waiting; `ConsentFails` is any failure before the row is written.
`crossed` (history) is the accounts two of whose callbacks were between the first
two steps at once, until one comes alone with the newest grant.  A sync carries the row it was given
(`sync[s].conn`): its UPDATEs find the row by that id, so a row that was
disconnected and made anew is not touched.  A token is the number of the consent
it comes from.  `kw` and `pages` are today's rows of the two tables that no delete
has been sent for; the deletes are by workspace and day, so they condemn every
account's.  `ALTER TABLE ... DELETE` without `mutations_sync` is only queued:
`doomed` says for which table ClickHouse still shows condemned rows, and `Mutate`
is ClickHouse carrying the deletes out.

**Experiments**, **AdminConsole.**  A request is what it has read and what it is
about to write.  In `AdminConsole`, `Recent`/`FoldView` are the folding of a
repeated view into the row found before, and `Fails` includes the log's own
failures, which `logAdminAction` swallows.

**RetryingFetch.**  A request's body is a sequence of statements, each its
leading keyword, its data-modifying keywords and whether it holds several; what
the database did (`ran`) is independent of what the wrapper is told.

**EventBus.**  `room` is the process a socket is connected to; `command` is the
PUBLISH of an event as the client keeps it, which survives `TimesOut`; `channel`
holds the messages Redis has for each subscriber.  `Resend` is the client's own:
it sends a command again when the connection is lost before the answer, whether
`publish` still waits or has given up.

**RecommendationScreen.**  `cache` is what TanStack Query holds, `read` the fetch
under way, `current` that the query is not marked invalid; `call` the mutation
calls, each with the list it will put back.  Cancelling, invalidating and
`setQueryData` do what the installed version of the library does.  `Elsewhere` is
everybody else who writes the status of a row (another manager or tab, a load):
no event need say so.  `missed` and `unread` (history) are the rows changed since
the list shown, or the one under way, was read.  Rows that are inserted or deleted
are not modelled.

**BlogPosts.**  A request is a sequence of statements, each by id.  The address of
a post is what `slugify` makes of a title, and a suffix; `Probe` is one query of
`uniqueSlug`.  `fresh` says that every write the public sees has been hinted at:
one hint covers the whole blog, since the web application clears one tag.  `Fails`
ends a request at any statement, also between its UPDATE and its hint, which
`unhinted` (history) remembers until another hint comes.  The web application's
own window of 300 seconds, after which a page is made anew without any hint, is
not modelled.

**BlogEditor.**  What is written is a version number.  `sent` holds the calls of
`mutate`: the library keeps the callback of the latest only.  `Answer` of that one
makes the editor clean, whatever has been typed since, and that ends the effect
that holds the timer.

How they fit together: `RedisLock` implements `TaskMutex`, `WebhookDelivery`
implements `DeliveryLife` and `Automation` implements `ActionLife`; the sweep of
`WebhookDelivery`, the reaper of `JobQueue`, the ticks of `IntelligenceTick` and
the scheduler's planner in `Automation` are bodies under it and assume no more
than `TaskMutex`; the trial reminder of `Billing` assumes not even that.  Each
statement of every module goes through `RetryingFetch`: it takes effect at most
once, and a failure leaves open whether it did.

`EventBus` starts the reads of `RecommendationScreen`, whose rows are those of
`Recommendations`; `BlogEditor` saves with the `Update` of `BlogPosts`.

`Workspace` puts ten components into one specification, so that one run and one
statement serve all.  They share no state, so a behaviour is one of a single
component, and `part` names it; the variables of the others stay 0.  Each is
instantiated under its own names.  No interaction between components is claimed.
`MCWorkspace` gives TLC the instances, in two runs: `Workspace` for the seven
components whose state is the server's, and `Copies` for the three that keep a copy
of what is elsewhere.

## 3. The runs

| run | instance | result |
|---|---|---|
| `RedisLock` | 2 callers, 2 ticks, ttl 4, timeout 1, run 2 | passes |
| `JobQueue` | 2 jobs, 2 workers, 1 fault | passes |
| `WebhookDelivery` | 3 events, 1 endpoint, 2 attempts, limit 2, batch 2, 2 cut sweeps, 1 enable | passes |
| `Automation` | 2 campaigns or 1 keyword, 2 processes of which 1 plans, 2 rows per target, 2 edits, 1 midnight, 1 lost process or failing query, 1 call of `ensurePaidToOrganic` | passes |
| `Billing` | 2 subscriptions, the second without metadata; 2 handlers and 2 events, or 1 handler and 3 events, each with 1 failure; or 1 handler, 2 reminder runs, 1 event and an administrator | passes |
| `IntelligenceTick` | 3 workspaces with cadences of 1 and 2 hours, batch 1, 2 alert types, 2 signatures, 2 changes, 1 visit of the report page, 1 failure or death | passes |
| `Workspace` | `Invitations`, `Recommendations`, `Experiments`, `AdminConsole`, `RetryingFetch`, `EventBus`, `BlogPosts`, as below, with 1 failure | passes |
| `Copies` | `Connections`, `RecommendationScreen`, `BlogEditor`, as below, with 1 failure | passes |
| `JobQueueReaper` | 1 job, 1 worker, no fault | `ReportedFailedIsFinal` violated |
| `AutomationTwoPlanners` | 1 campaign or keyword, 2 planning processes | `OneOpenPerTarget` violated |
| `TickStarvation` | as `IntelligenceTick`, one workspace whose report always fails | `EveryoneServed` violated |
| `EditorHurried` | the blog's editor of `Copies`, no failure | `SavedIsStored` violated |

The instances of `Workspace` and `Copies`: `Invitations` with two people, two invitation
ids, one call that invites, two that accept and two seats, the owner's included;
`Recommendations` with a cross-channel generator of two titles and a specialised
one that repeats the first, two loads, a weekly limit of one, two copies of a row
and one act of a manager; `Experiments` with two ids, two requests and two
launches; `Connections` with two accounts, two syncs and two consents;
`AdminConsole` with two super admins who change roles and open two pages each,
in any order, and a log of two entries; `RetryingFetch` with a
statement that writes behind a leading `WITH`, a batch of two reads, a body that
cannot be read, and two retries; `EventBus` with two processes, two sockets
and one event; `RecommendationScreen` with two rows, two clicks and a lost call;
`BlogPosts` with two posts in any legal state, two requests, and addresses with
room for a suffix and without; `BlogEditor` with three edits and three saves.

### What holds

* Lock: with a lease longer than acquiring and running together, two invocations
  are in the body at once only after a stray DEL, one whose own key was gone, has
  removed the key of one of them; late and repeated SETs, crashes, expiry and DELs
  in time bring nobody in (`MutualExclusion`).  Those that still hold their key
  implement `TaskMutex` (`RefinesTaskMutex`).  No call waits for ever
  (`NeverWedged`), and a key left by a crash or an abandoned call goes away
  (`EveryLeaseEnds`).  That two do get together is in 3.2.
* Jobs: no move, reclaim or removal duplicates an envelope, of which there are as
  many as LPUSHes landed (`OneEnvelope`), or loses one (`WorkIsKept`); removing it
  ends the job, unless an UPDATE failed (`AckedIsSettled`): a job that is handled
  again, because a booting worker took it from under a live one or because it was
  pushed twice, leaves its terminal status only while a worker runs it, or if that
  worker was cut off; a pushed
  job gets an outcome (`PushedIsHandled`) unless some worker's loop has died in
  a living process; every row ends, pushed or not (`RowsSettle`).
* Webhooks: an endpoint is disabled only after `FAILURE_LIMIT` deliveries used up
  their attempts (`DisabledForCause`), since its last success if no sweep was
  cut short (`DisabledAfterStreak`); a customer sees at most `MAX_ATTEMPTS`
  attempts plus one per crash (`AttemptsBounded`); the ledger implements
  `DeliveryLife`: one POST at a time, each answer counted once, and a settled row
  never taken up again (`RefinesDeliveryLife`); every row settles
  (`EveryRowSettles`).  What makes these hold is that a snapshot stays true of the
  rows still to do (`SweepInv`), since the sweep writes by row id alone and never
  looks at the row again.
* Automation: with one planner at a time proposals do not stack
  (`OneOpenPerTarget`); an adapter runs once at most per row, and never for a
  proposed or rejected one (`RunsOnceApproved`); the ledger implements
  `ActionLife`: each action is decided once, called once after that, and its
  outcome is recorded over nothing but an approval that was acted on
  (`RefinesActionLife`); the daily cap holds over midnight (`DailyCapHolds`);
  automation itself never writes two briefs for a keyword
  (`OneBriefPerKeyword`), although its adapter looks first and writes later.
* Billing: the reminder goes out once however runs overlap, and the conversion
  mail once per subscription, unless two deliveries of its event overlapped or
  the row had gone to another subscription in between (`MailedOnce`); no order
  of events shows a status the row's subscription never had, and in order and one
  at a time, retries included, they leave Stripe's own status
  (`RowFollowsStripe`); once everything is handled the workspace has the row's plan, even
  after a handler died between the two writes (`PlansAgree`), but for four causes,
  each of which lasts until a sync next writes both copies alone: two writers
  with different plans overlapped; `startTrial` stopped between its two writes; an
  administrator overrode the plan; a handler was cut between its two writes while
  another delivery of its event was past them, so that Stripe had its answer; an
  event that lost the race to insert the row, or
  failed halfway, is settled by a later delivery (`EventsSettle`).
* Tick: nobody's turn is taken by a workspace that waited less
  (`NobodyIsOvertaken`), and with a batch of one nobody starves while accidents
  are finite (`EveryoneServed`); a standing condition is alerted once (`StandingIsSilent`);
  a new one is alerted, unless it goes away first, or the process died, or the
  upsert's answer was lost, between recording and publishing it (`NewIsAlerted`).
* Recommendations: a pending duplicate nobody has touched is there only while a
  load generates or after one died before its dedupe (`NoJobTwice`); a load wakes
  what has run out, at the plan's cap too (`LoadWakes`); usage never exceeds what
  metered loads made, while loads do not overlap (`NeverOvercharged`).  The run
  checks the three as `QueueIsKept`.
* Invitations: an accepted invitation has given its seat and nobody sits twice
  unless one person's calls overlap (`SeatGiven`); seats given and promised stay
  within the plan unless an invitation is made while another is being made or
  accepted (`SeatsHold`).  The run checks both as `SeatsAreRight`.
* Connections: a sync that works from an old row never puts an old refresh token
  back, overlapping syncs and failures included; only two callbacks that cross may
  store the older grant over the newer (`RefreshTokenIsNewest`).  A snapshot not
  replaced whole is marked with an error, unless syncs overlapped or one died or
  was never started; the rows it replaces are condemned, if not yet gone
  (`SnapshotIsWhole`).
* Experiments: a concluded experiment is not rewritten, reopened or deleted, and
  its start is stamped once, while requests about it do not overlap
  (`HistoryIsKept`).
* Console: somebody can always restore access, unless two role changes overlap
  (`SomeoneCanRestore`); the records of a user's role are a chain without gaps
  that ends at the present role, unless requests about that user overlap or a
  record failed to be written (`RecordIsChain`).  The run checks both as
  `RolesAreKept`.  The log shows a user's views as often as they happened, folded
  or listed, whatever else is logged meanwhile, unless two views of that user
  overlap or a record failed (`ViewsAreCounted`).
* Database client: a request that writes takes effect at most once, and its
  caller is told truly whether it did (`WrittenOnce`).
* Event bus: no socket is sent an event more often than it was broadcast, and it
  is broadcast again only for want of an answer; whoever was in a room it was
  broadcast to, and still is, gets it, if nothing fails (`BroadcastsAreRight`).
* Recommendation screen: once every click has its answer and nothing is being
  read, the screen shows the table, whatever failed and whatever overtook what,
  unless a request took effect after its call had been given up, and but for the
  rows that others have changed since the list was read (`ScreenAgrees`).
* Blog: no write the public sees is left without its hint (`ChangesAreHinted`), the
  post pinned last stays pinned (`PinIsKept`), a published post is not deleted
  (`LiveIsKept`); the exceptions are a request that ends between its write and its
  hint, a pin request that fails halfway and a deletion that a publication
  overtakes.  The run checks the three as
  `BlogIsKept`.
* Blog editor: what it calls saved is stored, whatever fails and is saved again,
  if nothing is typed or saved while a save is under way (`CalmIsStored`).

The exceptions in these properties ("unless ... overlap") are the code's own: TLC
finds each of them when the exception is left out, and 3.2 lists them.

### 3.1 Where code and documents disagree

* `JobQueueReaper`: the reaper reports a job failed; the worker may still run it
  and report it complete, since no UPDATE of the worker looks at the status.
* `AutomationTwoPlanners`: two planning passes at once open two actions on one
  target; the schema and the route's comment exclude that.
* `TickStarvation`: a workspace whose report fails writes none, stays the stalest
  and is in every batch.  As many of them as a batch holds, and nobody else is
  served, although one failure is said never to stall the rest.
* `EditorHurried`: something typed while a save is under way is called saved by
  the answer to that save.  The timer that would store it is stopped and the
  browser's warning is off, so closing the tab loses it; the next edit saves it.

### 3.2 Seen, and not made a run

Where a definition is named, TLC finds it violated on an instance above
(`CheckedAgainstRuleInForce` with a third edit, `ApprovedSettles` with fair
processes).

* A DEL that lands after its key has expired, or lands a second time because its
  answer was lost, removes the next holder's key.  A third call then enters the
  body while that holder is inside, although the comment says that "exactly one
  runs a given tick" (`NeverTogether` in `RedisLock`).
* The lock prevents overlap only: an instance that fires late runs the tick again
  (`OneRunPerTick` in `RedisLock`).
* An LPUSH whose answer was lost is sent again, and its job has two envelopes.  The
  second is taken when the first has been handled: the job runs again, its row goes
  from complete back to processing, and stays there until the reaper if that
  worker is cut off.  A worker that boots does the same to what a live one has in
  hand (`AckedIsTerminal` in `JobQueue`).
* A failing UPDATE at the start or the end of a job removes its envelope and
  ends the consumer loop, although a comment says failures are already recorded
  (`AckedIsTerminal` in `JobQueue`).  The row waits for the reaper.
* Rows behind the one that disables an endpoint are still POSTed to it
  (`NoAttemptAtDisabled` in `WebhookDelivery`).  A sweep that is cut short between
  recording a success and clearing the count leaves the old failures counted, and
  between a POST and its record the POST is made again.
* A refused action stays `approved` and blocks its target; no operation accepts
  it (`ApprovedSettles` in `Automation`).  After a rule is deleted and made anew,
  old proposals are checked against the default cap
  (`CheckedAgainstRuleInForce`).  A pass that spans midnight counts from the day
  before against the new day's cap.  A keyword gets two briefs when automation
  writes one and `ensurePaidToOrganic` runs later.
* A row somebody has snoozed or been assigned can be deleted by the dedupe: it
  keeps rows that are not pending or have an assignee now, not those that were
  taken up and put back (`WorkItemIsKept` in `Recommendations`).
* The first batch is said not to be metered.  A load that begins while the first
  is inserting sees rows, takes itself for a later one, and charges what comes
  after (`FirstBatchIsFree` in `Recommendations`).  Any two loads that overlap may
  charge each other's rows, and a load that dies before its dedupe leaves the
  duplicates to the next.
* An event said never to be delivered twice is, when `publish` has given up on
  Redis and its command goes through after all (`NeverTwice` in `EventBus`).  A
  subscriber that could not subscribe is not started again: its process's sockets
  hear only what that process publishes while Redis is silent.
* A failed click is said to put its row back and leave the others; it puts back
  the whole list of before, over what a second click has patched since, until the
  list has been read again (`OnlyThatRow` in `RecommendationScreen`).
* A published post is said to be refused rather than deleted.  One that is
  published between the check and the DELETE is deleted (`NoLiveIsLost` in
  `BlogPosts`).  A pin request for a post that has gone clears the old pin and
  answers 404, with no hint.  Publishing asks for a title, a description and a
  body; a later save of the live post does not.
* An ordinary save can move a post although the comment says its address is looked
  for only when it changed: `slugify` cuts at 80 characters after trimming, so that
  it takes the suffix from a long address, or a hyphen left at its end, when it is
  applied again (`SavesStay` in `BlogPosts`).  A failed autosave is not repeated
  until the next edit.
* The two copies of the plan, which the comment says are kept "in lockstep", part
  (`PlanInLockstep` in `Billing`): an administrator's override writes
  `subscriptions.plan` and not `workspaces.plan`; `startTrial` swallows a failure
  between its two writes and nobody repeats the second; two writers with different
  plans may interleave; a handler cut between its writes is not repeated when
  another delivery of its event has been answered.
* A second sync of the day is over, and recorded as good, while the rows it is said
  to replace are still shown beside the new ones: the deletes are only queued, as
  another file of the repository (`analytics.ts:81-84`) warns (`SnapshotIsReplaced`
  in `Connections`).
* Two people who consent for one account at a time may leave the older grant
  stored over the newer one.  It stays until the next consent.
* A row of the recommendations that somebody else changes stays as it was on the
  screen until the next read: the route that changes it broadcasts nothing.
* A publication, a save of a live post or an unpublication whose process dies, or
  whose answer is lost, before `revalidateBlog` leaves the old pages until the next
  hint or the end of their 300 seconds.
* Two overlapping requests about one experiment (launch, un-launch, conclude) each
  check the row they read, so that a concluded one can be reopened and a start time
  be stamped twice or put back; so can the outcome be recorded twice, or the record
  be deleted.
* Two views of one user at once each find the same row of the log, and one of them
  is not counted.
* Stripe: a late `updated` of an old subscription takes the row from a newer one;
  after a change of plan in the portal the metadata, and so the row, names the
  old plan; the conversion mail is never sent when `updated` is handled before
  `completed`, and twice when two deliveries of `completed` overlap.  `extendTrial` makes a paying workspace `trialing`.
* A crash between recording and publishing an alert loses it, and so does an upsert
  whose answer is lost: the next tick takes the condition for a standing one.
* A revocation that comes after `acceptInvitation` has read the row is
  overwritten; seats overshoot when invitations overlap, and when one person
  accepts twice at once (`twins`): that person then has two rows.
* Two sites of one workspace wipe each other's snapshot, since the deletes name
  no site; two syncs at once double it.  The OAuth state is not single-use.
* Two overlapping demotions can leave nobody who may grant access.
  `logAdminAction` swallows its failures, so a change may have no record; two changes
  of one role at once record the same role before.
* `nextAttemptDelayMs` is called with `attempts >= 1`, so the 10 s step of the
  documented backoff is never used; `schema/webhooks.ts` says the owner is
  emailed when an endpoint is disabled, the code logs only.

### Bounds, and why they are enough

* Two callers, workers, handlers, loads, requests: each race here is between two
  parties, and the third party (Redis, Stripe, a reviewer, an admin, time) is an
  action of its own.
* Two ticks: the second call of a caller can meet the SET or the DEL of its first.
* Two jobs give the lists an order; one fault per behaviour is one crash or one
  failed command at any step, and reclaiming works without a crash of the victim.
* Two attempts and a limit of two distinguish "first", "last", "retry" and
  "streak"; three events let a success come between two failures and leave rows
  queued when the endpoint goes; a batch of two leaves a row for the next sweep.
* Two rows per target: the second proposal for a target is where reads matter.
* Two Stripe events overlap and overtake each other; three, one handler at a time,
  make a history (check out, fail, cancel; or a second subscription).  The three
  scenarios of `MCBilling` keep each small; what they leave out is two handlers
  with an administrator.
* Three workspaces and a batch of one: somebody waits behind somebody who waits.
  Two alert types: the second detector runs after the first has raised.
* A seat limit of two is the owner and one more, so that one promise fills it.
* Two clicks, saves or requests about a post overlap and overtake each other; three
  edits let one fall before, during and after a save.  The blog's table begins in
  any legal state, so that no request is spent on making one.
* One event: nothing in `publish` relates two.
* A log of two entries has a first and a next; two views of one user fold, or
  make two rows when the window has passed, with the other's views and role
  changes between them.
* `MaxDay`, `MaxEdits`, `MaxSaves`, `MaxSuffix`, `MaxFaults`, `MaxEvents`, `MaxChanges`, `MaxReads`,
  `MaxGrants`, `MaxLaunch`, `MaxTouches`, `MaxCopies` and `MaxViews` bound what
  would be unbounded.
* Symmetry (campaigns in `Automation`; accounts and calls in `Workspace`) is used
  only where no liveness is checked.
* Deadlock is checked for the lock.  The other systems really come to rest when
  the bounded supply of jobs, events, edits and rows is used up.

### Fairness

* Lock: time passes; an awaited SET is answered, rejected or timed out; a body
  ends.  Nothing is assumed of Redis answering, nor of a DEL landing.
* Jobs: a worker that is up makes progress and a dead one is started again (its
  supervisor); rows age and the reaper's cron fires.  The API between INSERT and
  LPUSH has no fairness: the envelope may never come.
* Webhooks: the sweep's cron fires again and a started sweep goes on, since
  every attempt has its own 10 s timeout; backoffs elapse.  Nothing is assumed
  of publishers or customers.
* Billing: Stripe repeats each event until it is acknowledged, and a request
  served goes on to its answer or fails; failures are finite.
* Tick: cron fires and a tick goes on to its next step; hours pass.  Nothing is
  assumed of readers or of the data.
* `Workspace` checks no liveness and assumes no fairness.

## 4. Proofs

A theorem is `Spec => []P`, or `Spec =>` an action property or an abstract
specification, for every value of the constants.  A property is seldom
inductive, so each module proves an invariant first; the lemmas go by groups of
actions.

| module | assumes | proves |
|---|---|---|
| `RedisLock_proofs` | `BoundsAreNaturals`; `TtlCoversRun` except for types | `LockTypeOK`, `LockInvariant`, `LockMutualExclusion`, `LockRefinesTaskMutex` |
| `JobQueue_proofs` | `JobQueueAssumption` | `QueueTypeOK`, `QueueInvariant`, `QueueOneEnvelope`, `QueueWorkIsKept`, `QueueAckedIsSettled` |
| `WebhookDelivery_proofs` | `WebhookAssumption`, `NoneIsNoSnapshot` | `SweepInvariant`, `SweepAttemptsBounded`, `SweepRefinesDeliveryLife`, `SweepDisabledForCause`, `SweepDisabledAfterStreak` |
| `Automation_proofs` | `AutomationAssumption`, `NoneIsNothing`; the last four, one planner | `AutomationTypeOK`, `AutomationRunInvariant`, `AutomationRunsOnceApproved`, `AutomationRefinesActionLife`, `AutomationPlanInvariant`, `AutomationOneOpenPerTarget`, `AutomationOneBriefPerKeyword`, `AutomationDailyCapHolds` |
| `Billing_proofs` | `BillingAssumption` | `BillingInvariant`, `BillingTypeOK`, `BillingMailedOnce`, `BillingRowFollowsStripe`, `BillingPlansAgree` |
| `IntelligenceTick_proofs` | `TickAssumption`, for the last two | `TickAlertInvariant`, `TickStandingIsSilent`, `TickTypeOK`, `TickServesStalest` |
| `Access_proofs` | those of `Workspace` | `SeatInvariant`, `InvitationsSeatGiven`, `InvitationsHoldInvariant`, `InvitationsSeatsHold`, `AccessTypeOK`, `ConsoleSomeoneCanRestore`, `ConsoleRecordIsChain`, `ConsoleViewsAreCounted`; of the composition `WorkspaceSeatsAreRight`, `WorkspaceRolesAreKept`, `WorkspaceViewsAreCounted` |
| `Requests_proofs` | those of `Workspace` | `HistoryInvariant`, `ExperimentsHistoryIsKept`, `FetchInvariant`, `FetchWrittenOnce` and its two parts, `SnapshotInvariant`, `ConnectionsRefreshToken`, `ConnectionsSnapshotIsWhole`, `QueueInvariant`, `RecommendationsQueue`, `BusInvariant`, `BusBroadcastsAreRight`, `ScreenInvariant`, `ScreenShowsTable`, `BlogInvariant`, `PostsBlogIsKept`, `CalmInvariant`, `EditorCalmIsStored`; of the composition `WorkspaceHistoryIsKept`, `WorkspaceWrittenOnce`, `WorkspaceRefreshTokenIsNewest`, `WorkspaceSnapshotIsWhole`, `WorkspaceQueueIsKept`, `WorkspaceBroadcastsAreRight`, `WorkspaceScreenAgrees`, `WorkspaceBlogIsKept`, `WorkspaceCalmIsStored` |

The assumptions say that bounds are numbers, that what is counted is finite, and
that what stands for nothing, or for a state, is no value (`NoneIsNothing`,
`RoomsAreProcesses`, `AskedIsNoList`, `PostsAreNamed` and their like).  Five say more: `TtlCoversRun`, see the lock;
`EffectsAreNamed`, see the retry wrapper; one planner, see automation;
`SomeoneIsSuper`: there is a super admin to begin with, made by
`packages/db/scripts/grant-admin.ts`; and a seat limit is at least 1, the
smallest of the plans' (the unlimited plan makes no test).

**The lock.**  A caller relies on the key from the grant to the end of its body, and
its DEL may then be on its way to that key.  `LeaseCoversUse` says that in each of
the two stages (granted, running) the key's remaining life plus the time since its
SET is at least `Ttl`, and that a DEL on its way to its own key finds it; with the
limits on the stages (`TimersInBounds`) and
`TtlCoversRun == AcquireTimeout + MaxRun < Ttl` the key is alive as long as it is
relied on.  A SET is granted only when there is no key, hence nobody who holds one
(`Holds`): that keeps `OneHolder`.  A stray DEL may land at any time: whoever relies
on the key then is `robbed`, holds nothing from then on, and the promises are about
the others.  So the hypothesis is about the body only, and not about the client or
the network.  The code documents it ("set `ttlMs` comfortably above a tick's
worst-case duration") and enforces it nowhere; the webhook task satisfies it by
arithmetic (20 minutes against 100 times 10 s, if the database answers).

**The job queue.**  The lists hold copies of envelopes, each at most once; lemmas say
what LPUSH, the pops and LREM do to such lists (`PushedList`, `PoppedList`,
`RemovedList`; the copy LREM removes is the first of its job, `SmallestOf`), and the
rest of the proof speaks of the two lists' ranges only.  A reclaim may take an
envelope from under a live worker, and a resent LPUSH gives a job two, so which
worker owns a job is no invariant; `HandsOff` says it of the jobs that were neither
stolen nor resent: one worker has it in hand and its only copy (`OnlyCopy`) is in
the processing list.  `AckIsDue` says that a worker about to remove an envelope has
recorded an outcome, or failed to; `AckedIsGone` that of those jobs a removed
envelope leaves no copy and no holder, so that nobody can write to the row again but
the reaper, which asks for its status.  Of all jobs, `HandledIsSettled` says that a
recorded outcome stands but while a worker runs the job again, or if that worker was
cut off.

**The webhook sweep.**  Each UPDATE names its row by id and computes the new
count from the snapshot, so whether it overwrites a settled row depends on what
happened since the SELECT.  `SnapshotIsFresh` says nothing did: every row of the
batch still to do, and the one in hand, is open with the attempts that were read,
and no row is in the batch twice.  `AttemptsAreCounted` says that POSTs exceed the
recorded attempts by no more than the sweeps that were cut short and the POST in
hand.  The argument rests on one sweep at a time, which is how the module is
written: the lock's `MutualExclusion`.

`DeliveryLife` is reached by reading a row's status and attempts as its life, and
the row in hand between its POST and its record as in flight.  A step of the sweep
touches the row in hand alone, which `SnapshotIsFresh` says is open and has as many
attempts as the sweep believes: so the UPDATE is one answer counted, or a retirement,
of an unsettled row.  Publish inserts rows that have no attempts (`Blank`), a sweep
cut short is a POST that is lost, and all other steps stutter.

That an endpoint is disabled for cause takes two more invariants, since the
exhausted row, the count and the disabling are three statements.  `CauseInv`:
`consecutive_failures`, and one more if the row in hand is not counted yet, is at
most the number of deliveries that used up their attempts, a set that only
grows (`GivenUpStays`).  `StreakInv` says the same of the streak since the last
success, between the record of a success and the clearing UPDATE excepted, while
no sweep was cut short: a sweep that dies there leaves the old count standing.

**Automation.**  Nothing locks a row of the ledger.  `RunInv`: a row that a
process has ahead of it or in hand is approved, its adapter has not run for it
(or has, once, when the process is past the call), and no other process holds it
(`HeldByOne`).  That is because only the UPDATE that takes a row out of `proposed`
hands it to a process, and it happens once.  With it `ActionLife` is reached step
by step, a row's life being its status and the calls of its adapter: a row in hand
is approved, and called or not as its holder is, so a call and an outcome come
once and in this order; a decision finds a proposed row that never ran; an INSERT
fills rows that were not there (`ProposeInserts`).  `PlanInv` is about the planner's
reads: the targets that are open are among those it saw open, and the actions
created since the day it saw are as many as it counted, until it inserts.  That
takes `\A p, q \in Planners : p = q`: another pass would add a row in between.
Reviewers and rule edits only close targets, and any number of them may run.
The hypothesis is the scheduler's lock as far as the code goes: the route that
plans on request does not take it, which is the finding of
`AutomationTwoPlanners`.  `BriefInv` says that an adapter about to write a brief has
found none and that there is none: with `HeldByOne` and one open action per
target no second process is between the look and the write.

**Billing.**  `BillInv` has a part for each promise and two for what they rest on.
`LogInv` is about Stripe: a subscription's last event has its present status, and it
is checked out once.  `HandInv` is about a request: what it carries is a status
its subscription had, the present one if its event is the last; two requests with
the same event put the subscription in `doubt`.

* `RemindInv`: a reminder that was sent or is being sent shows in the row; the
  claim is one conditional UPDATE and no other write clears it.
* `ConvInv`: for a subscription not in doubt the mail is sent, or on its way, only
  while the row names it, and no request about it takes itself for the first.
* `MirrorInv`, while deliveries come one at a time and in order (`tidy`): what is
  acknowledged is a prefix of the events, and if every event of the row's
  subscription was applied, the row has its status.  `NeverInvented` needs none
  of that.
* `PlanInv`, while nothing has torn the two copies (`torn = {}`): those between their
  two writes write one plan (`OnePlan`), and if the two copies differ somebody
  still owes the second write: the trial, a request at that statement, or one cut
  short whose event Stripe has not had acknowledged (`PlanOwed`).  The last case is
  why a handler that dies between the writes does no lasting harm.  When `torn` has
  any of its four causes nothing is claimed, until a sync that writes alone has
  written both (`WritesAlone`), which makes both parts true again.

**The tick's alerts.**  `AlertInv`: what was told was recorded, and the record is the
condition as it still is; an alert on its way has not been told since the
condition last changed.  Ticks may die and conditions change anywhere, and nothing
is asked of the batch but that it stays while an alert is on its way.

**Whose turn it is.**  `TypeOK` says that a tick under way has a workspace in hand
and that no two workspaces share a place among the reports.  A report takes the
last place and closes the gap it leaves, so the others keep their order
(`ReportTakesLastPlace`), also when a reader's visit made it.  A due workspace the
batch leaves out stands behind the bound in the sorted list, so the batch is full
and those in it come no later (`BatchIsStalest`).  That is the safety half of "nothing
starves"; the other half, that the workspace in front is served, is
`EveryoneServed`, and false when its report always fails (`TickStarvation`).

**Check, then write.**  Five invariants share one argument.  A request reads, tests,
and writes by id; the invariant carries what the test saw to the write, for
requests that did not overlap: `SeatInv` (a call about to seat a person finds no
row of theirs, a call about to mark finds one), `HoldInv` (a lone creator's count
of members and live invitations is still right when it inserts, and accepting
turns a promised seat into a taken one), `HistoryInv` (the row is the one
that was read, `Alone`, and the write was allowed of it, `Allowed`), `RestoreInv`
(the actor of the only change under way is still a super admin and not its
subject, `Authorised`), `SnapInv` (`ProgressInv`: what a lone sync has done to the
two tables at each statement, condemned rows apart; when none is under way the
tables are whole or the row is marked, `Sound`).  What breaks under overlap is in
3.2, so these hypotheses are not artefacts.  The refresh token needs less: no UPDATE
of a sync writes that column, and `TokenInv` says that a callback about to store its
grant has one newer than any that was stored, unless callbacks of its account
crossed.

**The record of roles.**  `ChainInv` carries it over the step in which the role has
been written and its record has not: the request at that step holds the role it
found, which is what the last row says, and the one it wrote, which is the role.
A repeated view changes the last row's count and no more (`SameRecord`).

**The views.**  A row of the log stands for as many views as it has repeats, and the
invariant counts them as the pairs of a row and a number up to its repeats
(`Shown`): a new row adds one pair and so does a fold (`OneMoreView`), and the rows
of others add none (`ShownMembers`).  `CountInv`, for a user no two of whose views
were logged at once and none of whose records failed: the pairs, and one more
if a view has its record still to write, are as many as the views that were opened.
The fold writes the count it read, plus one; it is right because that row still has
the repeats that were read: a row belongs to one user, and this user has one
view under way.

**The queue of recommendations.**  `QueueInv` says of a load what it has read and
what it has yet to do, for any number of loads at once.  `StageInv`: a generator is
at work only while its load generates, and no load leaves its maintenance before
the snoozes are awake.  `WakeInv`: a snooze a load found overdue is still overdue
until it wakes it, since whoever renews a snooze takes it off that list.  `WorkInv`:
a row that is not as it was inserted has been touched.  Two things need more than one
load's own reads.  A duplicate nobody touched comes from an insertion, when its load
generates, or from a load that died (`dirty`); no act of a manager makes one, since
the rows that can become one are touched.  And `MeterInv`: the sum of what is charged
and what is there exceeds what metered loads made by no more than the count the
load began with, so that its difference may be charged; a batch adds no more rows
than it has titles (`BatchIsCounted`), a dedupe only removes.  That takes a lone
load (`LoneInv`): a second one counts the first one's rows as its own.

**The event bus.**  `CountInv`: what a socket got of an event, the messages of it on
their way to the socket's process and the copy the client keeps queued are together
at most one more than the times it was broadcast again.  A second copy comes from
two steps only, publish giving up with its command still queued and the client's
`Resend`, and both count in `again`; a socket joins with nothing sent to it.
`ReachInv`, while nothing has failed: whoever an event was broadcast to, and still
is where it was, has it or has it in the channel.

**The screen.**  `ScreenInv` claims nothing while a click waits, whose answer will
have the list read again.  With none waiting, a list on its way is the table, and
so is the list shown unless it is marked, each but for the rows that others changed
since it was read (`ElsewhereKeepsScreen`).  What has to be shown is that the last
answer leaves a mark or a read begun after it.

**The blog.**  `HintSoon`: whenever the pages lag behind the table, some request is
about to hint or to pin, or one was cut off there and no hint has come since
(`unhinted`, `FailKeepsBlog`).  `PinSoon`: no post but the last one asked for is pinned, and
if it is not, its request is about to pin it.  `DraftsGo`: a deletion under way is of a
draft, unless it was published since (`raced`).  `NewIsNew`: the id of a post
being created is nobody else's.

**The editor.**  `CalmInv`: as long as nobody has hurried, one save at most is under
way, it is the latest, and it carries the draft.  Then the only answer that makes the
editor clean is one to what is on the screen.

**The composition.**  A behaviour of `Workspace` in which `part` is a component is
one of that component's specification, so its theorem carries over
(`InvitationsRun`, `ExperimentsRun` and their like; the `...Rest` lemmas say that
`part` never changes).  The `Workspace...` theorems state the run's own properties.

**The retry wrapper.**  `NotRunYet`: a request that writes and may still be sent
has not run.  It holds because the wrapper goes on only after failures in which
nothing was delivered, or for a request it takes to be read-only, and
`WritesAreNotReads` says it takes no writing request for one.  That rests on
`EffectsAreNamed`: a statement that changes the database shows a data-modifying
keyword in its text.  A `SELECT` of a database function that writes would falsify it.

Only model-checked: liveness, since fairness and ENABLED are out of the prover's
reach: `NeverWedged`, `EveryLeaseEnds`, `PushedIsHandled`, `RowsSettle`,
`EveryRowSettles`, `EventsSettle`, `EveryoneServed`, `NewIsAlerted`.  Every
invariant and every action property of the passing runs is a theorem.

## 5. Not modelled

* Handlers' work, crawling, generated text, the analytics engines, signatures,
  URL checks, formatting and logging: pure functions or I/O.
* Authentication is delegated to a library; guards are checks of one request
  (`requirePlatformRole` is a guard of `AdminConsole`).
* API keys, comments, workspace audit, the brief's editorial statuses, content
  studio and settings: one statement per request, and no step that relies on
  an earlier one.
* Read models: reports, SEO, performance, the admin directories.
* The web application but for the two screens that keep state between requests:
  the others read, show and send one request.
* The public blog's queries, and the time its pages stay cached without a hint.
* In modelled components: Stripe's dunning mail, customer ids and period dates;
  progress percentages of jobs; scores, wording and briefs of recommendations;
  the content and archive of reports; the cron expressions.

Most of the repository's lines are these read models, pure engines and screens,
and that is why the map covers a small share of them: it covers the files in
which state is shared and changed in more than one step.

## 6. Plan

Done: the twenty modules of section 2, their runs, and the proofs of section 4.
Left: the composition of `Billing` and `Invitations`, where a plan may shrink
while seats are promised.
