------------------------------ MODULE Billing ------------------------------
(***************************************************************************)
(* The subscription of one workspace (apps/api/src/billing.ts): a row that *)
(* mirrors what Stripe says, written by the trial that a new workspace     *)
(* starts, by Stripe's webhook events, and by an administrator             *)
(* (apps/api/src/admin.ts); and the mails that depend on it.               *)
(*                                                                         *)
(* Stripe delivers an event until it is acknowledged, so deliveries        *)
(* repeat, overlap and arrive out of order.  Every statement of a handler  *)
(* is a step: nothing here runs in a transaction.                          *)
(***************************************************************************)
EXTENDS Naturals, Sequences, FiniteSets

CONSTANTS
  Subs,        \* Stripe subscriptions the workspace may check out
  PlanOf,      \* the plan in the metadata of each
  Bare,        \* subscriptions whose own metadata is gone (edited in Stripe)
  Handlers,    \* webhook requests served at a time
  Reminders,   \* runs of the daily reminder at a time
  None,        \* no row, no subscription, nothing in hand
  MaxEvents,   \* bound: events Stripe emits, in any scenario
  Scenarios    \* bound: who takes part in a behaviour and how often; records
               \* with handlers, reminders, events (Stripe's), faults
               \* (statements that throw, answers that are lost), admin (calls)

Plans == {"starter", "growth", "scale"}
StripeStatuses == {"active", "unpaid", "past_due", "canceled"}

\* Mutant: Stripe's own word is stored.
StripesOwnWord(st) == st

\* mapStripeStatus.
mapStripeStatus(st) ==
  IF st = "unpaid" THEN "past_due" ELSE st

Statuses == {"active", "trialing", "past_due", "canceled"}

\* The columns that matter; ends: trialEndsAt is unset, far off, or within
\* three days; reminded: trialReminderSentAt is set.
Rows == [plan : Plans, status : Statuses, sub : Subs \cup {None},
         ends : {"unset", "later", "soon"}, reminded : BOOLEAN]

ASSUME BillingAssumption ==
  /\ PlanOf \in [Subs -> Plans] /\ Bare \subseteq Subs
  /\ None \notin Subs /\ None \notin Rows
  /\ MaxEvents \in Nat
  /\ Scenarios \subseteq [handlers : SUBSET Handlers, reminders : SUBSET Reminders,
                          events : 0..MaxEvents, faults : Nat, admin : Nat]

\* A Stripe event.
Events == [kind : {"completed", "updated", "deleted"}, sub : Subs,
           status : StripeStatuses, previous : StripeStatuses \cup {None}]

VARIABLES
  scenario,   \* the bounds of this behaviour
  stripe,     \* Stripe: status of each subscription, or "none"
  log,        \* Stripe: the events it has emitted
  acked,      \* Stripe: the ones a 2xx has come back for
  row,        \* the subscriptions row, or None
  wsPlan,     \* workspaces.plan
  trial,      \* where startTrial is
  admin,      \* the administrator's call in progress
  hand,       \* the webhook requests in progress
  remind,     \* the reminder runs in progress
  faults, adminCalls,
  reminded,   \* history: reminder mails sent
  converted,  \* history: conversion mails sent for each subscription
  doubt,      \* history: subscriptions whose completion was handled twice at
              \* once, or whose row went to another subscription
  tidy,       \* history: Stripe's events came in order and one at a time
  torn        \* history: why the two copies of the plan may differ, since a
              \* sync last wrote both alone

stripeVars == <<stripe, log, acked>>
table == <<row, wsPlan>>
bounds == <<scenario, faults, adminCalls>>
history == <<reminded, converted, doubt, tidy, torn>>
vars == <<stripeVars, table, trial, admin, hand, remind, bounds, history>>

Idle == [pc |-> "idle", ev |-> 0, live |-> "none", first |-> FALSE, found |-> FALSE]
NoCall == [pc |-> "idle", found |-> FALSE]

\* Two writers with different plans overlapped; the trial stopped between its
\* writes; an administrator set the row's plan; a request was cut between its
\* writes when another delivery of the event had got past them.
Tears == {"overlap", "trial", "override", "cut"}

Ev(h) == log[hand[h].ev]
HandStages == {"idle", "before", "select", "write", "plan", "mail", "one", "answer"}
Requests == [pc : HandStages, ev : Nat, live : StripeStatuses \cup {"none"},
             first : BOOLEAN, found : BOOLEAN]

TypeOK ==
  /\ scenario \in Scenarios
  /\ stripe \in [Subs -> StripeStatuses \cup {"none"}]
  /\ log \in Seq(Events) /\ acked \subseteq DOMAIN log
  /\ row \in Rows \cup {None} /\ wsPlan \in Plans
  /\ trial \in {"insert", "plan", "done"}
  /\ admin \in [pc : {"idle", "override", "extend"}, found : BOOLEAN]
  /\ hand \in [Handlers -> Requests]
  /\ \A h \in Handlers : hand[h].pc # "idle" => hand[h].ev \in DOMAIN log
  /\ remind \in [Reminders -> {"idle", "claim", "mail"}]
  /\ faults \in 0..scenario.faults /\ adminCalls \in 0..scenario.admin
  /\ reminded \in Nat /\ converted \in [Subs -> Nat]
  /\ doubt \subseteq Subs /\ tidy \in BOOLEAN /\ torn \subseteq Tears

\* A workspace has just been created; its trial is being started.
Init ==
  /\ scenario \in Scenarios
  /\ stripe = [s \in Subs |-> "none"] /\ log = <<>> /\ acked = {}
  /\ row = None /\ wsPlan = "starter"
  /\ trial = "insert" /\ admin = NoCall
  /\ hand = [h \in Handlers |-> Idle]
  /\ remind = [r \in Reminders |-> "idle"]
  /\ faults = 0 /\ adminCalls = 0
  /\ reminded = 0 /\ converted = [s \in Subs |-> 0]
  /\ doubt = {} /\ tidy = TRUE /\ torn = {}

-----------------------------------------------------------------------------
(* Stripe.  createCheckoutSession asks for no more than a price, so a       *)
(* workspace that has a subscription may check out another.                 *)

Emit(s, kind, st, previous) ==
  /\ Len(log) < scenario.events
  /\ stripe' = [stripe EXCEPT ![s] = st]
  /\ log' = Append(log, [kind |-> kind, sub |-> s, status |-> st, previous |-> previous])
  /\ UNCHANGED <<acked, table, trial, admin, hand, remind, bounds, history>>

CheckOut(s) == stripe[s] = "none" /\ Emit(s, "completed", "active", None)

Change(s, st) ==
  /\ stripe[s] \notin {"none", "canceled", st} /\ st # "canceled"
  /\ Emit(s, "updated", st, stripe[s])

Cancel(s) ==
  /\ stripe[s] \notin {"none", "canceled"}
  /\ Emit(s, "deleted", "canceled", None)

\* The trial's end comes near.
TrialNearsEnd ==
  /\ row # None /\ row.ends = "later"
  /\ row' = [row EXCEPT !.ends = "soon"]
  /\ UNCHANGED <<stripeVars, wsPlan, trial, admin, hand, remind, bounds, history>>

-----------------------------------------------------------------------------
(* startTrial: two statements, and every error is swallowed.               *)

\* The plans other writers are in the middle of writing.
PlansBeingWritten ==
  {PlanOf[Ev(h).sub] : h \in {g \in Handlers : hand[g].pc \in {"write", "plan"}}}
    \cup (IF trial = "plan" THEN {"growth"} ELSE {})

\* A second row for the workspace breaks subscriptions_workspace_uidx.
TrialInsert ==
  /\ trial = "insert"
  /\ IF row = None
     THEN /\ row' = [plan |-> "growth", status |-> "trialing", sub |-> None,
                     ends |-> "later", reminded |-> FALSE]
          /\ trial' = "plan"
     ELSE row' = row /\ trial' = "done"
  /\ UNCHANGED <<stripeVars, wsPlan, admin, hand, remind, bounds, history>>

TrialPlan ==
  /\ trial = "plan"
  /\ wsPlan' = "growth" /\ trial' = "done"
  /\ UNCHANGED <<stripeVars, row, admin, hand, remind, bounds, history>>

TrialFails ==
  /\ faults < scenario.faults /\ trial # "done"
  /\ faults' = faults + 1
  /\ torn' = IF trial = "plan" THEN torn \cup {"trial"} ELSE torn
  /\ trial' = "done"
  /\ UNCHANGED <<stripeVars, table, admin, hand, remind, scenario, adminCalls, reminded, converted, doubt, tidy>>

-----------------------------------------------------------------------------
(* The administrator: overrideWorkspacePlan and extendTrial read whether   *)
(* there is a row and then update or insert it.                            *)

AdminReads(call) ==
  /\ adminCalls < scenario.admin /\ admin.pc = "idle"
  /\ admin' = [pc |-> call, found |-> row # None]
  /\ adminCalls' = adminCalls + 1
  /\ UNCHANGED <<stripeVars, table, trial, hand, remind, scenario, faults, history>>

\* Only subscriptions.plan changes, not workspaces.plan.
overrideWorkspacePlan(plan) ==
  /\ admin.pc = "override"
  /\ admin' = NoCall
  /\ row' = CASE row # None /\ admin.found -> [row EXCEPT !.plan = plan]
              [] row = None -> [plan |-> plan, status |-> "active", sub |-> None,
                                ends |-> "unset", reminded |-> FALSE]
              [] OTHER -> row
  /\ torn' = torn \cup {"override"}
  /\ UNCHANGED <<stripeVars, wsPlan, trial, hand, remind, bounds, reminded, converted, doubt, tidy>>

\* Whatever the status was: a paying workspace becomes trialing too.
extendTrial ==
  /\ admin.pc = "extend"
  /\ admin' = NoCall
  /\ row' = CASE row # None /\ admin.found ->
                   [row EXCEPT !.status = "trialing", !.ends = "later"]
              [] row = None -> [plan |-> "starter", status |-> "trialing", sub |-> None,
                                ends |-> "later", reminded |-> FALSE]
              [] OTHER -> row
  /\ UNCHANGED <<stripeVars, wsPlan, trial, hand, remind, bounds, history>>

-----------------------------------------------------------------------------
(* handleWebhookEvent.                                                      *)

Goto(h, pc) == hand' = [hand EXCEPT ![h].pc = pc]

FirstStage(e) ==
  CASE e.kind = "completed" -> "before"
    [] e.kind = "updated" /\ e.sub \notin Bare -> "select"
    [] OTHER -> "one"

\* A signed event arrives.  For a completed checkout the handler first
\* retrieves the subscription as Stripe has it now.
Deliver(h, n) ==
  /\ h \in scenario.handlers /\ hand[h].pc = "idle" /\ n \in DOMAIN log \ acked
  /\ hand' = [hand EXCEPT ![h] =
       [Idle EXCEPT !.pc = FirstStage(log[n]), !.ev = n,
                    !.live = IF log[n].kind = "completed" THEN stripe[log[n].sub]
                             ELSE log[n].status]]
  /\ tidy' = (tidy /\ 1..(n - 1) \subseteq acked /\ \A g \in Handlers : hand[g].pc = "idle")
  /\ doubt' = IF \E g \in Handlers : hand[g].pc # "idle" /\ hand[g].ev = n
              THEN doubt \cup {log[n].sub} ELSE doubt
  /\ UNCHANGED <<stripeVars, table, trial, admin, remind, bounds, reminded, converted, torn>>

\* Mutant: every delivery takes itself for the first.
AlwaysFirst(h) ==
  /\ hand[h].pc = "before"
  /\ hand' = [hand EXCEPT ![h].first = TRUE, ![h].pc = "select"]
  /\ UNCHANGED <<stripeVars, table, trial, admin, remind, bounds, history>>

\* isFirstDelivery: the row does not name this subscription yet.
ReadBefore(h) ==
  /\ hand[h].pc = "before"
  /\ hand' = [hand EXCEPT ![h].first = (row = None \/ row.sub # Ev(h).sub),
                          ![h].pc = "select"]
  /\ UNCHANGED <<stripeVars, table, trial, admin, remind, bounds, history>>

\* syncSubscription: is there a row?
SelectRow(h) ==
  /\ hand[h].pc = "select"
  /\ hand' = [hand EXCEPT ![h].found = (row # None), ![h].pc = "write"]
  /\ torn' = IF PlansBeingWritten \subseteq {PlanOf[Ev(h).sub]}
             THEN torn ELSE torn \cup {"overlap"}
  /\ UNCHANGED <<stripeVars, table, trial, admin, remind, bounds, reminded, converted, doubt, tidy>>

\* The row a sync leaves: the trial's dates and the reminder stay.
SyncedRow(h) ==
  LET kept == IF row = None THEN [ends |-> "unset", reminded |-> FALSE]
                            ELSE [ends |-> row.ends, reminded |-> row.reminded]
  IN  [plan |-> PlanOf[Ev(h).sub], status |-> mapStripeStatus(hand[h].live),
       sub |-> Ev(h).sub, ends |-> kept.ends, reminded |-> kept.reminded]

\* Mutant: the sync always inserts.
AlwaysInserts(h) == row # None

\* The row was not there when the handler looked and is there now: its
\* INSERT breaks the unique index and the request fails.
Conflicts(h) == ~hand[h].found /\ row # None

\* UPDATE or INSERT of the row.
WriteRow(h) ==
  /\ hand[h].pc = "write"
  /\ IF Conflicts(h)
     THEN hand' = [hand EXCEPT ![h] = Idle] /\ UNCHANGED <<row, doubt>>
     ELSE /\ row' = SyncedRow(h)
          /\ hand' = [hand EXCEPT ![h].found = FALSE, ![h].live = "none", ![h].pc = "plan"]
          /\ doubt' = IF row # None /\ row.sub \notin {None, Ev(h).sub}
                      THEN doubt \cup {row.sub} ELSE doubt
  /\ UNCHANGED <<stripeVars, wsPlan, trial, admin, remind, bounds, reminded, converted, tidy, torn>>

\* Mutant: the sync stops at the subscriptions row.
KeepPlan(h) ==
  /\ hand[h].pc = "plan"
  /\ hand' = [hand EXCEPT ![h].first = FALSE,
                          ![h].pc = IF hand[h].first THEN "mail" ELSE "answer"]
  /\ UNCHANGED <<stripeVars, table, trial, admin, remind, bounds, history>>

\* Nobody else is between reading and writing a plan, and the row still has
\* this one: whatever went wrong before, the two copies now agree.
WritesAlone(h) ==
  /\ row.plan = PlanOf[Ev(h).sub] /\ trial # "plan"
  /\ \A g \in Handlers \ {h} : hand[g].pc \notin {"write", "plan"}

\* workspaces.plan follows.
WritePlan(h) ==
  /\ hand[h].pc = "plan"
  /\ wsPlan' = PlanOf[Ev(h).sub]
  /\ torn' = IF WritesAlone(h) THEN {} ELSE torn
  /\ hand' = [hand EXCEPT ![h].first = FALSE,
                          ![h].pc = IF hand[h].first THEN "mail" ELSE "answer"]
  /\ UNCHANGED <<stripeVars, row, trial, admin, remind, bounds, reminded, converted, doubt, tidy>>

\* sendTrialConvertedEmail.  The owner has an address.
SendConverted(h) ==
  /\ hand[h].pc = "mail"
  /\ converted' = [converted EXCEPT ![Ev(h).sub] = @ + 1]
  /\ Goto(h, "answer")
  /\ UNCHANGED <<stripeVars, table, trial, admin, remind, bounds, reminded, doubt, tidy, torn>>

\* Mutant: the UPDATE finds the row by its workspace.
UpdateByWorkspace(h) ==
  /\ hand[h].pc = "one"
  /\ row' = IF row # None
            THEN [row EXCEPT !.status = IF Ev(h).kind = "deleted" THEN "canceled"
                                        ELSE mapStripeStatus(hand[h].live)]
            ELSE row
  /\ Goto(h, "answer")
  /\ UNCHANGED <<stripeVars, wsPlan, trial, admin, remind, bounds, history>>

\* The one UPDATE of an event without metadata, or of a deletion: the row
\* is found by the subscription's id, if it names it.
UpdateBySubscription(h) ==
  /\ hand[h].pc = "one"
  /\ row' = IF row # None /\ row.sub = Ev(h).sub
            THEN [row EXCEPT !.status = IF Ev(h).kind = "deleted" THEN "canceled"
                                        ELSE mapStripeStatus(hand[h].live)]
            ELSE row
  /\ Goto(h, "answer")
  /\ UNCHANGED <<stripeVars, wsPlan, trial, admin, remind, bounds, history>>

Answer(h) ==
  /\ hand[h].pc = "answer"
  /\ acked' = acked \cup {hand[h].ev}
  /\ hand' = [hand EXCEPT ![h] = Idle]
  /\ UNCHANGED <<stripe, log, table, trial, admin, remind, bounds, history>>

\* Stripe has an answer to this event, or will have, from another delivery
\* that is past its writes.
AnsweredElsewhere(h) ==
  \/ hand[h].ev \in acked
  \/ \E g \in Handlers \ {h} : hand[g].pc \in {"mail", "answer"} /\ hand[g].ev = hand[h].ev

\* A statement throws, the process dies, or the answer is lost: Stripe will
\* deliver the event again, unless another delivery of it is answered.
RequestFails(h) ==
  /\ hand[h].pc # "idle" /\ faults < scenario.faults
  /\ faults' = faults + 1
  /\ hand' = [hand EXCEPT ![h] = Idle]
  /\ torn' = IF hand[h].pc = "plan" /\ AnsweredElsewhere(h) THEN torn \cup {"cut"} ELSE torn
  /\ UNCHANGED <<stripeVars, table, trial, admin, remind, scenario, adminCalls, reminded, converted, doubt, tidy>>

HandlerStep(h) ==
  \/ ReadBefore(h) \/ SelectRow(h) \/ WriteRow(h) \/ WritePlan(h)
  \/ SendConverted(h) \/ UpdateBySubscription(h) \/ Answer(h)

-----------------------------------------------------------------------------
(* checkTrialsEndingSoon.                                                   *)

\* The SELECT of trialing rows not reminded yet, and the test of the date.
FindTrials(r) ==
  /\ r \in scenario.reminders /\ remind[r] = "idle"
  /\ row # None /\ row.status = "trialing" /\ ~row.reminded /\ row.ends = "soon"
  /\ remind' = [remind EXCEPT ![r] = "claim"]
  /\ UNCHANGED <<stripeVars, table, trial, admin, hand, bounds, history>>

\* Mutant: the reminder is marked, not claimed.
MarkReminder(r) ==
  /\ remind[r] = "claim"
  /\ row' = [row EXCEPT !.reminded = TRUE]
  /\ remind' = [remind EXCEPT ![r] = "mail"]
  /\ UNCHANGED <<stripeVars, wsPlan, trial, admin, hand, bounds, history>>

\* UPDATE ... WHERE trial_reminder_sent_at IS NULL: who takes the row mails.
ClaimReminder(r) ==
  /\ remind[r] = "claim"
  /\ row' = [row EXCEPT !.reminded = TRUE]
  /\ remind' = [remind EXCEPT ![r] = IF row.reminded THEN "idle" ELSE "mail"]
  /\ UNCHANGED <<stripeVars, wsPlan, trial, admin, hand, bounds, history>>

SendReminder(r) ==
  /\ remind[r] = "mail"
  /\ reminded' = reminded + 1
  /\ remind' = [remind EXCEPT ![r] = "idle"]
  /\ UNCHANGED <<stripeVars, table, trial, admin, hand, bounds, converted, doubt, tidy, torn>>

-----------------------------------------------------------------------------
Next ==
  \/ \E s \in Subs : CheckOut(s) \/ Cancel(s) \/ \E st \in StripeStatuses : Change(s, st)
  \/ TrialNearsEnd \/ TrialInsert \/ TrialPlan \/ TrialFails
  \/ \E call \in {"override", "extend"} : AdminReads(call)
  \/ \E plan \in Plans : overrideWorkspacePlan(plan)
  \/ extendTrial
  \/ \E h \in Handlers, n \in DOMAIN log : Deliver(h, n)
  \/ \E h \in Handlers : HandlerStep(h) \/ RequestFails(h)
  \/ \E r \in Reminders : FindTrials(r) \/ ClaimReminder(r) \/ SendReminder(r)

Spec == Init /\ [][Next]_vars

\* Stripe keeps delivering what is not acknowledged, and a request served
\* goes on to its answer.
FairSpec ==
  /\ Spec
  /\ \A n \in 1..MaxEvents : WF_vars(\E h \in Handlers : n \in DOMAIN log /\ Deliver(h, n))
  /\ \A h \in Handlers : WF_vars(HandlerStep(h))

-----------------------------------------------------------------------------
(* Properties.                                                              *)

Quiet ==
  /\ \A h \in Handlers : hand[h].pc = "idle"
  /\ trial = "done" /\ acked = DOMAIN log

\* A trial's reminder is sent at most once, whatever runs of the daily task
\* overlap and whatever Stripe and the administrator do to the row meanwhile
\* (the claim in checkTrialsEndingSoon).
RemindOnce == reminded + Cardinality({r \in Reminders : remind[r] = "mail"}) <= 1

\* A customer is told once that the trial converted, however often Stripe
\* repeats the event, unless two deliveries of it overlapped or the row had
\* gone over to another subscription (isFirstDelivery).
ConvertedOnce == \A s \in Subs \ doubt : converted[s] <= 1

\* Neither mail goes out twice.
MailedOnce == RemindOnce /\ ConvertedOnce

\* The row never shows of a subscription a status that subscription never
\* had: no event of one subscription is written to another's row.
\* trialing is the administrator's doing.
StatusesHad(s) ==
  {mapStripeStatus(log[n].status) : n \in {m \in DOMAIN log : log[m].sub = s}}
NeverInvented ==
  row # None /\ row.sub # None => row.status \in StatusesHad(row.sub) \cup {"trialing"}

\* Delivered in order and one at a time, retries included, Stripe's events
\* leave the row with the status its subscription has.
Mirrors ==
  Quiet /\ tidy /\ row # None /\ row.sub # None /\ row.status # "trialing" =>
    row.status = mapStripeStatus(stripe[row.sub])

RowFollowsStripe == NeverInvented /\ Mirrors

\* When every event has been handled, workspaces.plan is the row's plan, in
\* any order of deliveries and although requests failed between their two
\* writes (syncSubscription).  Four things excuse a difference, until a sync
\* next writes both copies alone: writers with different plans overlapped;
\* startTrial, whose errors nobody repeats, stopped between its two writes; an
\* administrator set the row's plan; a request was cut between its writes
\* while another delivery of its event was past them, so that Stripe got its
\* answer and does not repeat it.
PlansAgree == Quiet /\ torn = {} /\ row # None => wsPlan = row.plan

\* The plan on the workspace is "denormalized in lockstep" with the row
\* (billing.ts:16-17), whoever wrote it.
PlanInLockstep == Quiet /\ row # None => wsPlan = row.plan

\* Every event is acknowledged in the end: a request that failed halfway,
\* or lost the race to insert the row, succeeds when Stripe repeats it.
EventsSettle == \A n \in 1..MaxEvents : n \in DOMAIN log ~> n \in acked

=============================================================================
